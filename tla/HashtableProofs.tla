---------------------------- MODULE HashtableProofs ----------------------------
(***************************************************************************)
(* Proofs about one table: for any number of threads, any keys and values, *)
(* any hash function and load factor.                                      *)
(***************************************************************************)
EXTENDS Hashtable, SequenceTheorems, FiniteSetTheorems, FunctionTheorems,
        WellFoundedInduction, TLAPS

Writing == {"resize", "table", "insert"}
Reading == {"get", "get2", "next"}
(* resize has doubled the capacity, and the array is still the old one.    *)
Rewriting == \E t \in Threads : pc[t] = "table"

(* What an array holds: its pairs, their keys, the map they are.           *)
PairsOf(bs) == UNION {ToSet(bs[i]) : i \in DOMAIN bs}
KeysOf(bs)  == {p.key : p \in PairsOf(bs)}
DictOf(bs)  == [k \in KeysOf(bs) |-> (CHOOSE p \in PairsOf(bs) : p.key = k).val]
UpTo(bs, k, cap) == {bs[i][1].key : i \in {j \in DOMAIN bs : j <= Index(k, cap)}}

(* No chain is longer than one pair, and no key is in two buckets.         *)
Good(bs) ==
  /\ \A i \in DOMAIN bs : bs[i] \in Seq(Pair) /\ Len(bs[i]) = 1
  /\ \A i, j \in DOMAIN bs : bs[i][1].key = bs[j][1].key => i = j
(* Each key is in its bucket.                                              *)
Placed(bs, cap) == \A i \in DOMAIN bs : Index(bs[i][1].key, cap) = i
(* No two keys will be in one bucket.                                      *)
Apart(bs, cap) ==
  \A i, j \in DOMAIN bs : Index(bs[i][1].key, cap) = Index(bs[j][1].key, cap) => i = j

LockInv ==
  /\ \A t \in Threads : pc[t] \in Writing <=> writer = t
  /\ \A t \in Threads : pc[t] \in Reading <=> t \in readers
  /\ \A t \in Threads : pc[t] # "idle" => capacity > 0
  /\ writer # NULL => usage < MaxUsage
CallInv ==
  \A t \in Threads :
    /\ pc[t] \in Writing \cup {"get", "get2"} => key[t] \in Keys
    /\ pc[t] \in Writing => val[t] \in Stored \ freed /\ ~clean[t]
    /\ pc[t] = "get2" => TypeOf(key[t]) = "string"
    /\ pc[t] = "idle" => key[t] = Absent /\ val[t] = Absent
BucketInv ==
  /\ Good(buckets)
  /\ ~Rewriting => Placed(buckets, capacity)
  /\ Rewriting => Apart(buckets, capacity)
CountInv == IsFiniteSet(KeysOf(buckets)) /\ Cardinality(KeysOf(buckets)) <= usage
(* What leads the collector to the objects in use: gcVal, or a root.       *)
LifeInv ==
  /\ \A o \in freed : HasObject(o)
  /\ \A i \in DOMAIN buckets : /\ HasObject(buckets[i][1].val) =>
                                    buckets[i][1].gcVal = buckets[i][1].val
                               /\ buckets[i][1].val \notin freed
AnswerInv ==
  \A t \in Threads : /\ answer[t] \in Stored /\ HasObject(answer[t]) => rooted[t]
                     /\ answer[t] \notin freed
(* An iteration undisturbed has met the keys of the buckets up to that of  *)
(* the key it met last.                                                    *)
SeenInv ==
  \A t \in Threads :
    /\ pc[t] = "next" /\ key[t] = Absent => seen[t] = {}
    /\ ~Rewriting /\ clean[t] /\ pc[t] = "next" /\ key[t] \in Keys =>
         key[t] \in KeysOf(buckets) /\ seen[t] = UpTo(buckets, key[t], capacity)
    /\ ~Rewriting /\ clean[t] /\ pc[t] = "idle" /\ answer[t] \in Keys =>
         answer[t] \in KeysOf(buckets) /\ seen[t] = UpTo(buckets, answer[t], capacity)

IInv == /\ TypeOK /\ LockInv /\ CallInv /\ BucketInv /\ CountInv /\ LifeInv /\ AnswerInv
        /\ SeenInv /\ LostOnlyToCollision

-----------------------------------------------------------------------------
(* The pairs of an array whose chains have one each.                       *)
LEMMA GoodFacts ==
  ASSUME NEW bs, Good(bs)
  PROVE  /\ PairsOf(bs) = {bs[i][1] : i \in DOMAIN bs}
         /\ KeysOf(bs) = {bs[i][1].key : i \in DOMAIN bs}
         /\ \A i \in DOMAIN bs : bs[i][1] \in Pair
         /\ \A i \in DOMAIN bs : DictOf(bs)[bs[i][1].key] = bs[i][1].val
<1>1. ASSUME NEW i \in DOMAIN bs
      PROVE  ToSet(bs[i]) = {bs[i][1]} /\ bs[i][1] \in Pair
  <2>1. bs[i] \in Seq(Pair) /\ Len(bs[i]) = 1
    BY DEF Good
  <2>2. DOMAIN bs[i] = {1}
    BY <2>1
  <2>3. bs[i][1] \in Pair
    <3>1. 1 \in 1 .. Len(bs[i])
      BY <2>1
    <3> QED BY <2>1, <3>1, ElementOfSeq
  <2> QED BY <2>2, <2>3 DEF ToSet
<1>2. PairsOf(bs) = {bs[i][1] : i \in DOMAIN bs}
  BY <1>1 DEF PairsOf
<1>3. KeysOf(bs) = {bs[i][1].key : i \in DOMAIN bs}
  BY <1>2 DEF KeysOf
<1>4. ASSUME NEW i \in DOMAIN bs PROVE DictOf(bs)[bs[i][1].key] = bs[i][1].val
  <2>1. bs[i][1] \in PairsOf(bs) /\ bs[i][1].key \in KeysOf(bs)
    BY <1>2, <1>3
  <2>2. \A p \in PairsOf(bs) : p.key = bs[i][1].key => p = bs[i][1]
    BY <1>2 DEF Good
  <2>3. (CHOOSE p \in PairsOf(bs) : p.key = bs[i][1].key) = bs[i][1]
    BY <2>1, <2>2
  <2> QED BY <2>1, <2>3 DEF DictOf
<1> QED BY <1>1, <1>2, <1>3, <1>4

(* Where a lookup looks.                                                   *)
LEMMA IndexFacts ==
  ASSUME NEW k \in Keys, NEW cap \in Nat, cap > 0
  PROVE  Index(k, cap) \in 0 .. (cap - 1)
<1>1. HashCode(k) \in Nat
  BY KeysAssumption
<1> QED BY <1>1 DEF Index

(* A key matches the pair that has it, and no other.                       *)
LEMMA MatchFacts ==
  ASSUME NEW k \in Keys, NEW p \in Pair
  PROVE  Matches(k, p) <=> p.key = k
<1>1. p.key \in Keys
  BY DEF Pair
<1> QED BY <1>1, KeysAssumption DEF Matches, Equals

(* A search finds the key in its bucket, or nowhere.                       *)
LEMMA PositionFacts ==
  ASSUME NEW bs, Good(bs), NEW cap \in Nat, cap > 0, Placed(bs, cap), NEW k \in Keys,
         NEW i, i = Index(k, cap)
  PROVE  /\ k \in KeysOf(bs) <=> i \in DOMAIN bs /\ bs[i][1].key = k
         /\ k \in KeysOf(bs) => /\ Position(k, Chain(bs, i)) = 1 /\ Chain(bs, i) = bs[i]
                                /\ DictOf(bs)[k] = bs[i][1].val
         /\ k \notin KeysOf(bs) => Position(k, Chain(bs, i)) = 0
         /\ Chain(bs, i) # <<>> <=> i \in DOMAIN bs
<1>1. /\ KeysOf(bs) = {bs[j][1].key : j \in DOMAIN bs}
      /\ \A j \in DOMAIN bs : bs[j][1] \in Pair
      /\ \A j \in DOMAIN bs : DictOf(bs)[bs[j][1].key] = bs[j][1].val
  BY GoodFacts
<1>2. k \in KeysOf(bs) <=> i \in DOMAIN bs /\ bs[i][1].key = k
  BY <1>1 DEF Placed
<1>3. CASE i \notin DOMAIN bs
  <2>1. Chain(bs, i) = <<>> /\ DOMAIN Chain(bs, i) = {}
    BY <1>3 DEF Chain
  <2>2. Position(k, Chain(bs, i)) = 0
    BY <2>1 DEF Position
  <2> QED BY <1>2, <1>3, <2>1, <2>2
<1>4. CASE i \in DOMAIN bs
  <2>1. Chain(bs, i) = bs[i] /\ DOMAIN bs[i] = {1} /\ bs[i] # <<>>
    <3>1. bs[i] \in Seq(Pair) /\ Len(bs[i]) = 1
      BY <1>4 DEF Good
    <3>2. DOMAIN bs[i] = {1} /\ bs[i] # <<>>
      BY <3>1
    <3> QED BY <1>4, <3>2 DEF Chain
  <2>2. Matches(k, bs[i][1]) <=> bs[i][1].key = k
    BY <1>1, <1>4, MatchFacts
  <2>3. CASE bs[i][1].key = k
    <3>1. {j \in DOMAIN bs[i] : Matches(k, bs[i][j])} = {1}
      BY <2>1, <2>2, <2>3
    <3>2. Position(k, bs[i]) = 1
      BY <3>1 DEF Position
    <3> QED BY <1>1, <1>2, <1>4, <2>1, <2>3, <3>2
  <2>4. CASE bs[i][1].key # k
    <3>1. {j \in DOMAIN bs[i] : Matches(k, bs[i][j])} = {}
      BY <2>1, <2>2, <2>4
    <3>2. Position(k, bs[i]) = 0
      BY <3>1 DEF Position
    <3> QED BY <1>2, <1>4, <2>1, <2>4, <3>2
  <2> QED BY <2>3, <2>4
<1> QED BY <1>3, <1>4

(* A pair is put into its bucket.                                          *)
PutInto(bs, i, p, bs2) ==
  /\ DOMAIN bs2 = DOMAIN bs \cup {i} /\ bs2[i] = <<p>>
  /\ \A j \in DOMAIN bs : j # i => bs2[j] = bs[j] /\ bs[j][1].key # p.key
  /\ i \in DOMAIN bs => bs[i][1].key = p.key
Updated(d, k, v) == [x \in DOMAIN d \cup {k} |-> IF x = k THEN v ELSE d[x]]
(* A pair put into a bucket is a key of the dictionary set to its value.    *)
LEMMA PutFacts ==
  ASSUME NEW bs, Good(bs), NEW i, NEW p \in Pair, NEW bs2, PutInto(bs, i, p, bs2)
  PROVE  /\ Good(bs2)
         /\ \A j \in DOMAIN bs2 : IF j = i THEN bs2[j][1] = p
                                  ELSE j \in DOMAIN bs /\ bs2[j][1] = bs[j][1]
         /\ KeysOf(bs2) = KeysOf(bs) \cup {p.key}
         /\ DictOf(bs2) = Updated(DictOf(bs), p.key, p.val)
<1> USE DEF PutInto
<1>1. <<p>> \in Seq(Pair) /\ Len(<<p>>) = 1 /\ <<p>>[1] = p
  OBVIOUS
<1>2. \A j \in DOMAIN bs2 : IF j = i THEN bs2[j][1] = p
                            ELSE j \in DOMAIN bs /\ bs2[j] = bs[j] /\ bs2[j][1] = bs[j][1]
  BY <1>1
<1>3. Good(bs2)
  <2>1. ASSUME NEW j \in DOMAIN bs2 PROVE bs2[j] \in Seq(Pair) /\ Len(bs2[j]) = 1
    <3>1. CASE j = i
      BY <1>1, <3>1
    <3>2. CASE j # i
      BY <1>2, <3>2 DEF Good
    <3> QED BY <3>1, <3>2
  <2>2. ASSUME NEW j \in DOMAIN bs2, NEW h \in DOMAIN bs2, bs2[j][1].key = bs2[h][1].key
        PROVE  j = h
    BY <1>2, <2>2 DEF Good
  <2> QED BY <2>1, <2>2 DEF Good
<1>4. /\ KeysOf(bs2) = {bs2[j][1].key : j \in DOMAIN bs2}
      /\ KeysOf(bs) = {bs[j][1].key : j \in DOMAIN bs}
      /\ \A j \in DOMAIN bs2 : DictOf(bs2)[bs2[j][1].key] = bs2[j][1].val
      /\ \A j \in DOMAIN bs : DictOf(bs)[bs[j][1].key] = bs[j][1].val
  BY <1>3, GoodFacts
<1>5. KeysOf(bs2) = KeysOf(bs) \cup {p.key}
  <2>1. i \in DOMAIN bs2
    OBVIOUS
  <2>2. p.key \in KeysOf(bs2)
    BY <1>2, <1>4, <2>1
  <2>3. ASSUME NEW j \in DOMAIN bs PROVE bs[j][1].key \in KeysOf(bs2)
    <3>1. CASE j = i
      BY <2>2, <3>1
    <3>2. CASE j # i
      BY <1>2, <1>4, <3>2
    <3> QED BY <3>1, <3>2
  <2>4. ASSUME NEW j \in DOMAIN bs2 PROVE bs2[j][1].key \in KeysOf(bs) \cup {p.key}
    BY <1>2, <1>4
  <2> QED BY <1>4, <2>2, <2>3, <2>4
<1>6. ASSUME NEW x \in KeysOf(bs2)
      PROVE  DictOf(bs2)[x] = IF x = p.key THEN p.val ELSE DictOf(bs)[x]
  <2>1. PICK j \in DOMAIN bs2 : x = bs2[j][1].key
    BY <1>4
  <2>2. DictOf(bs2)[x] = bs2[j][1].val
    BY <1>4, <2>1
  <2>3. CASE j = i
    BY <1>2, <2>1, <2>2, <2>3
  <2>4. CASE j # i
    <3>1. j \in DOMAIN bs /\ bs2[j][1] = bs[j][1] /\ bs[j][1].key # p.key
      BY <1>2, <2>4
    <3> QED BY <1>4, <2>1, <2>2, <3>1
  <2> QED BY <2>3, <2>4
<1>7. DOMAIN DictOf(bs) = KeysOf(bs)
  BY DEF DictOf
<1>8. DictOf(bs2) = [x \in KeysOf(bs2) |-> IF x = p.key THEN p.val ELSE DictOf(bs)[x]]
  <2>1. DictOf(bs2) = [x \in KeysOf(bs2) |-> DictOf(bs2)[x]]
    BY DEF DictOf
  <2> QED BY <1>6, <2>1
<1>9. DictOf(bs2) = Updated(DictOf(bs), p.key, p.val)
  BY <1>5, <1>7, <1>8 DEF Updated
<1> QED BY <1>2, <1>3, <1>5, <1>9

(* A bucket is emptied.                                                    *)
Dropped(f, i) == [x \in DOMAIN f \ {i} |-> f[x]]
(* What the dictionary loses is the key of the bucket, and only that.       *)
LEMMA DropFacts ==
  ASSUME NEW bs, Good(bs), NEW i \in DOMAIN bs, NEW bs2, bs2 = Dropped(bs, i)
  PROVE  /\ Good(bs2)
         /\ \A j \in DOMAIN bs2 : j \in DOMAIN bs /\ bs2[j][1] = bs[j][1]
         /\ KeysOf(bs2) = KeysOf(bs) \ {bs[i][1].key}
         /\ DictOf(bs2) = Dropped(DictOf(bs), bs[i][1].key)
<1>1. /\ \A j \in DOMAIN bs2 : j \in DOMAIN bs /\ j # i /\ bs2[j] = bs[j]
      /\ \A j \in DOMAIN bs : j # i => j \in DOMAIN bs2
  BY DEF Dropped
<1>2. Good(bs2)
  BY <1>1 DEF Good
<1>3. /\ KeysOf(bs2) = {bs2[j][1].key : j \in DOMAIN bs2}
      /\ \A j \in DOMAIN bs2 : DictOf(bs2)[bs2[j][1].key] = bs2[j][1].val
  BY <1>2, GoodFacts
<1>4. /\ KeysOf(bs) = {bs[j][1].key : j \in DOMAIN bs}
      /\ \A j \in DOMAIN bs : DictOf(bs)[bs[j][1].key] = bs[j][1].val
  BY GoodFacts
<1>5. KeysOf(bs2) = KeysOf(bs) \ {bs[i][1].key}
  <2>1. ASSUME NEW x \in KeysOf(bs2) PROVE x \in KeysOf(bs) /\ x # bs[i][1].key
    <3>1. PICK j \in DOMAIN bs2 : x = bs2[j][1].key
      BY <1>3
    <3>2. j \in DOMAIN bs /\ j # i /\ x = bs[j][1].key
      BY <1>1, <3>1
    <3> QED BY <1>4, <3>2 DEF Good
  <2>2. ASSUME NEW x \in KeysOf(bs), x # bs[i][1].key PROVE x \in KeysOf(bs2)
    <3>1. PICK j \in DOMAIN bs : x = bs[j][1].key
      BY <1>4
    <3>2. j \in DOMAIN bs2 /\ bs2[j] = bs[j]
      BY <1>1, <2>2, <3>1
    <3> QED BY <1>3, <3>1, <3>2
  <2> QED BY <2>1, <2>2
<1>6. ASSUME NEW x \in KeysOf(bs2) PROVE DictOf(bs2)[x] = DictOf(bs)[x]
  <2>1. PICK j \in DOMAIN bs2 : x = bs2[j][1].key
    BY <1>3
  <2>2. j \in DOMAIN bs /\ bs2[j] = bs[j]
    BY <1>1
  <2> QED BY <1>3, <1>4, <2>1, <2>2
<1>7. DictOf(bs2) = [x \in KeysOf(bs2) |-> DictOf(bs)[x]]
  <2>1. DictOf(bs2) = [x \in KeysOf(bs2) |-> DictOf(bs2)[x]]
    BY DEF DictOf
  <2> QED BY <1>6, <2>1
<1>8. DOMAIN DictOf(bs) = KeysOf(bs)
  BY DEF DictOf
<1>9. DictOf(bs2) = Dropped(DictOf(bs), bs[i][1].key)
  BY <1>5, <1>7, <1>8 DEF Dropped
<1> QED BY <1>1, <1>2, <1>5, <1>9

(* Every pair is moved to the bucket it has in a larger array.             *)
Moved(bs, cap) ==
  [i \in {Index(p.key, cap) : p \in PairsOf(bs)} |->
     LET p == CHOOSE p \in PairsOf(bs) : Index(p.key, cap) = i
     IN  <<PairOf(p.key, p.val, Nil)>>]
(* Pairs whose hashes differ in the new capacity all survive a resize.      *)
LEMMA MoveFacts ==
  ASSUME NEW bs, Good(bs), NEW cap \in Nat, cap > 0, Apart(bs, cap),
         NEW bs2, bs2 = Moved(bs, cap)
  PROVE  /\ Good(bs2) /\ Placed(bs2, cap)
         /\ \A j \in DOMAIN bs2 : \E h \in DOMAIN bs :
              bs2[j][1] = PairOf(bs[h][1].key, bs[h][1].val, Nil)
         /\ DOMAIN bs2 \subseteq 0 .. (cap - 1)
         /\ KeysOf(bs2) = KeysOf(bs)
         /\ DictOf(bs2) = DictOf(bs)
<1>1. /\ PairsOf(bs) = {bs[j][1] : j \in DOMAIN bs}
      /\ KeysOf(bs) = {bs[j][1].key : j \in DOMAIN bs}
      /\ \A j \in DOMAIN bs : bs[j][1] \in Pair
      /\ \A j \in DOMAIN bs : DictOf(bs)[bs[j][1].key] = bs[j][1].val
  BY GoodFacts
<1>2. ASSUME NEW h \in DOMAIN bs, NEW i, i = Index(bs[h][1].key, cap)
      PROVE  i \in DOMAIN bs2 /\ bs2[i] = <<PairOf(bs[h][1].key, bs[h][1].val, Nil)>>
  <2>1. i \in {Index(p.key, cap) : p \in PairsOf(bs)}
    BY <1>1, <1>2
  <2>2. \A p \in PairsOf(bs) : Index(p.key, cap) = i => p = bs[h][1]
    BY <1>1, <1>2 DEF Apart
  <2>3. (CHOOSE p \in PairsOf(bs) : Index(p.key, cap) = i) = bs[h][1]
    BY <1>1, <1>2, <2>2
  <2> QED BY <2>1, <2>3 DEF Moved
<1>3. \A i \in DOMAIN bs2 : \E h \in DOMAIN bs : i = Index(bs[h][1].key, cap)
  BY <1>1 DEF Moved
<1>4. ASSUME NEW h \in DOMAIN bs
      PROVE  /\ PairOf(bs[h][1].key, bs[h][1].val, Nil) \in Pair
             /\ PairOf(bs[h][1].key, bs[h][1].val, Nil).key = bs[h][1].key
             /\ PairOf(bs[h][1].key, bs[h][1].val, Nil).val = bs[h][1].val
  BY <1>1 DEF PairOf, Pair, Field
<1>5. ASSUME NEW h \in DOMAIN bs
      PROVE  \E i \in DOMAIN bs2 :
               /\ i = Index(bs[h][1].key, cap)
               /\ bs2[i] \in Seq(Pair) /\ Len(bs2[i]) = 1
               /\ bs2[i][1] = PairOf(bs[h][1].key, bs[h][1].val, Nil)
               /\ bs2[i][1].key = bs[h][1].key /\ bs2[i][1].val = bs[h][1].val
  <2>1. PICK i : i = Index(bs[h][1].key, cap)
    OBVIOUS
  <2>2. PICK q \in Pair : /\ q = PairOf(bs[h][1].key, bs[h][1].val, Nil)
                          /\ q.key = bs[h][1].key /\ q.val = bs[h][1].val
    BY <1>4
  <2>3. i \in DOMAIN bs2 /\ bs2[i] = <<q>>
    BY <1>2, <2>1, <2>2
  <2>4. <<q>> \in Seq(Pair) /\ Len(<<q>>) = 1 /\ <<q>>[1] = q
    OBVIOUS
  <2> QED BY <2>1, <2>2, <2>3, <2>4
<1>6. ASSUME NEW i \in DOMAIN bs2
      PROVE  \E h \in DOMAIN bs :
               /\ i = Index(bs[h][1].key, cap)
               /\ bs2[i] \in Seq(Pair) /\ Len(bs2[i]) = 1
               /\ bs2[i][1] = PairOf(bs[h][1].key, bs[h][1].val, Nil)
               /\ bs2[i][1].key = bs[h][1].key /\ bs2[i][1].val = bs[h][1].val
  BY <1>3, <1>5
<1>7. Good(bs2)
  <2>1. ASSUME NEW i \in DOMAIN bs2, NEW j \in DOMAIN bs2, bs2[i][1].key = bs2[j][1].key
        PROVE  i = j
    <3>1. i = Index(bs2[i][1].key, cap)
      BY <1>6
    <3>2. j = Index(bs2[j][1].key, cap)
      BY <1>6
    <3> QED BY <2>1, <3>1, <3>2
  <2>2. \A i \in DOMAIN bs2 : bs2[i] \in Seq(Pair) /\ Len(bs2[i]) = 1
    BY <1>6
  <2> QED BY <2>1, <2>2 DEF Good
<1>8. Placed(bs2, cap)
  <2>1. \A i \in DOMAIN bs2 : i = Index(bs2[i][1].key, cap)
    BY <1>6
  <2> QED BY <2>1 DEF Placed
<1>9. DOMAIN bs2 \subseteq 0 .. (cap - 1)
  <2>1. \A h \in DOMAIN bs : bs[h][1].key \in Keys
    BY <1>1 DEF Pair
  <2> QED BY <1>3, <2>1, IndexFacts
<1>10. /\ KeysOf(bs2) = {bs2[j][1].key : j \in DOMAIN bs2}
       /\ \A j \in DOMAIN bs2 : DictOf(bs2)[bs2[j][1].key] = bs2[j][1].val
  BY <1>7, GoodFacts
<1>11. KeysOf(bs2) = KeysOf(bs)
  <2>1. \A x \in KeysOf(bs) : x \in KeysOf(bs2)
    BY <1>1, <1>5, <1>10
  <2>2. \A x \in KeysOf(bs2) : x \in KeysOf(bs)
    BY <1>1, <1>6, <1>10
  <2> QED BY <2>1, <2>2
<1>12. ASSUME NEW x \in KeysOf(bs2) PROVE DictOf(bs2)[x] = DictOf(bs)[x]
  <2>1. PICK i \in DOMAIN bs2 : x = bs2[i][1].key
    BY <1>10
  <2>2. PICK h \in DOMAIN bs : bs2[i][1].key = bs[h][1].key /\ bs2[i][1].val = bs[h][1].val
    BY <1>6
  <2>3. DictOf(bs2)[x] = bs2[i][1].val
    BY <1>10, <2>1
  <2>4. DictOf(bs)[x] = bs[h][1].val
    BY <1>1, <2>1, <2>2
  <2> QED BY <2>2, <2>3, <2>4
<1>13. DictOf(bs2) = DictOf(bs)
  <2>1. /\ DictOf(bs2) = [x \in KeysOf(bs2) |-> DictOf(bs2)[x]]
        /\ DictOf(bs) = [x \in KeysOf(bs) |-> DictOf(bs)[x]]
    BY DEF DictOf
  <2>2. \A x \in KeysOf(bs) : DictOf(bs2)[x] = DictOf(bs)[x]
    BY <1>11, <1>12
  <2>3. [x \in KeysOf(bs) |-> DictOf(bs2)[x]] = [x \in KeysOf(bs) |-> DictOf(bs)[x]]
    BY <2>2
  <2> QED BY <1>11, <2>1, <2>3
<1>14. \A j \in DOMAIN bs2 : \E h \in DOMAIN bs :
         bs2[j][1] = PairOf(bs[h][1].key, bs[h][1].val, Nil)
  BY <1>6
<1> QED BY <1>7, <1>8, <1>9, <1>11, <1>13, <1>14

-----------------------------------------------------------------------------
(* Who holds the lock: one writer, or readers.                             *)
LEMMA LockFacts ==
  ASSUME IInv
  PROVE  /\ \A t, u \in Threads : pc[t] \in Writing /\ pc[u] \in Writing => t = u
         /\ \A t, u \in Threads : pc[t] \in Reading => pc[u] \notin Writing
         /\ \A t \in Threads : pc[t] \in Reading => writer = NULL
         /\ writer = NULL => ~Rewriting /\ \A t \in Threads : pc[t] \notin Writing
         /\ \A t \in Threads : pc[t] \in Writing => readers = {} /\ usage + 1 \in 0 .. MaxUsage
         /\ capacity \in Nat /\ usage \in Nat /\ MaxUsage \in Nat
<1>1. \A t \in Threads : t # NULL
  BY TableAssumption
<1>2. writer = NULL => \A t \in Threads : pc[t] \notin Writing
  BY <1>1 DEF IInv, LockInv
<1>3. writer = NULL => ~Rewriting
  BY <1>2 DEF Rewriting, Writing
<1>4. \A t \in Threads : pc[t] \in Writing => readers = {} /\ usage + 1 \in 0 .. MaxUsage
  <2> SUFFICES ASSUME NEW t \in Threads, pc[t] \in Writing
               PROVE  readers = {} /\ usage + 1 \in 0 .. MaxUsage
    OBVIOUS
  <2>1. writer = t /\ writer # NULL
    BY <1>1 DEF IInv, LockInv
  <2> QED BY <2>1, TableAssumption DEF IInv, LockInv, TypeOK
<1>5. \A t, u \in Threads : pc[t] \in Writing /\ pc[u] \in Writing => t = u
  BY DEF IInv, LockInv
<1>6. \A t \in Threads : pc[t] \in Reading => writer = NULL
  BY DEF IInv, LockInv, TypeOK
<1> QED BY <1>2, <1>3, <1>4, <1>5, <1>6, TableAssumption DEF IInv, TypeOK

(* Thread t goes on to p with the call (k, v) or the answer a, with a root  *)
(* if r; what it does with the lock follows from where it goes.            *)
Moves(t, p, k, v, a, r) ==
  /\ fault = "none" /\ UNCHANGED <<freed, fault>>
  /\ pc' = [pc EXCEPT ![t] = p]
  /\ key' = [key EXCEPT ![t] = k] /\ val' = [val EXCEPT ![t] = v]
  /\ answer' = [answer EXCEPT ![t] = a] /\ rooted' = [rooted EXCEPT ![t] = r]
  /\ p \in {"idle"} \cup Writing \cup Reading
  /\ k \in Keys \cup {Absent} /\ v \in Stored \cup {Absent}
  /\ a \in Keys \cup Stored \cup {Absent, Pending, Done, Refused} /\ r \in BOOLEAN
  /\ writer' = IF p \in Writing THEN t ELSE IF writer = t THEN NULL ELSE writer
  /\ readers' = IF p \in Reading THEN readers \cup {t} ELSE readers \ {t}
  /\ p \in Writing => pc[t] \in Writing \/ (writer = NULL /\ readers = {} /\ usage' < MaxUsage)
  /\ p \in Reading => writer = NULL
  /\ p # "idle" => capacity > 0
  /\ \/ usage' = usage
     \/ usage' = usage + 1 /\ pc[t] \in Writing /\ p \notin Writing
  /\ p \in Writing \cup {"get", "get2"} => k \in Keys
  /\ p = "get2" => TypeOf(k) = "string"
  /\ p = "idle" => k = Absent /\ v = Absent
  /\ p \in Writing => v \in Stored \ freed
  /\ a \in Stored /\ HasObject(a) => r
  /\ a \notin freed

(* ... and then only the table and the iterations remain to be looked at.  *)
LEMMA MoveStep ==
  ASSUME IInv, NEW t \in Threads, NEW p, NEW k, NEW v, NEW a, NEW r,
         Moves(t, p, k, v, a, r),
         capacity' \in Nat, capacity > 0 => capacity' > 0,
         DOMAIN buckets' \subseteq 0 .. (capacity' - 1),
         BucketInv', CountInv', LifeInv', SeenInv',
         seen' \in [Threads -> SUBSET Keys], clean' \in [Threads -> BOOLEAN],
         \A u \in Threads : pc'[u] \in Writing => ~clean'[u]
  PROVE  IInv'
<1> USE TableAssumption
<1>1. /\ pc' = [pc EXCEPT ![t] = p] /\ p \in {"idle"} \cup Writing \cup Reading
      /\ key' = [key EXCEPT ![t] = k] /\ val' = [val EXCEPT ![t] = v]
      /\ answer' = [answer EXCEPT ![t] = a] /\ rooted' = [rooted EXCEPT ![t] = r]
      /\ k \in Keys \cup {Absent} /\ v \in Stored \cup {Absent}
      /\ a \in Keys \cup Stored \cup {Absent, Pending, Done, Refused} /\ r \in BOOLEAN
  BY DEF Moves
<1>2. /\ pc \in [Threads -> {"idle", "resize", "table", "insert", "get", "get2", "next"}]
      /\ key \in [Threads -> Keys \cup {Absent}]
      /\ val \in [Threads -> Stored \cup {Absent}]
      /\ answer \in [Threads -> Keys \cup Stored \cup {Absent, Pending, Done, Refused}]
      /\ rooted \in [Threads -> BOOLEAN]
  BY DEF IInv, TypeOK
<1>3. /\ pc' \in [Threads -> {"idle", "resize", "table", "insert", "get", "get2", "next"}]
      /\ key' \in [Threads -> Keys \cup {Absent}]
      /\ val' \in [Threads -> Stored \cup {Absent}]
      /\ answer' \in [Threads -> Keys \cup Stored \cup {Absent, Pending, Done, Refused}]
      /\ rooted' \in [Threads -> BOOLEAN]
  <2>1. p \in {"idle", "resize", "table", "insert", "get", "get2", "next"}
    BY <1>1 DEF Writing, Reading
  <2> QED BY <1>1, <1>2, <2>1
<1>4. /\ pc'[t] = p /\ key'[t] = k /\ val'[t] = v /\ answer'[t] = a /\ rooted'[t] = r
      /\ \A u \in Threads : u # t => /\ pc'[u] = pc[u] /\ key'[u] = key[u] /\ val'[u] = val[u]
                                     /\ answer'[u] = answer[u] /\ rooted'[u] = rooted[u]
  BY <1>1, <1>2
<1>5. usage' \in 0 .. MaxUsage
  BY LockFacts DEF Moves, IInv, TypeOK
<1>6. /\ writer' \in Threads \cup {NULL} /\ readers' \subseteq Threads
      /\ writer' # NULL => readers' = {}
  <2>1. writer' \in Threads \cup {NULL} /\ readers' \subseteq Threads
    BY DEF Moves, IInv, TypeOK
  <2>2. CASE p \in Writing
    <3>1. readers = {}
      BY <2>2, LockFacts DEF Moves
    <3>2. p \notin Reading
      BY <2>2 DEF Writing, Reading
    <3>3. readers' = readers \ {t}
      BY <3>2 DEF Moves
    <3> QED BY <2>1, <3>1, <3>3
  <2>3. CASE p \in Reading
    <3>1. p \notin Writing
      BY <2>3 DEF Writing, Reading
    <3>2. writer' = NULL
      BY <2>3, <3>1 DEF Moves
    <3> QED BY <2>1, <3>2
  <2>4. CASE p \notin Writing /\ p \notin Reading
    BY <2>1, <2>4 DEF Moves, IInv, TypeOK
  <2> QED BY <2>1, <2>2, <2>3, <2>4
<1>7. TypeOK'
  <2>1. \A i \in DOMAIN buckets' : buckets'[i] \in Seq(Pair)
    BY DEF BucketInv, Good
  <2>2. freed' \subseteq Stored /\ fault' \in {"none", "null_pair"}
    BY DEF Moves, IInv, TypeOK
  <2> QED BY <1>3, <1>5, <1>6, <2>1, <2>2 DEF TypeOK
<1>8. LockInv'
  <2>1. ASSUME NEW u \in Threads PROVE pc'[u] \in Writing <=> writer' = u
    <3>1. CASE u = t
      BY <1>4, <3>1 DEF Moves
    <3>2. CASE u # t
      <4>1. pc'[u] \in Writing <=> writer = u
        BY <1>4, <3>2 DEF IInv, LockInv
      <4>2. p \in Writing => writer # u
        <5>1. p \in Writing => writer = t \/ writer = NULL
          BY DEF Moves, IInv, LockInv
        <5> QED BY <3>2, <5>1
      <4> QED BY <3>2, <4>1, <4>2 DEF Moves
    <3> QED BY <3>1, <3>2
  <2>2. ASSUME NEW u \in Threads PROVE pc'[u] \in Reading <=> u \in readers'
    <3>1. CASE u = t
      BY <1>4, <3>1 DEF Moves
    <3>2. CASE u # t
      BY <1>4, <3>2 DEF Moves, IInv, LockInv
    <3> QED BY <3>1, <3>2
  <2>3. ASSUME NEW u \in Threads, pc'[u] # "idle" PROVE capacity' > 0
    <3>1. capacity > 0
      BY <1>4, <2>3 DEF Moves, IInv, LockInv
    <3> QED BY <3>1
  <2>4. writer' # NULL => usage' < MaxUsage
    <3> SUFFICES ASSUME writer' # NULL PROVE usage' < MaxUsage
      OBVIOUS
    <3>1. CASE p \in Writing
      <4>1. CASE pc[t] \in Writing
        <5>1. usage' = usage /\ writer # NULL
          BY <3>1, <4>1 DEF Moves, IInv, LockInv
        <5> QED BY <5>1 DEF IInv, LockInv
      <4>2. CASE pc[t] \notin Writing
        BY <3>1, <4>2 DEF Moves
      <4> QED BY <4>1, <4>2
    <3>2. CASE p \notin Writing
      <4>1. writer # t /\ writer # NULL
        BY <3>2 DEF Moves
      <4>2. usage' = usage
        BY <4>1 DEF Moves, IInv, LockInv
      <4> QED BY <4>1, <4>2 DEF IInv, LockInv
    <3> QED BY <3>1, <3>2
  <2> QED BY <2>1, <2>2, <2>3, <2>4 DEF LockInv
<1>9. CallInv'
  <2> SUFFICES ASSUME NEW u \in Threads
               PROVE  /\ pc'[u] \in Writing \cup {"get", "get2"} => key'[u] \in Keys
                      /\ pc'[u] \in Writing => val'[u] \in Stored \ freed' /\ ~clean'[u]
                      /\ pc'[u] = "get2" => TypeOf(key'[u]) = "string"
                      /\ pc'[u] = "idle" => key'[u] = Absent /\ val'[u] = Absent
    BY DEF CallInv
  <2>1. CASE u = t
    BY <1>4, <2>1 DEF Moves
  <2>2. CASE u # t
    BY <1>4, <2>2 DEF Moves, IInv, CallInv
  <2> QED BY <2>1, <2>2
<1>10. AnswerInv'
  BY <1>4 DEF Moves, IInv, AnswerInv
<1>11. LostOnlyToCollision'
  BY DEF Moves, LostOnlyToCollision
<1> QED BY <1>7, <1>8, <1>9, <1>10, <1>11 DEF IInv

(* A step that leaves the table alone.                                     *)
LEMMA TableKept ==
  ASSUME IInv, UNCHANGED <<capacity, buckets, freed>>, usage' \in Nat, usage' >= usage,
         Rewriting' <=> Rewriting
  PROVE  /\ capacity' \in Nat /\ (capacity > 0 => capacity' > 0)
         /\ DOMAIN buckets' \subseteq 0 .. (capacity' - 1)
         /\ BucketInv' /\ CountInv' /\ LifeInv'
<1>1. capacity' \in Nat /\ (capacity > 0 => capacity' > 0)
      /\ DOMAIN buckets' \subseteq 0 .. (capacity' - 1)
  BY DEF IInv, TypeOK
<1>2. BucketInv'
  BY DEF IInv, BucketInv
<1>3. CountInv'
  <2>1. /\ IsFiniteSet(KeysOf(buckets)) /\ Cardinality(KeysOf(buckets)) <= usage
        /\ Cardinality(KeysOf(buckets)) \in Nat /\ usage \in Nat
    BY FS_CardinalityType, LockFacts DEF IInv, CountInv
  <2> QED BY <2>1 DEF CountInv
<1>4. LifeInv'
  BY DEF IInv, LifeInv
<1> QED BY <1>1, <1>2, <1>3, <1>4

(* A thread that is neither writing the table nor about to leaves it as    *)
(* the others see it; s and c are what its iteration has come to.          *)
LEMMA LocalStep ==
  ASSUME IInv, NEW t \in Threads, NEW p, NEW k, NEW v, NEW a, NEW r, NEW s, NEW c,
         Moves(t, p, k, v, a, r), UNCHANGED <<capacity, buckets>>,
         pc[t] # "table", p # "table",
         seen' = [seen EXCEPT ![t] = s], clean' = [clean EXCEPT ![t] = c],
         s \in SUBSET Keys, c \in BOOLEAN, p \in Writing => ~c,
         p = "next" /\ k = Absent => s = {},
         ~Rewriting /\ c /\ p = "next" /\ k \in Keys =>
           k \in KeysOf(buckets) /\ s = UpTo(buckets, k, capacity),
         ~Rewriting /\ c /\ p = "idle" /\ a \in Keys =>
           a \in KeysOf(buckets) /\ s = UpTo(buckets, a, capacity)
  PROVE  IInv'
<1>1. /\ pc' = [pc EXCEPT ![t] = p] /\ key' = [key EXCEPT ![t] = k]
      /\ answer' = [answer EXCEPT ![t] = a] /\ UNCHANGED freed
      /\ usage' = usage \/ usage' = usage + 1
  BY DEF Moves
<1>2. /\ DOMAIN pc = Threads /\ DOMAIN key = Threads /\ DOMAIN answer = Threads
      /\ seen \in [Threads -> SUBSET Keys] /\ clean \in [Threads -> BOOLEAN]
  BY DEF IInv, TypeOK
<1>3. /\ pc'[t] = p /\ key'[t] = k /\ answer'[t] = a /\ seen'[t] = s /\ clean'[t] = c
      /\ \A u \in Threads : u # t => /\ pc'[u] = pc[u] /\ key'[u] = key[u] /\ answer'[u] = answer[u]
                                     /\ seen'[u] = seen[u] /\ clean'[u] = clean[u]
  BY <1>1, <1>2
<1>4. Rewriting' <=> Rewriting
  BY <1>3 DEF Rewriting
<1>5. usage' \in Nat /\ usage' >= usage
  BY <1>1, LockFacts
<1>6. /\ capacity' \in Nat /\ (capacity > 0 => capacity' > 0)
      /\ DOMAIN buckets' \subseteq 0 .. (capacity' - 1)
      /\ BucketInv' /\ CountInv' /\ LifeInv'
  BY <1>1, <1>4, <1>5, TableKept
<1>7. seen' \in [Threads -> SUBSET Keys] /\ clean' \in [Threads -> BOOLEAN]
  BY <1>2
<1>8. SeenInv'
  <2> SUFFICES ASSUME NEW u \in Threads
               PROVE  /\ pc'[u] = "next" /\ key'[u] = Absent => seen'[u] = {}
                      /\ ~Rewriting /\ clean'[u] /\ pc'[u] = "next" /\ key'[u] \in Keys =>
                           /\ key'[u] \in KeysOf(buckets)
                           /\ seen'[u] = UpTo(buckets, key'[u], capacity)
                      /\ ~Rewriting /\ clean'[u] /\ pc'[u] = "idle" /\ answer'[u] \in Keys =>
                           /\ answer'[u] \in KeysOf(buckets)
                           /\ seen'[u] = UpTo(buckets, answer'[u], capacity)
    BY <1>4 DEF SeenInv
  <2>1. CASE u = t
    BY <1>3, <2>1
  <2>2. CASE u # t
    BY <1>3, <2>2 DEF IInv, SeenInv
  <2> QED BY <2>1, <2>2
<1>9. \A u \in Threads : pc'[u] \in Writing => ~clean'[u]
  BY <1>3 DEF IInv, CallInv
<1> QED BY <1>6, <1>7, <1>8, <1>9, MoveStep

-----------------------------------------------------------------------------
(* The process is lost: only that has changed.                             *)
LEMMA LostStep ==
  ASSUME IInv, Lose("null_pair"),
         \E c \in {capacity, 2 * capacity} :
           Collides((AllKeys \cup {key[t] : t \in Threads}) \ {Absent}, c)
  PROVE  IInv'
<1>1. /\ fault' = "null_pair"
      /\ UNCHANGED <<capacity, usage, buckets, writer, readers, pc, key, val, answer,
                     rooted, freed, seen, clean>>
  BY DEF Lose, tableVars, threadVars, iterVars
<1>2. TypeOK'
  BY <1>1 DEF IInv, TypeOK
<1>3. LockInv' /\ CallInv' /\ CountInv' /\ LifeInv' /\ AnswerInv'
  BY <1>1 DEF IInv, LockInv, CallInv, CountInv, LifeInv, AnswerInv
<1>4. Rewriting' <=> Rewriting
  BY <1>1 DEF Rewriting
<1>5. BucketInv' /\ SeenInv'
  BY <1>1, <1>4 DEF IInv, BucketInv, SeenInv
<1>6. AllKeys' = AllKeys /\ \A c : Collides((AllKeys \cup {key[t] : t \in Threads}) \ {Absent}, c)
                                 => Collides((AllKeys \cup {key[t] : t \in Threads}) \ {Absent}, c)'
  BY <1>1 DEF AllKeys, AllPairs, Collides
<1>7. LostOnlyToCollision'
  BY <1>1, <1>6 DEF LostOnlyToCollision
<1> QED BY <1>2, <1>3, <1>5, <1>7 DEF IInv

(* What the pairs and keys of the table are.                               *)
LEMMA TableFacts ==
  ASSUME IInv
  PROVE  /\ AllPairs = PairsOf(buckets) /\ AllKeys = KeysOf(buckets) /\ Good(buckets)
         /\ AllPairs = {buckets[i][1] : i \in DOMAIN buckets}
         /\ AllKeys = {buckets[i][1].key : i \in DOMAIN buckets}
         /\ \A i \in DOMAIN buckets : buckets[i][1] \in Pair
         /\ AllKeys \subseteq Keys /\ Absent \notin AllKeys
<1>1. AllPairs = PairsOf(buckets) /\ AllKeys = KeysOf(buckets)
  BY DEF AllPairs, PairsOf, AllKeys, KeysOf
<1>2. Good(buckets)
  BY DEF IInv, BucketInv
<1>3. /\ PairsOf(buckets) = {buckets[i][1] : i \in DOMAIN buckets}
      /\ KeysOf(buckets) = {buckets[i][1].key : i \in DOMAIN buckets}
      /\ \A i \in DOMAIN buckets : buckets[i][1] \in Pair
  BY <1>2, GoodFacts
<1>4. AllKeys \subseteq Keys
  BY <1>1, <1>3 DEF Pair
<1> QED BY <1>1, <1>2, <1>3, <1>4, TableAssumption

(* None of the answers that are no value is an object.                     *)
LEMMA Markers ==
  /\ ~HasObject(Absent) /\ ~HasObject(Pending) /\ ~HasObject(Done) /\ ~HasObject(Refused)
  /\ ~HasObject(Nil)
  BY DEF HasObject, TypeOf, Absent, Pending, Done, Refused, Bool, Nil, ObjectTypes, UserdataTypes

(* An array is made: there is nothing in it.                               *)
LEMMA NewTableStep ==
  ASSUME IInv, NEW n \in Capacities, NewTable(n)
  PROVE  IInv'
<1>1. /\ fault = "none" /\ capacity = 0 /\ capacity' = n
      /\ UNCHANGED <<usage, buckets, writer, readers, pc, key, val, answer, rooted, freed,
                     seen, clean, fault>>
  BY DEF NewTable, threadVars, iterVars
<1>2. n \in Nat /\ n > 0
  BY TableAssumption DEF NewTable, PowerOfTwo
<1>3. DOMAIN buckets = {}
  <2>1. DOMAIN buckets \subseteq 0 .. (0 - 1)
    BY <1>1 DEF IInv, TypeOK
  <2>2. 0 .. (0 - 1) = {}
    OBVIOUS
  <2> QED BY <2>1, <2>2
<1>4. \A t \in Threads : pc[t] = "idle"
  BY <1>1, LockFacts DEF IInv, LockInv
<1>5. ~Rewriting /\ ~Rewriting'
  BY <1>1, <1>4 DEF Rewriting
<1>6. TypeOK'
  BY <1>1, <1>2, <1>3 DEF IInv, TypeOK
<1>7. LockInv' /\ CallInv' /\ CountInv' /\ LifeInv' /\ AnswerInv'
  BY <1>1, <1>4 DEF IInv, LockInv, CallInv, CountInv, LifeInv, AnswerInv
<1>8. BucketInv'
  BY <1>1, <1>3, <1>5 DEF IInv, BucketInv, Placed
<1>9. KeysOf(buckets) = {}
  BY <1>3 DEF KeysOf, PairsOf
<1>10. SeenInv'
  BY <1>1, <1>4, <1>5, <1>9 DEF IInv, SeenInv
<1>11. LostOnlyToCollision'
  BY <1>1 DEF LostOnlyToCollision
<1> QED BY <1>6, <1>7, <1>8, <1>10, <1>11 DEF IInv

(* hashtable_set takes the lock ...                                        *)
LEMMA SetBeginStep ==
  ASSUME IInv, NEW t \in Threads, NEW k \in Keys, NEW v \in Stored, SetBegin(t, k, v)
  PROVE  IInv'
<1>1. PICK p \in {"resize", "insert"} : pc' = [pc EXCEPT ![t] = p]
  BY DEF SetBegin, Begin, Goto
<1>2. /\ fault = "none" /\ pc[t] = "idle" /\ capacity > 0 /\ usage < MaxUsage
      /\ writer = NULL /\ readers = {} /\ v \notin freed /\ writer' = t
      /\ key' = [key EXCEPT ![t] = k] /\ val' = [val EXCEPT ![t] = v]
      /\ answer' = [answer EXCEPT ![t] = Pending] /\ rooted' = [rooted EXCEPT ![t] = FALSE]
      /\ seen' = [seen EXCEPT ![t] = {}] /\ clean' = [clean EXCEPT ![t] = FALSE]
      /\ UNCHANGED <<capacity, usage, buckets, readers, freed, fault>>
  BY DEF SetBegin, At, Begin, Answer, Forgotten, tableVars
<1>3. p \in Writing /\ p \notin Reading /\ p \notin {"table", "idle", "next"}
  BY DEF Writing, Reading
<1>4. Pending \notin freed
  BY Markers DEF IInv, LifeInv
<1>5. Pending \in Stored => ~HasObject(Pending)
  BY Markers
<1>6. Moves(t, p, k, v, Pending, FALSE)
  BY <1>1, <1>2, <1>3, <1>4, <1>5 DEF Moves
<1>7. {} \in SUBSET Keys /\ FALSE \in BOOLEAN /\ pc[t] # "table" /\ p # "table" /\ p # "next"
  BY <1>2
<1>8. UNCHANGED <<capacity, buckets>>
  BY <1>2
<1> QED BY <1>2, <1>6, <1>7, <1>8, LocalStep

(* ... and doubles the capacity, when the keys allow it ...                *)
LEMMA ResizeStep ==
  ASSUME IInv, NEW t \in Threads, Resize(t)
  PROVE  IInv'
<1> DEFINE keys == {p.key : p \in AllPairs}
<1>1. pc[t] = "resize" /\ fault = "none" /\ capacity \in Nat /\ capacity > 0
  BY LockFacts DEF Resize, At, IInv, LockInv
<1>2. keys = AllKeys
  BY DEF AllKeys
<1>3. CASE Collides(keys, 2 * capacity)
  <2>1. keys \subseteq (AllKeys \cup {key[u] : u \in Threads}) \ {Absent}
    BY <1>2, TableFacts
  <2>2. Collides((AllKeys \cup {key[u] : u \in Threads}) \ {Absent}, 2 * capacity)
    BY <1>3, <2>1 DEF Collides
  <2>3. Lose("null_pair")
    BY <1>3 DEF Resize
  <2> QED BY <2>2, <2>3, LostStep
<1>4. CASE ~Collides(keys, 2 * capacity)
  <2>1. /\ capacity' = 2 * capacity /\ pc' = [pc EXCEPT ![t] = "table"]
        /\ UNCHANGED <<usage, buckets, writer, readers, key, val, answer, rooted, freed,
                       seen, clean, fault>>
    BY <1>4 DEF Resize, Goto, iterVars
  <2>2. /\ pc \in [Threads -> {"idle", "resize", "table", "insert", "get", "get2", "next"}]
        /\ pc'[t] = "table" /\ \A u \in Threads : u # t => pc'[u] = pc[u]
    BY <2>1 DEF IInv, TypeOK
  <2>3. capacity' \in Nat /\ capacity' > 0 /\ capacity' >= capacity
    BY <1>1, <2>1
  <2>4. TypeOK'
    <3>1. DOMAIN buckets' \subseteq 0 .. (capacity' - 1)
      BY <1>1, <2>1, <2>3 DEF IInv, TypeOK
    <3>2. pc' \in [Threads -> {"idle", "resize", "table", "insert", "get", "get2", "next"}]
      BY <2>1, <2>2
    <3> QED BY <2>1, <2>3, <3>1, <3>2 DEF IInv, TypeOK
  <2>5. Rewriting'
    BY <2>2 DEF Rewriting
  <2>6. BucketInv'
    <3>1. Apart(buckets, 2 * capacity)
      <4> SUFFICES ASSUME NEW i \in DOMAIN buckets, NEW j \in DOMAIN buckets,
                          Index(buckets[i][1].key, 2 * capacity) = Index(buckets[j][1].key, 2 * capacity)
                   PROVE  i = j
        BY DEF Apart
      <4>1. buckets[i][1].key \in keys /\ buckets[j][1].key \in keys
        BY <1>2, TableFacts
      <4>2. buckets[i][1].key = buckets[j][1].key
        BY <1>4, <4>1 DEF Collides
      <4> QED BY <4>2, TableFacts DEF Good
    <3> QED BY <2>1, <2>5, <3>1, TableFacts DEF BucketInv
  <2>7. \A u \in Threads : /\ pc'[u] \in Writing <=> pc[u] \in Writing
                           /\ pc'[u] \in Reading <=> pc[u] \in Reading
    BY <1>1, <2>2 DEF Writing, Reading
  <2>8. LockInv'
    BY <2>1, <2>3, <2>7 DEF IInv, LockInv
  <2>9. CallInv'
    <3>1. \A u \in Threads : pc'[u] \in {"get", "get2"} <=> pc[u] \in {"get", "get2"}
      BY <1>1, <2>2
    <3> QED BY <2>1, <2>7, <3>1 DEF IInv, CallInv
  <2>10. CountInv' /\ LifeInv' /\ AnswerInv' /\ LostOnlyToCollision'
    BY <1>1, <2>1 DEF IInv, CountInv, LifeInv, AnswerInv, LostOnlyToCollision
  <2>11. SeenInv'
    <3>1. \A u \in Threads : pc'[u] = "next" <=> pc[u] = "next"
      BY <1>1, <2>2
    <3> QED BY <2>1, <2>5, <3>1 DEF IInv, SeenInv
  <2> QED BY <2>4, <2>6, <2>8, <2>9, <2>10, <2>11 DEF IInv
<1> QED BY <1>3, <1>4

(* ... or gives up, without memory; so may the insertion of a new key ...  *)
LEMMA GiveUpStep ==
  ASSUME IInv, NEW t \in Threads, ResizeRefused(t) \/ InsertLost(t)
  PROVE  IInv'
<1>1. /\ fault = "none" /\ pc[t] \in {"resize", "insert"} /\ writer' = NULL
      /\ pc' = [pc EXCEPT ![t] = "idle"]
      /\ key' = [key EXCEPT ![t] = Absent] /\ val' = [val EXCEPT ![t] = Absent]
      /\ rooted' = [rooted EXCEPT ![t] = FALSE]
      /\ usage' = usage \/ usage' = usage + 1
      /\ UNCHANGED <<capacity, buckets, readers, freed, seen, clean, fault>>
  BY DEF ResizeRefused, InsertLost, At, Return, Goto, Answer, tableVars, iterVars
<1>2. PICK a \in {Refused, Done} : answer' = [answer EXCEPT ![t] = a]
  BY DEF ResizeRefused, InsertLost, Return, Answer
<1>3. /\ pc[t] \in Writing /\ pc[t] # "table" /\ "idle" \notin Writing /\ "idle" \notin Reading
      /\ writer = t /\ ~clean[t] /\ readers \ {t} = readers
  <2>1. pc[t] \in Writing /\ pc[t] # "table" /\ "idle" \notin Writing /\ "idle" \notin Reading
    BY <1>1 DEF Writing, Reading
  <2> QED BY <2>1, LockFacts DEF IInv, LockInv, CallInv
<1>4. a \notin freed /\ ~HasObject(a)
  BY Markers DEF IInv, LifeInv
<1>5. Moves(t, "idle", Absent, Absent, a, FALSE)
  BY <1>1, <1>2, <1>3, <1>4 DEF Moves
<1>6. /\ seen' = [seen EXCEPT ![t] = seen[t]] /\ clean' = [clean EXCEPT ![t] = FALSE]
      /\ seen[t] \in SUBSET Keys
  BY <1>1, <1>3 DEF IInv, TypeOK
<1>7. UNCHANGED <<capacity, buckets>>
  BY <1>1
<1> QED BY <1>3, <1>5, <1>6, <1>7, LocalStep

(* The last of a set or removal: iterations over the table as it was end.  *)
LEMMA WrittenStep ==
  ASSUME IInv, NEW t \in Threads, NEW p, NEW k, NEW v, NEW a, NEW r,
         Moves(t, p, k, v, a, r), Written, capacity' = capacity,
         DOMAIN buckets' \subseteq 0 .. (capacity - 1),
         BucketInv', CountInv', LifeInv'
  PROVE  IInv'
<1>1. /\ seen' = [u \in Threads |-> {}] /\ clean' = [u \in Threads |-> FALSE]
      /\ seen' \in [Threads -> SUBSET Keys] /\ clean' \in [Threads -> BOOLEAN]
  BY DEF Written
<1>2. \A u \in Threads : seen'[u] = {} /\ ~clean'[u]
  BY <1>1
<1>3. SeenInv'
  BY <1>2 DEF SeenInv
<1>4. capacity' \in Nat /\ (capacity > 0 => capacity' > 0)
  BY DEF IInv, TypeOK
<1> QED BY <1>1, <1>2, <1>3, <1>4, MoveStep

(* ... the array follows the capacity ...                                  *)
LEMMA WriteTableStep ==
  ASSUME IInv, NEW t \in Threads, WriteTable(t)
  PROVE  IInv' /\ KeysOf(buckets') = KeysOf(buckets) /\ DictOf(buckets') = DictOf(buckets)
<1>1. /\ fault = "none" /\ pc[t] = "table" /\ buckets' = Rehashed(capacity)
      /\ pc' = [pc EXCEPT ![t] = "insert"] /\ Written
      /\ UNCHANGED <<capacity, usage, writer, readers, key, val, answer, rooted, freed, fault>>
  BY DEF WriteTable, At, Goto
<1>2. /\ pc[t] \in Writing /\ writer = t /\ readers = {} /\ Rewriting
      /\ capacity \in Nat /\ capacity > 0
      /\ "insert" \in Writing /\ "insert" \notin Reading
  <2>1. pc[t] \in Writing /\ Rewriting /\ "insert" \in Writing /\ "insert" \notin Reading
    BY <1>1 DEF Writing, Reading, Rewriting
  <2> QED BY <1>1, <2>1, LockFacts DEF IInv, LockInv
<1>3. buckets' = Moved(buckets, capacity)
  BY <1>1 DEF Rehashed, Moved, AllPairs, PairsOf
<1>4. /\ Good(buckets') /\ Placed(buckets', capacity)
      /\ \A j \in DOMAIN buckets' : \E h \in DOMAIN buckets :
           buckets'[j][1] = PairOf(buckets[h][1].key, buckets[h][1].val, Nil)
      /\ DOMAIN buckets' \subseteq 0 .. (capacity - 1)
      /\ KeysOf(buckets') = KeysOf(buckets) /\ DictOf(buckets') = DictOf(buckets)
  BY <1>2, <1>3, MoveFacts, TableFacts DEF IInv, BucketInv
<1>5. ~Rewriting'
  <2>1. \A u \in Threads : pc[u] = "table" => u = t
    <3>1. \A u \in Threads : pc[u] = "table" => pc[u] \in Writing
      BY DEF Writing
    <3> QED BY <1>2, <3>1, LockFacts
  <2> QED BY <1>1, <2>1 DEF Rewriting, IInv, TypeOK
<1>6. BucketInv' /\ CountInv'
  BY <1>1, <1>4, <1>5 DEF BucketInv, CountInv, IInv
<1>7. LifeInv'
  <2> SUFFICES ASSUME NEW j \in DOMAIN buckets'
               PROVE  /\ HasObject(buckets'[j][1].val) => buckets'[j][1].gcVal = buckets'[j][1].val
                      /\ buckets'[j][1].val \notin freed
    BY <1>1 DEF LifeInv, IInv
  <2>1. PICK h \in DOMAIN buckets :
          buckets'[j][1] = PairOf(buckets[h][1].key, buckets[h][1].val, Nil)
    BY <1>4
  <2>2. buckets[h][1].val \notin freed
    BY DEF IInv, LifeInv
  <2> QED BY <2>1, <2>2 DEF PairOf, Field
<1>8. Moves(t, "insert", key[t], val[t], answer[t], rooted[t])
  <2>1. /\ key[t] \in Keys /\ val[t] \in Stored \ freed
        /\ key[t] \in Keys \cup {Absent} /\ val[t] \in Stored \cup {Absent}
        /\ answer[t] \in Keys \cup Stored \cup {Absent, Pending, Done, Refused}
        /\ rooted[t] \in BOOLEAN
    BY <1>2 DEF IInv, CallInv, TypeOK
  <2>2. /\ key' = [key EXCEPT ![t] = key[t]] /\ val' = [val EXCEPT ![t] = val[t]]
        /\ answer' = [answer EXCEPT ![t] = answer[t]] /\ rooted' = [rooted EXCEPT ![t] = rooted[t]]
    BY <1>1 DEF IInv, TypeOK
  <2>3. (answer[t] \in Stored /\ HasObject(answer[t]) => rooted[t]) /\ answer[t] \notin freed
    BY DEF IInv, AnswerInv
  <2>4. "insert" \in {"idle"} \cup Writing \cup Reading /\ readers' = readers \ {t}
    BY <1>1, <1>2
  <2> QED BY <1>1, <1>2, <2>1, <2>2, <2>3, <2>4 DEF Moves
<1> QED BY <1>1, <1>4, <1>6, <1>7, <1>8, WrittenStep

(* What a call finds in the table under the lock.                          *)
LEMMA FoundFacts ==
  ASSUME IInv, ~Rewriting, capacity > 0, NEW k \in Keys, NEW i, i = Index(k, capacity)
  PROVE  /\ i \in 0 .. (capacity - 1) /\ capacity \in Nat /\ Good(buckets)
         /\ k \in AllKeys <=> i \in DOMAIN buckets /\ buckets[i][1].key = k
         /\ k \in AllKeys => /\ Position(k, Chain(buckets, i)) = 1 /\ Chain(buckets, i) = buckets[i]
                             /\ DictOf(buckets)[k] = buckets[i][1].val
         /\ k \notin AllKeys => Position(k, Chain(buckets, i)) = 0
         /\ Chain(buckets, i) # <<>> <=> i \in DOMAIN buckets
<1>1. Good(buckets) /\ Placed(buckets, capacity) /\ capacity \in Nat
  BY LockFacts DEF IInv, BucketInv
<1>2. i \in 0 .. (capacity - 1)
  BY <1>1, IndexFacts
<1> QED BY <1>1, <1>2, PositionFacts, TableFacts

(* The pair that is written: the collector sees the value's object.        *)
LEMMA PairOfFacts ==
  ASSUME NEW k \in Keys, NEW v \in Stored, NEW old \in Stored \cup {Nil}
  PROVE  /\ PairOf(k, v, old) \in Pair
         /\ PairOf(k, v, old).key = k /\ PairOf(k, v, old).val = v
         /\ HasObject(v) => PairOf(k, v, old).gcVal = v
<1>1. Field(v, old) \in Stored \cup {Nil} /\ (HasObject(v) => Field(v, old) = v)
  BY DEF Field
<1> QED BY <1>1 DEF PairOf, Pair

(* A chain of one whose pair is overwritten.                               *)
LEMMA OneFacts ==
  ASSUME NEW S, NEW s \in Seq(S), Len(s) = 1, NEW q \in S
  PROVE  [s EXCEPT ![1] = q] = <<q>>
<1>1. [s EXCEPT ![1] = q] \in Seq(S) /\ Len([s EXCEPT ![1] = q]) = Len(s)
  BY ExceptSeq
<1>2. [s EXCEPT ![1] = q][1] = q
  OBVIOUS
<1>3. <<q>> \in Seq(S) /\ Len(<<q>>) = 1 /\ <<q>>[1] = q
  OBVIOUS
<1>4. PICK u : u = [s EXCEPT ![1] = q]
  OBVIOUS
<1>5. u \in Seq(S) /\ Len(u) = 1 /\ \A i \in 1 .. 1 : u[i] = <<q>>[i]
  BY <1>1, <1>2, <1>3, <1>4
<1>6. u = <<q>>
  BY <1>3, <1>5, SeqEqual
<1> QED BY <1>4, <1>6

(* ... and the pair is written.                                            *)
LEMMA InsertStep ==
  ASSUME IInv, NEW t \in Threads, Insert(t)
  PROVE  /\ IInv'
         /\ \/ Lose("null_pair") /\ AllKeys # {}
            \/ /\ fault' = fault /\ writer' = NULL /\ Return(t, Done, FALSE)
               /\ KeysOf(buckets') = KeysOf(buckets) \cup {key[t]}
               /\ DictOf(buckets') = Updated(DictOf(buckets), key[t], val[t])
<1> DEFINE k == key[t]
           i == Index(k, capacity)
           j == Position(k, Chain(buckets, i))
<1>1. fault = "none" /\ pc[t] = "insert"
  BY DEF Insert, At
<1>2. /\ pc[t] \in Writing /\ writer = t /\ readers = {} /\ ~Rewriting /\ capacity > 0
      /\ k \in Keys /\ val[t] \in Stored \ freed
  <2>1. pc[t] \in Writing
    BY <1>1 DEF Writing
  <2>2. ~Rewriting
    <3>1. \A u \in Threads : pc[u] = "table" => pc[u] \in Writing
      BY DEF Writing
    <3> QED BY <1>1, <2>1, <3>1, LockFacts DEF Rewriting
  <2> QED BY <1>1, <2>1, <2>2, LockFacts DEF IInv, LockInv, CallInv
<1>3. /\ i \in 0 .. (capacity - 1) /\ capacity \in Nat /\ Good(buckets)
      /\ k \in AllKeys <=> i \in DOMAIN buckets /\ buckets[i][1].key = k
      /\ k \in AllKeys => j = 1 /\ Chain(buckets, i) = buckets[i]
      /\ k \notin AllKeys => j = 0
      /\ Chain(buckets, i) # <<>> <=> i \in DOMAIN buckets
  BY <1>2, FoundFacts
<1>4. CASE j = 0 /\ Chain(buckets, i) # <<>>
  <2>1. Lose("null_pair")
    BY <1>4 DEF Insert
  <2>2. PICK l \in AllKeys : l = buckets[i][1].key
    BY <1>3, <1>4, TableFacts
  <2>3. k # l /\ Index(l, capacity) = i
    BY <1>2, <1>3, <1>4, <2>2 DEF IInv, BucketInv, Placed
  <2>4. {k, l} \subseteq (AllKeys \cup {key[u] : u \in Threads}) \ {Absent}
    BY <1>2, TableFacts, TableAssumption
  <2>5. Collides((AllKeys \cup {key[u] : u \in Threads}) \ {Absent}, capacity)
    BY <2>3, <2>4 DEF Collides
  <2> QED BY <2>1, <2>2, <2>5, LostStep
<1>5. CASE ~(j = 0 /\ Chain(buckets, i) # <<>>)
  <2>1. /\ buckets' = [x \in DOMAIN buckets \cup {i} |->
                         IF x # i THEN buckets[x]
                         ELSE IF j = 0 THEN <<PairOf(k, val[t], Nil)>>
                         ELSE [buckets[i] EXCEPT ![j] = PairOf(k, val[t], Chain(buckets, i)[j].gcVal)]]
        /\ usage' = usage + 1 /\ writer' = NULL /\ Return(t, Done, FALSE) /\ Written
        /\ UNCHANGED <<capacity, readers, freed, fault>>
    BY <1>5 DEF Insert
  <2>2. PICK q \in Pair :
          /\ DOMAIN buckets' = DOMAIN buckets \cup {i} /\ buckets'[i] = <<q>>
          /\ \A h \in DOMAIN buckets : h # i => buckets'[h] = buckets[h]
          /\ q.key = k /\ q.val = val[t] /\ (HasObject(val[t]) => q.gcVal = val[t])
    <3>1. PICK c : c = IF j = 0 THEN <<PairOf(k, val[t], Nil)>>
                       ELSE [buckets[i] EXCEPT ![j] = PairOf(k, val[t], Chain(buckets, i)[j].gcVal)]
      OBVIOUS
    <3>2. \E q \in Pair : /\ c = <<q>> /\ q.key = k /\ q.val = val[t]
                          /\ HasObject(val[t]) => q.gcVal = val[t]
      <4>1. CASE k \in AllKeys
        <5>1. /\ i \in DOMAIN buckets /\ buckets[i][1] \in Pair /\ buckets[i] \in Seq(Pair)
              /\ Len(buckets[i]) = 1
          BY <1>3, <4>1, TableFacts DEF Good
        <5>2. c = [buckets[i] EXCEPT ![1] = PairOf(k, val[t], buckets[i][1].gcVal)]
          BY <1>3, <3>1, <4>1
        <5>3. PICK q \in Pair : /\ q = PairOf(k, val[t], buckets[i][1].gcVal)
                                /\ q.key = k /\ q.val = val[t]
                                /\ HasObject(val[t]) => q.gcVal = val[t]
          <6>1. buckets[i][1].gcVal \in Stored \cup {Nil}
            BY <5>1 DEF Pair
          <6> QED BY <1>2, <6>1, PairOfFacts
        <5>4. [buckets[i] EXCEPT ![1] = q] = <<q>>
          BY <5>1, OneFacts
        <5> QED BY <5>2, <5>3, <5>4
      <4>2. CASE k \notin AllKeys
        <5>1. PICK q \in Pair : /\ q = PairOf(k, val[t], Nil)
                                /\ q.key = k /\ q.val = val[t]
                                /\ HasObject(val[t]) => q.gcVal = val[t]
          <6>1. Nil \in Stored \cup {Nil}
            OBVIOUS
          <6> QED BY <1>2, <6>1, PairOfFacts
        <5> QED BY <1>3, <3>1, <4>2, <5>1
      <4> QED BY <4>1, <4>2
    <3>3. buckets' = [x \in DOMAIN buckets \cup {i} |-> IF x # i THEN buckets[x] ELSE c]
      BY <2>1, <3>1
    <3> HIDE DEF i, j
    <3>4. /\ DOMAIN buckets' = DOMAIN buckets \cup {i} /\ buckets'[i] = c
          /\ \A h \in DOMAIN buckets : h # i => buckets'[h] = buckets[h]
      BY <3>3
    <3> QED BY <3>2, <3>4
  <2>3. \A h \in DOMAIN buckets : h # i => buckets'[h] = buckets[h] /\ buckets[h][1].key # q.key
    <3>1. \A h \in DOMAIN buckets : buckets[h][1].key = k => h = i
      BY <1>2 DEF IInv, BucketInv, Placed
    <3> QED BY <2>2, <3>1
  <2>4. i \in DOMAIN buckets => buckets[i][1].key = q.key
    BY <1>3, <1>5, <2>2
  <2> HIDE DEF i, j
  <2>5. /\ Good(buckets')
        /\ \A h \in DOMAIN buckets' : IF h = i THEN buckets'[h][1] = q
                                      ELSE h \in DOMAIN buckets /\ buckets'[h][1] = buckets[h][1]
        /\ KeysOf(buckets') = KeysOf(buckets) \cup {k}
        /\ DictOf(buckets') = Updated(DictOf(buckets), k, val[t])
    <3>1. PICK bs2 : bs2 = buckets'
      OBVIOUS
    <3>2. PICK x : x = i
      OBVIOUS
    <3>3. PutInto(buckets, x, q, bs2)
      BY <2>2, <2>3, <2>4, <3>1, <3>2 DEF PutInto
    <3>4. Good(buckets) /\ q \in Pair
      BY <1>3
    <3>5. /\ Good(bs2)
          /\ \A h \in DOMAIN bs2 : IF h = x THEN bs2[h][1] = q
                                    ELSE h \in DOMAIN buckets /\ bs2[h][1] = buckets[h][1]
          /\ KeysOf(bs2) = KeysOf(buckets) \cup {q.key}
          /\ DictOf(bs2) = Updated(DictOf(buckets), q.key, q.val)
      BY <3>3, <3>4, PutFacts
    <3> QED BY <2>2, <3>1, <3>2, <3>5
  <2>6. DOMAIN buckets' \subseteq 0 .. (capacity - 1)
    BY <1>3, <2>2 DEF IInv, TypeOK
  <2>7. pc' = [pc EXCEPT ![t] = "idle"]
    BY <2>1 DEF Return, Goto
  <2>8. ~Rewriting'
    BY <1>2, <2>7 DEF Rewriting, IInv, TypeOK
  <2>9. Placed(buckets', capacity)
    <3> SUFFICES ASSUME NEW h \in DOMAIN buckets'
                 PROVE  Index(buckets'[h][1].key, capacity) = h
      BY DEF Placed
    <3>1. CASE h = i
      BY <2>2, <2>5, <3>1 DEF i
    <3>2. CASE h # i
      BY <1>2, <2>5, <3>2 DEF IInv, BucketInv, Placed
    <3> QED BY <3>1, <3>2
  <2>10. BucketInv'
    BY <2>1, <2>5, <2>8, <2>9 DEF BucketInv
  <2>11. CountInv'
    <3>1. /\ IsFiniteSet(KeysOf(buckets)) /\ Cardinality(KeysOf(buckets)) <= usage
          /\ Cardinality(KeysOf(buckets)) \in Nat /\ usage \in Nat
      BY FS_CardinalityType, LockFacts DEF IInv, CountInv
    <3>2. /\ IsFiniteSet(KeysOf(buckets) \cup {k})
          /\ Cardinality(KeysOf(buckets) \cup {k}) =
               IF k \in KeysOf(buckets) THEN Cardinality(KeysOf(buckets))
                                        ELSE Cardinality(KeysOf(buckets)) + 1
      BY <3>1, FS_AddElement
    <3>3. Cardinality(KeysOf(buckets) \cup {k}) <= usage + 1
      BY <3>1, <3>2
    <3> QED BY <2>1, <2>5, <3>2, <3>3 DEF CountInv
  <2>12. LifeInv'
    <3> SUFFICES ASSUME NEW h \in DOMAIN buckets'
                 PROVE  /\ HasObject(buckets'[h][1].val) => buckets'[h][1].gcVal = buckets'[h][1].val
                        /\ buckets'[h][1].val \notin freed
      BY <2>1 DEF LifeInv, IInv
    <3>1. CASE h = i
      BY <1>2, <2>2, <2>5, <3>1
    <3>2. CASE h # i
      BY <2>5, <3>2 DEF IInv, LifeInv
    <3> QED BY <3>1, <3>2
  <2>13. Moves(t, "idle", Absent, Absent, Done, FALSE)
    <3>1. Done \notin freed /\ ~HasObject(Done) /\ "idle" \notin Writing /\ "idle" \notin Reading
      BY Markers DEF IInv, LifeInv, Writing, Reading
    <3>2. readers \ {t} = readers
      BY <1>2
    <3> QED BY <1>1, <1>2, <2>1, <3>1, <3>2 DEF Moves, Return, Goto, Answer
  <2>14. IInv'
    BY <2>1, <2>6, <2>10, <2>11, <2>12, <2>13, WrittenStep
  <2> QED BY <2>1, <2>5, <2>14
<1> QED BY <1>4, <1>5

(* hashtable_remove empties the bucket of the key.                         *)
LEMMA RemoveStep ==
  ASSUME IInv, NEW t \in Threads, NEW k \in Keys, RemoveKey(t, k)
  PROVE  /\ IInv' /\ fault' = fault /\ Answer(t, Done, FALSE)
         /\ UNCHANGED <<pc, key, val>>
         /\ KeysOf(buckets') = KeysOf(buckets) \ {k}
         /\ DictOf(buckets') = Dropped(DictOf(buckets), k)
<1> DEFINE i == Index(k, capacity)
           j == Position(k, Chain(buckets, i))
<1>1. /\ fault = "none" /\ pc[t] = "idle" /\ capacity > 0 /\ writer = NULL /\ readers = {}
  BY DEF RemoveKey, At
<1>2. ~Rewriting /\ \A u \in Threads : pc[u] \notin Writing
  BY <1>1, LockFacts
<1>3. /\ Good(buckets)
      /\ k \in AllKeys <=> i \in DOMAIN buckets /\ buckets[i][1].key = k
      /\ k \in AllKeys => j = 1
      /\ k \notin AllKeys => j = 0
  BY <1>1, <1>2, FoundFacts
<1>4. /\ buckets' = IF j = 0 THEN buckets ELSE Dropped(buckets, i)
      /\ Answer(t, Done, FALSE) /\ Written
      /\ UNCHANGED <<capacity, usage, writer, readers, pc, key, val, freed, fault>>
  <2>1. ~(j > 1)
    BY <1>3
  <2> QED BY <2>1 DEF RemoveKey, Dropped
<1>5. /\ Good(buckets')
      /\ \A h \in DOMAIN buckets' : h \in DOMAIN buckets /\ buckets'[h][1] = buckets[h][1]
      /\ KeysOf(buckets') = KeysOf(buckets) \ {k}
      /\ DictOf(buckets') = Dropped(DictOf(buckets), k)
  <2>1. CASE k \in AllKeys
    <3>1. i \in DOMAIN buckets /\ buckets[i][1].key = k /\ buckets' = Dropped(buckets, i)
      BY <1>3, <1>4, <2>1
    <3>2. PICK x \in DOMAIN buckets : buckets[x][1].key = k /\ buckets' = Dropped(buckets, x)
      BY <3>1
    <3>3. PICK bs2 : bs2 = buckets'
      OBVIOUS
    <3>4. Good(buckets) /\ bs2 = Dropped(buckets, x)
      BY <1>3, <3>2, <3>3
    <3>5. /\ Good(bs2)
          /\ \A h \in DOMAIN bs2 : h \in DOMAIN buckets /\ bs2[h][1] = buckets[h][1]
          /\ KeysOf(bs2) = KeysOf(buckets) \ {buckets[x][1].key}
          /\ DictOf(bs2) = Dropped(DictOf(buckets), buckets[x][1].key)
      BY <3>4, DropFacts
    <3> QED BY <3>2, <3>3, <3>5
  <2>2. CASE k \notin AllKeys
    <3>1. buckets' = buckets /\ k \notin KeysOf(buckets)
      BY <1>3, <1>4, <2>2, TableFacts
    <3>2. DOMAIN DictOf(buckets) = KeysOf(buckets)
      BY DEF DictOf
    <3>3. DictOf(buckets) = [x \in DOMAIN DictOf(buckets) |-> DictOf(buckets)[x]]
      BY DEF DictOf
    <3>4. DOMAIN DictOf(buckets) \ {k} = DOMAIN DictOf(buckets)
      BY <3>1, <3>2
    <3>5. DictOf(buckets) = Dropped(DictOf(buckets), k)
      BY <3>3, <3>4 DEF Dropped
    <3> QED BY <1>3, <3>1, <3>5
  <2> QED BY <2>1, <2>2
<1> HIDE DEF i, j
<1>6. DOMAIN buckets' \subseteq 0 .. (capacity - 1)
  BY <1>5 DEF IInv, TypeOK
<1>7. BucketInv'
  <2>1. ~Rewriting'
    BY <1>2, <1>4 DEF Rewriting
  <2>2. Placed(buckets', capacity)
    BY <1>2, <1>5 DEF IInv, BucketInv, Placed
  <2> QED BY <1>4, <1>5, <2>1, <2>2 DEF BucketInv
<1>8. CountInv'
  <2>1. /\ IsFiniteSet(KeysOf(buckets)) /\ Cardinality(KeysOf(buckets)) <= usage
        /\ Cardinality(KeysOf(buckets)) \in Nat /\ usage \in Nat
    BY FS_CardinalityType, LockFacts DEF IInv, CountInv
  <2>2. /\ IsFiniteSet(KeysOf(buckets) \ {k}) /\ Cardinality(KeysOf(buckets) \ {k}) \in Nat
        /\ Cardinality(KeysOf(buckets) \ {k}) <= Cardinality(KeysOf(buckets))
    BY <2>1, FS_Subset, FS_CardinalityType
  <2>3. Cardinality(KeysOf(buckets) \ {k}) <= usage
    BY <2>1, <2>2
  <2> QED BY <1>4, <1>5, <2>2, <2>3 DEF CountInv
<1>9. LifeInv'
  BY <1>4, <1>5 DEF IInv, LifeInv
<1>10. Moves(t, "idle", key[t], val[t], Done, FALSE)
  <2>1. Done \notin freed /\ ~HasObject(Done) /\ "idle" \notin Writing /\ "idle" \notin Reading
    BY Markers DEF IInv, LifeInv, Writing, Reading
  <2>2. readers \ {t} = readers /\ writer # t /\ "idle" \notin {"get", "get2"}
    BY <1>1, TableAssumption
  <2>3. /\ pc' = [pc EXCEPT ![t] = "idle"] /\ key' = [key EXCEPT ![t] = key[t]]
        /\ val' = [val EXCEPT ![t] = val[t]]
        /\ key[t] = Absent /\ val[t] = Absent
    BY <1>1, <1>4 DEF IInv, TypeOK, CallInv
  <2> QED BY <1>1, <1>4, <2>1, <2>2, <2>3 DEF Moves, Answer
<1>11. IInv'
  BY <1>4, <1>6, <1>7, <1>8, <1>9, <1>10, WrittenStep
<1> QED BY <1>4, <1>5, <1>11

-----------------------------------------------------------------------------
(* hashtable_get, _get2 and _next take the read lock.  An iteration goes on  *)
(* from the key it met last.                                               *)
LEMMA ReadBeginStep ==
  ASSUME IInv, NEW t \in Threads, NEW call \in Reading, NEW k, ReadBegin(t, call, k),
         call = "next" => k \in {Absent} \cup ({answer[t]} \cap Keys),
         call # "next" => k \in Keys,
         call = "get2" => TypeOf(k) = "string"
  PROVE  IInv'
<1>1. /\ fault = "none" /\ pc[t] = "idle" /\ capacity > 0 /\ writer = NULL
      /\ readers' = readers \cup {t}
      /\ pc' = [pc EXCEPT ![t] = call] /\ key' = [key EXCEPT ![t] = k]
      /\ val' = [val EXCEPT ![t] = Absent]
      /\ answer' = [answer EXCEPT ![t] = Pending] /\ rooted' = [rooted EXCEPT ![t] = FALSE]
      /\ UNCHANGED <<capacity, usage, buckets, writer, freed, fault>>
  BY DEF ReadBegin, At, Begin, Goto, Answer, tableVars
<1>2. call \notin Writing /\ call # "table" /\ call # "idle" /\ k \in Keys \cup {Absent}
  BY DEF Writing, Reading
<1>3. Pending \notin freed /\ (Pending \in Stored => ~HasObject(Pending))
  BY Markers DEF IInv, LifeInv
<1>4. Moves(t, call, k, Absent, Pending, FALSE)
  <2>1. writer # t
    BY <1>1, TableAssumption
  <2> QED BY <1>1, <1>2, <1>3, <2>1 DEF Moves
<1>5. UNCHANGED <<capacity, buckets>> /\ pc[t] # "table"
  BY <1>1
<1>6. seen[t] \in SUBSET Keys /\ clean[t] \in BOOLEAN
  BY DEF IInv, TypeOK
<1>7. CASE call = "next" /\ k # Absent
  <2>1. seen' = [seen EXCEPT ![t] = seen[t]] /\ clean' = [clean EXCEPT ![t] = clean[t]]
    BY <1>7 DEF ReadBegin, iterVars, IInv, TypeOK
  <2>2. ~Rewriting /\ clean[t] => k \in KeysOf(buckets) /\ seen[t] = UpTo(buckets, k, capacity)
    BY <1>1, <1>7 DEF IInv, SeenInv
  <2> QED BY <1>2, <1>4, <1>5, <1>6, <1>7, <2>1, <2>2, LocalStep
<1>8. CASE ~(call = "next" /\ k # Absent)
  <2>1. seen' = [seen EXCEPT ![t] = {}] /\ clean' = [clean EXCEPT ![t] = FALSE]
    BY <1>8 DEF ReadBegin, Forgotten
  <2>2. {} \in SUBSET Keys /\ FALSE \in BOOLEAN
    OBVIOUS
  <2> QED BY <1>2, <1>4, <1>5, <2>1, <2>2, LocalStep
<1> QED BY <1>7, <1>8

(* A reader returns: nobody was writing.                                   *)
LEMMA ReadEndMoves ==
  ASSUME IInv, NEW t \in Threads, fault = "none", pc[t] \in Reading, NEW a, NEW r \in BOOLEAN,
         ReadEnd(t, a, r), a \in Keys \cup Stored \cup {Absent},
         a \in Stored /\ HasObject(a) => r, a \notin freed
  PROVE  /\ Moves(t, "idle", Absent, Absent, a, r)
         /\ UNCHANGED <<capacity, buckets>>
         /\ ~Rewriting /\ capacity > 0 /\ pc[t] # "table"
<1>1. /\ readers' = readers \ {t}
      /\ pc' = [pc EXCEPT ![t] = "idle"] /\ key' = [key EXCEPT ![t] = Absent]
      /\ val' = [val EXCEPT ![t] = Absent]
      /\ answer' = [answer EXCEPT ![t] = a] /\ rooted' = [rooted EXCEPT ![t] = r]
      /\ UNCHANGED <<capacity, usage, buckets, writer, freed, fault>>
  BY DEF ReadEnd, Return, Goto, Answer, tableVars
<1>2. writer = NULL /\ writer # t /\ ~Rewriting
  BY LockFacts, TableAssumption
<1>3. "idle" \notin Writing /\ "idle" \notin Reading /\ "table" \notin Reading
  BY DEF Writing, Reading
<1>4. capacity > 0
  BY <1>3 DEF IInv, LockInv
<1> QED BY <1>1, <1>2, <1>3, <1>4 DEF Moves

(* A value of the table is not freed, and is no key.                       *)
LEMMA ValueFacts ==
  ASSUME IInv, NEW i \in DOMAIN buckets
  PROVE  /\ buckets[i][1].val \in Stored /\ buckets[i][1].val \notin freed
         /\ buckets[i][1].val \notin Keys
<1>1. buckets[i][1].val \in Stored
  BY TableFacts DEF Pair
<1> QED BY <1>1, TableAssumption DEF IInv, LifeInv

(* hashtable_get answers what the map has, and roots it.                   *)
LEMMA GetStep ==
  ASSUME IInv, NEW t \in Threads, Get(t)
  PROVE  /\ IInv' /\ key[t] \in Keys /\ fault = "none" /\ UNCHANGED <<buckets, fault>>
         /\ \E r : Return(t, IF key[t] \in KeysOf(buckets) THEN DictOf(buckets)[key[t]]
                                                           ELSE Absent, r)
<1>1. PICK a : a = Look(t, key[t]) /\ ReadEnd(t, a, HasObject(a)) /\ UNCHANGED iterVars
  BY DEF Get
<1>2. fault = "none" /\ pc[t] = "get" /\ pc[t] \in Reading /\ key[t] \in Keys
  BY DEF Get, At, Reading, IInv, CallInv
<1>3. ~Rewriting /\ capacity > 0
  BY <1>2, LockFacts DEF IInv, LockInv
<1>4. /\ a = IF key[t] \in KeysOf(buckets) THEN DictOf(buckets)[key[t]] ELSE Absent
      /\ a \in Stored \cup {Absent} /\ a \notin freed /\ a \notin Keys
  <2>1. PICK i : i = Index(key[t], capacity)
    OBVIOUS
  <2>2. /\ key[t] \in KeysOf(buckets) <=> i \in DOMAIN buckets /\ buckets[i][1].key = key[t]
        /\ key[t] \in KeysOf(buckets) =>
             /\ Position(key[t], Chain(buckets, i)) = 1 /\ Chain(buckets, i) = buckets[i]
             /\ DictOf(buckets)[key[t]] = buckets[i][1].val
        /\ key[t] \notin KeysOf(buckets) => Position(key[t], Chain(buckets, i)) = 0
    BY <1>2, <1>3, <2>1, FoundFacts, TableFacts
  <2>3. CASE key[t] \in KeysOf(buckets)
    <3>1. a = buckets[i][1].val
      BY <1>1, <2>1, <2>2, <2>3 DEF Look
    <3> QED BY <2>2, <2>3, <3>1, ValueFacts
  <2>4. CASE key[t] \notin KeysOf(buckets)
    <3>1. a = Absent
      BY <1>1, <2>1, <2>2, <2>4 DEF Look
    <3>2. Absent \notin freed /\ Absent \notin Keys
      BY Markers, TableAssumption DEF IInv, LifeInv
    <3> QED BY <2>4, <3>1, <3>2
  <2> QED BY <2>3, <2>4
<1>5. /\ Moves(t, "idle", Absent, Absent, a, HasObject(a))
      /\ UNCHANGED <<capacity, buckets>> /\ pc[t] # "table"
  <2>1. HasObject(a) \in BOOLEAN
    BY DEF HasObject
  <2> QED BY <1>1, <1>2, <1>4, <2>1, ReadEndMoves
<1>6. /\ seen' = [seen EXCEPT ![t] = seen[t]] /\ clean' = [clean EXCEPT ![t] = clean[t]]
      /\ seen[t] \in SUBSET Keys /\ clean[t] \in BOOLEAN
  BY <1>1 DEF iterVars, IInv, TypeOK
<1>7. "idle" \notin Writing
  BY DEF Writing
<1>8. IInv'
  BY <1>4, <1>5, <1>6, <1>7, LocalStep
<1>9. Return(t, a, HasObject(a)) /\ UNCHANGED <<buckets, fault>>
  BY <1>1 DEF ReadEnd, tableVars
<1> QED BY <1>2, <1>4, <1>8, <1>9

(* hashtable_get2 answers a value of another string, or nothing.           *)
LEMMA Get2Step ==
  ASSUME IInv, NEW t \in Threads, Get2(t)
  PROVE  /\ IInv' /\ fault = "none" /\ UNCHANGED <<buckets, fault>>
         /\ \E a \in Stored \cup {Absent}, r \in BOOLEAN : Return(t, a, r)
<1> DEFINE chain == Chain(buckets, Index(key[t], capacity))
           hits == {j \in DOMAIN chain : /\ HashCode(key[t]) = HashCode(chain[j].key)
                                         /\ TypeOf(chain[j].key) = "string"
                                         /\ chain[j].key # key[t]}
           found == IF hits = {} THEN Absent
                    ELSE chain[CHOOSE j \in hits : \A h \in hits : j <= h].val
<1>1. ReadEnd(t, found, HasObject(found)) /\ UNCHANGED iterVars
  BY DEF Get2
<1>2. /\ fault = "none" /\ pc[t] = "get2" /\ pc[t] \in Reading /\ key[t] \in Keys
      /\ TypeOf(key[t]) = "string"
  BY DEF Get2, At, Reading, IInv, CallInv
<1>3. ~Rewriting /\ capacity > 0
  BY <1>2, LockFacts DEF IInv, LockInv
<1>4. PICK i : i = Index(key[t], capacity)
  OBVIOUS
<1>6. \/ found = Absent
      \/ i \in DOMAIN buckets /\ found = buckets[i][1].val
  <2>1. CASE hits = {}
    BY <2>1
  <2>2. CASE hits # {}
    <3>1. i \in DOMAIN buckets /\ chain = buckets[i]
      BY <1>4, <2>2 DEF Chain
    <3>2. DOMAIN buckets[i] = {1}
      BY <3>1, TableFacts DEF Good
    <3>3. hits = {1}
      BY <2>2, <3>1, <3>2
    <3>4. (CHOOSE j \in hits : \A h \in hits : j <= h) = 1
      BY <3>3
    <3>5. found = buckets[i][1].val
      BY <2>2, <3>1, <3>4
    <3> QED BY <3>1, <3>5
  <2> QED BY <2>1, <2>2
<1> HIDE DEF found
<1>7. PICK a : a = found
  OBVIOUS
<1>8. a \in Stored \cup {Absent} /\ a \notin freed /\ a \notin Keys
  <2>1. Absent \notin freed /\ Absent \notin Keys
    BY Markers, TableAssumption DEF IInv, LifeInv
  <2> QED BY <1>6, <1>7, <2>1, ValueFacts
<1>9. ReadEnd(t, a, HasObject(a))
  BY <1>1, <1>7
<1>10. /\ Moves(t, "idle", Absent, Absent, a, HasObject(a))
       /\ UNCHANGED <<capacity, buckets>> /\ pc[t] # "table"
  <2>1. HasObject(a) \in BOOLEAN
    BY DEF HasObject
  <2> QED BY <1>2, <1>8, <1>9, <2>1, ReadEndMoves
<1>11. /\ seen' = [seen EXCEPT ![t] = seen[t]] /\ clean' = [clean EXCEPT ![t] = clean[t]]
       /\ seen[t] \in SUBSET Keys /\ clean[t] \in BOOLEAN
  BY <1>1 DEF iterVars, IInv, TypeOK
<1>12. "idle" \notin Writing
  BY DEF Writing
<1>13. IInv'
  BY <1>8, <1>10, <1>11, <1>12, LocalStep
<1>14. Return(t, a, HasObject(a)) /\ UNCHANGED <<buckets, fault>>
  BY <1>9 DEF ReadEnd, tableVars
<1>15. HasObject(a) \in BOOLEAN
  BY DEF HasObject
<1> QED BY <1>2, <1>8, <1>13, <1>14, <1>15

(* The caller forgets the answer.                                          *)
LEMMA ForgetStep ==
  ASSUME IInv, NEW t \in Threads, Forget(t)
  PROVE  IInv'
<1>1. /\ fault = "none" /\ pc[t] = "idle" /\ answer' = [answer EXCEPT ![t] = Pending]
      /\ rooted' = [rooted EXCEPT ![t] = FALSE]
      /\ seen' = [seen EXCEPT ![t] = {}] /\ clean' = [clean EXCEPT ![t] = FALSE]
      /\ UNCHANGED <<capacity, usage, buckets, writer, readers, pc, key, val, freed, fault>>
  BY DEF Forget, At, Answer, Forgotten, tableVars
<1>2. Moves(t, "idle", key[t], val[t], Pending, FALSE)
  <2>1. /\ pc' = [pc EXCEPT ![t] = "idle"] /\ key' = [key EXCEPT ![t] = key[t]]
        /\ val' = [val EXCEPT ![t] = val[t]]
        /\ key[t] = Absent /\ val[t] = Absent
    BY <1>1 DEF IInv, TypeOK, CallInv
  <2>2. writer # t /\ t \notin readers
    BY <1>1 DEF IInv, LockInv, Writing, Reading
  <2>3. readers \ {t} = readers
    BY <2>2
  <2>4. Pending \notin freed /\ (Pending \in Stored => ~HasObject(Pending))
    BY Markers DEF IInv, LifeInv
  <2>5. "idle" \notin Writing /\ "idle" \notin Reading
    BY DEF Writing, Reading
  <2> QED BY <1>1, <2>1, <2>2, <2>3, <2>4, <2>5 DEF Moves
<1>3. {} \in SUBSET Keys /\ FALSE \in BOOLEAN /\ pc[t] # "table" /\ "idle" \notin Writing
  BY <1>1 DEF Writing
<1>4. UNCHANGED <<capacity, buckets>>
  BY <1>1
<1> QED BY <1>1, <1>2, <1>3, <1>4, LocalStep

(* The collector frees what nothing leads to: nothing in use.              *)
LEMMA CollectStep ==
  ASSUME IInv, NEW o \in Stored, Collect(o)
  PROVE  IInv'
<1>1. /\ fault = "none" /\ HasObject(o) /\ o \notin Marked /\ freed' = freed \cup {o}
      /\ UNCHANGED <<capacity, usage, buckets, writer, readers, pc, key, val, answer, rooted,
                     seen, clean, fault>>
  BY DEF Collect, tableVars, threadVars, iterVars
<1>2. \A t \in Threads : val[t] # o /\ (rooted[t] => answer[t] # o)
  BY <1>1 DEF Marked
<1>3. \A i \in DOMAIN buckets : buckets[i][1].gcVal # o
  BY <1>1, TableFacts DEF Marked
<1>4. Rewriting' <=> Rewriting
  BY <1>1 DEF Rewriting
<1>5. TypeOK'
  BY <1>1 DEF IInv, TypeOK
<1>6. LockInv' /\ CountInv'
  BY <1>1 DEF IInv, LockInv, CountInv
<1>7. CallInv'
  BY <1>1, <1>2 DEF IInv, CallInv
<1>8. BucketInv' /\ SeenInv'
  BY <1>1, <1>4 DEF IInv, BucketInv, SeenInv
<1>9. LifeInv'
  BY <1>1, <1>3 DEF IInv, LifeInv
<1>10. AnswerInv'
  BY <1>1, <1>2 DEF IInv, AnswerInv
<1>11. LostOnlyToCollision'
  BY <1>1 DEF LostOnlyToCollision
<1> QED BY <1>5, <1>6, <1>7, <1>8, <1>9, <1>10, <1>11 DEF IInv

-----------------------------------------------------------------------------
(* The buckets that an iteration has yet to come to, after the key k.       *)
Rest(bs, k, cap) == IF k = Absent THEN DOMAIN bs ELSE {j \in DOMAIN bs : j > Index(k, cap)}

(* Every set of numbers has a least one.                                   *)
LEMMA LeastFacts ==
  ASSUME NEW T \in SUBSET Nat, T # {}
  PROVE  \E f \in T : \A j \in T : f <= j
<1> DEFINE R == {p \in Nat \X Nat : p[1] < p[2]}
<1>1. IsWellFoundedOn(R, Nat)
  BY NatLessThanWellFounded, Zenon DEF OpToRel
<1>2. \A x, y \in Nat : x < y => <<x, y>> \in R
  OBVIOUS
<1> HIDE DEF R
<1>3. T \subseteq Nat
  OBVIOUS
<1>4. \E f \in T : \A j \in T : ~(<<j, f>> \in R)
  BY <1>1, <1>3, WFMin, Zenon
<1>5. PICK f \in T : \A j \in T : ~(<<j, f>> \in R)
  BY <1>4
<1>6. \A j \in T : ~(j < f)
  BY <1>2, <1>3, <1>5
<1> QED BY <1>3, <1>6

(* hashtable_next answers the key of the first of them.                    *)
LEMMA AfterFacts ==
  ASSUME IInv, ~Rewriting, capacity > 0, NEW k \in Keys \cup {Absent}
  PROVE  \E rest \in SUBSET DOMAIN buckets :
           /\ k = Absent \/ k \in AllKeys => rest = Rest(buckets, k, capacity)
           /\ \/ rest = {} /\ After(k) = Absent
              \/ \E f \in rest : (\A j \in rest : f <= j) /\ After(k) = buckets[f][1].key
<1> DEFINE ordered == {p \in (DOMAIN buckets) \X (1 .. usage) : p[2] <= Len(buckets[p[1]])}
           here == {p \in ordered : /\ k # Absent /\ Equals(k, buckets[p[1]][p[2]].key)
                                    /\ p[1] >= Index(k, capacity)}
           later == IF k = Absent THEN ordered
                    ELSE {p \in ordered : \E h \in here :
                            p[1] > h[1] \/ (p[1] = h[1] /\ p[2] > h[2])}
           first == CHOOSE p \in later : \A q \in later :
                      p[1] < q[1] \/ (p[1] = q[1] /\ p[2] <= q[2])
           rest == {j \in DOMAIN buckets : <<j, 1>> \in later}
<1>1. After(k) = IF later = {} THEN Absent ELSE buckets[first[1]][first[2]].key
  BY DEF After
<1>2. DOMAIN buckets \subseteq Nat /\ usage \in Nat
  BY LockFacts DEF IInv, TypeOK
<1>3. ASSUME NEW j \in DOMAIN buckets PROVE Len(buckets[j]) = 1 /\ usage >= 1
  <2>1. Len(buckets[j]) = 1
    BY TableFacts DEF Good
  <2>2. KeysOf(buckets) # {} /\ IsFiniteSet(KeysOf(buckets)) /\ Cardinality(KeysOf(buckets)) <= usage
    <3>1. buckets[j][1].key \in KeysOf(buckets)
      BY TableFacts
    <3> QED BY <3>1 DEF IInv, CountInv
  <2>3. Cardinality(KeysOf(buckets)) \in Nat /\ Cardinality(KeysOf(buckets)) # 0
    BY <2>2, FS_CardinalityType, FS_EmptySet
  <2> QED BY <1>2, <2>1, <2>2, <2>3
<1>4. ordered = {<<j, 1>> : j \in DOMAIN buckets}
  <2>1. ASSUME NEW p \in ordered PROVE p[1] \in DOMAIN buckets /\ p = <<p[1], 1>>
    <3>1. PICK j \in DOMAIN buckets, n \in 1 .. usage : p = <<j, n>> /\ n <= Len(buckets[j])
      OBVIOUS
    <3>2. Len(buckets[j]) = 1 /\ n \in Nat /\ n >= 1
      BY <1>2, <1>3
    <3>3. n = 1
      BY <3>1, <3>2
    <3> QED BY <3>1, <3>3
  <2>2. ASSUME NEW j \in DOMAIN buckets PROVE <<j, 1>> \in ordered
    BY <1>2, <1>3
  <2> QED BY <2>1, <2>2
<1>5. later = {<<j, 1>> : j \in rest}
  BY <1>4
<1>6. k = Absent \/ k \in AllKeys => rest = Rest(buckets, k, capacity)
  <2> SUFFICES ASSUME k = Absent \/ k \in AllKeys PROVE rest = Rest(buckets, k, capacity)
    OBVIOUS
  <2>1. CASE k = Absent
    BY <1>4, <2>1 DEF Rest
  <2>2. CASE k # Absent
    <3>1. PICK i : i = Index(k, capacity)
      OBVIOUS
    <3>2. k \in Keys /\ i \in DOMAIN buckets /\ buckets[i][1].key = k
      BY <2>2, <3>1, TableFacts, FoundFacts
    <3>3. <<i, 1>> \in here /\ \A h \in here : h \in ordered /\ h[1] >= i
      <4>1. i \in Nat /\ Equals(k, k) /\ k # Absent
        BY <1>2, <2>2, <3>2 DEF Equals
      <4>2. <<i, 1>> \in ordered /\ <<i, 1>>[1] = i /\ <<i, 1>>[2] = 1 /\ i >= i
        BY <1>4, <3>2, <4>1
      <4>3. <<i, 1>> \in here
        BY <3>1, <3>2, <4>1, <4>2
      <4> QED BY <3>1, <4>3
    <3>4. later = {p \in ordered : \E h \in here :
                     p[1] > h[1] \/ (p[1] = h[1] /\ p[2] > h[2])}
      BY <2>2
    <3> HIDE DEF later, ordered, here
    <3>5. ASSUME NEW j \in DOMAIN buckets PROVE <<j, 1>> \in later <=> j > i
      <4>1. <<j, 1>> \in ordered /\ j \in Nat /\ i \in Nat
        BY <1>2, <1>4, <3>2
      <4>2. CASE j > i
        <5>1. <<j, 1>>[1] > <<i, 1>>[1]
          BY <4>2
        <5> QED BY <3>3, <3>4, <4>1, <4>2, <5>1
      <4>3. CASE <<j, 1>> \in later
        <5>1. PICK h \in here : j > h[1] \/ (j = h[1] /\ 1 > h[2])
          BY <3>4, <4>3
        <5>2. PICK l \in DOMAIN buckets : h = <<l, 1>> /\ l >= i
          BY <1>4, <3>3
        <5>3. j > l /\ l \in Nat
          BY <1>2, <5>1, <5>2
        <5> QED BY <4>1, <4>3, <5>2, <5>3
      <4> QED BY <4>2, <4>3
    <3>6. Rest(buckets, k, capacity) = {j \in DOMAIN buckets : j > i}
      BY <2>2, <3>1 DEF Rest
    <3> QED BY <3>5, <3>6
  <2> QED BY <2>1, <2>2
<1>7. rest \in SUBSET DOMAIN buckets
  OBVIOUS
<1> HIDE DEF first, rest
<1>8. CASE rest = {}
  BY <1>1, <1>5, <1>6, <1>7, <1>8
<1>9. CASE rest # {}
  <2>1. rest \subseteq Nat
    BY <1>2, <1>7
  <2>2. PICK f \in rest : \A j \in rest : f <= j
    BY <1>9, <2>1, LeastFacts
  <2>3. <<f, 1>> \in later /\ \A q \in later : f < q[1] \/ (f = q[1] /\ 1 <= q[2])
    BY <1>5, <2>1, <2>2
  <2>4. ASSUME NEW p \in later,
               \A q \in later : p[1] < q[1] \/ (p[1] = q[1] /\ p[2] <= q[2])
        PROVE  p = <<f, 1>>
    <3>1. PICK j \in rest : p = <<j, 1>>
      BY <1>5
    <3>2. j <= f
      BY <2>1, <2>3, <2>4, <3>1
    <3> QED BY <2>1, <2>2, <3>1, <3>2
  <2> HIDE DEF later
  <2>5. first = <<f, 1>>
    BY <2>3, <2>4 DEF first
  <2>6. After(k) = buckets[f][1].key
    BY <1>1, <2>3, <2>5
  <2> QED BY <1>6, <1>7, <2>2, <2>6
<1> QED BY <1>8, <1>9

(* What hashtable_next answers, for an iteration that has met the keys of   *)
(* the buckets up to that of k: a key it has not met, or Absent after all. *)
LEMMA IterationFacts ==
  ASSUME IInv, ~Rewriting, capacity > 0, NEW k, k = Absent \/ k \in AllKeys,
         NEW s, s = IF k = Absent THEN {} ELSE UpTo(buckets, k, capacity),
         NEW a, a = After(k)
  PROVE  \/ a = Absent /\ s = AllKeys
         \/ a \in AllKeys \ s /\ a # Absent /\ s \cup {a} = UpTo(buckets, a, capacity)
<1> DEFINE rest == Rest(buckets, k, capacity)
<1>1. /\ AllKeys = {buckets[i][1].key : i \in DOMAIN buckets} /\ Absent \notin AllKeys
      /\ \A i \in DOMAIN buckets : Index(buckets[i][1].key, capacity) = i
      /\ DOMAIN buckets \subseteq Nat
  BY TableFacts DEF IInv, BucketInv, Placed, TypeOK
<1>2. k # Absent => Index(k, capacity) \in Nat
  BY <1>1
<1>3. s = {buckets[i][1].key : i \in DOMAIN buckets \ rest}
  <2>1. CASE k = Absent
    BY <2>1 DEF Rest
  <2>2. CASE k # Absent
    <3>1. {j \in DOMAIN buckets : j <= Index(k, capacity)} = DOMAIN buckets \ rest
      BY <1>1, <1>2, <2>2 DEF Rest
    <3> QED BY <2>2, <3>1 DEF UpTo
  <2> QED BY <2>1, <2>2
<1>4. CASE rest = {} /\ a = Absent
  BY <1>1, <1>3, <1>4
<1>5. CASE \E f \in rest : (\A j \in rest : f <= j) /\ a = buckets[f][1].key
  <2>1. PICK f \in rest : (\A j \in rest : f <= j) /\ a = buckets[f][1].key
    BY <1>5
  <2>2. f \in DOMAIN buckets /\ a \in AllKeys /\ a # Absent /\ Index(a, capacity) = f
    BY <1>1, <2>1 DEF Rest
  <2>3. a \notin s
    BY <1>1, <1>3, <2>1, <2>2
  <2>4. {j \in DOMAIN buckets : j <= f} = (DOMAIN buckets \ rest) \cup {f}
    <3>1. ASSUME NEW j \in DOMAIN buckets PROVE j <= f <=> j \notin rest \/ j = f
      <4>1. j \in Nat /\ f \in Nat
        BY <1>1, <2>2
      <4>2. CASE k = Absent
        BY <2>1, <4>1, <4>2 DEF Rest
      <4>3. CASE k # Absent
        <5>1. f > Index(k, capacity) /\ (j \in rest <=> j > Index(k, capacity))
          BY <4>3 DEF Rest
        <5> QED BY <1>2, <2>1, <4>1, <4>3, <5>1
      <4> QED BY <4>2, <4>3
    <3> QED BY <2>2, <3>1
  <2>5. s \cup {a} = UpTo(buckets, a, capacity)
    BY <1>3, <2>1, <2>2, <2>4 DEF UpTo
  <2> QED BY <2>2, <2>3, <2>5
<1>6. \/ rest = {} /\ a = Absent
      \/ \E f \in rest : (\A j \in rest : f <= j) /\ a = buckets[f][1].key
  <2>1. k \in Keys \cup {Absent}
    BY TableFacts
  <2> QED BY <2>1, AfterFacts
<1> QED BY <1>4, <1>5, <1>6

(* hashtable_next.                                                         *)
LEMMA NextKeyStep ==
  ASSUME IInv, NEW t \in Threads, NextKey(t)
  PROVE  /\ IInv' /\ fault = "none" /\ UNCHANGED <<buckets, fault>>
         /\ \E a \in (KeysOf(buckets) \ {key[t]}) \cup {Absent} : Return(t, a, FALSE)
         /\ clean'[t] => IF answer'[t] = Absent THEN seen[t] = AllKeys
                         ELSE answer'[t] \in AllKeys \ seen[t]
<1>1. fault = "none" /\ pc[t] = "next" /\ pc[t] \in Reading
  BY DEF NextKey, At, Reading
<1>2. PICK k, a, c, s : /\ k = key[t] /\ a = After(k)
                        /\ c = (k = Absent \/ clean[t])
                        /\ s = IF c THEN (seen[t] \cup {a}) \ {Absent} ELSE {}
  OBVIOUS
<1>3. /\ ReadEnd(t, a, FALSE)
      /\ clean' = [clean EXCEPT ![t] = c] /\ seen' = [seen EXCEPT ![t] = s]
  <2>1. ReadEnd(t, a, FALSE) /\ clean' = [clean EXCEPT ![t] = c]
    BY <1>2 DEF NextKey, IInv, TypeOK
  <2>2. clean'[t] = c
    BY <2>1 DEF IInv, TypeOK
  <2>3. seen' = [seen EXCEPT ![t] = IF clean'[t] THEN (seen[t] \cup {a}) \ {Absent} ELSE {}]
    BY <1>2 DEF NextKey
  <2>4. s = IF clean'[t] THEN (seen[t] \cup {a}) \ {Absent} ELSE {}
    BY <1>2, <2>2
  <2> QED BY <2>1, <2>3, <2>4
<1>4. ~Rewriting /\ capacity > 0
  BY <1>1, LockFacts DEF IInv, LockInv
<1>5. k \in Keys \cup {Absent} /\ Absent \notin Keys /\ c \in BOOLEAN /\ seen[t] \subseteq Keys
  BY <1>2, TableAssumption DEF IInv, TypeOK
<1>6. c => /\ k = Absent \/ k \in AllKeys
           /\ seen[t] = IF k = Absent THEN {} ELSE UpTo(buckets, k, capacity)
  BY <1>1, <1>2, <1>4, <1>5, TableFacts DEF IInv, SeenInv
<1>7. c => \/ a = Absent /\ seen[t] = AllKeys
           \/ /\ a \in AllKeys \ seen[t] /\ a # Absent
              /\ seen[t] \cup {a} = UpTo(buckets, a, capacity)
  <2> SUFFICES ASSUME c
               PROVE  \/ a = Absent /\ seen[t] = AllKeys
                      \/ /\ a \in AllKeys \ seen[t] /\ a # Absent
                         /\ seen[t] \cup {a} = UpTo(buckets, a, capacity)
    OBVIOUS
  <2> QED BY <1>2, <1>4, <1>6, IterationFacts
<1>8. a \in (AllKeys \ {k}) \cup {Absent}
  <2>1. PICK rest \in SUBSET DOMAIN buckets :
          /\ k = Absent \/ k \in AllKeys => rest = Rest(buckets, k, capacity)
          /\ \/ rest = {} /\ a = Absent
             \/ \E f \in rest : (\A j \in rest : f <= j) /\ a = buckets[f][1].key
    BY <1>2, <1>4, <1>5, AfterFacts
  <2>2. CASE \E f \in rest : a = buckets[f][1].key
    <3>1. PICK f \in rest : f \in DOMAIN buckets /\ a = buckets[f][1].key
      BY <2>2
    <3>2. a \in AllKeys
      BY <3>1, TableFacts
    <3>3. a # k
      <4>1. CASE k \in AllKeys
        <5>1. k # Absent /\ f > Index(k, capacity)
          BY <2>1, <3>1, <4>1, TableFacts DEF Rest
        <5>2. Index(a, capacity) = f /\ f \in Nat
          BY <1>4, <3>1 DEF IInv, BucketInv, Placed, TypeOK
        <5> QED BY <5>1, <5>2
      <4> QED BY <3>2, <4>1
    <3> QED BY <3>2, <3>3
  <2> QED BY <2>1, <2>2
<1>9. /\ a \in Keys \cup Stored \cup {Absent} /\ a \notin freed /\ a \notin Stored
  BY <1>8, Markers, TableFacts, TableAssumption DEF IInv, LifeInv, TypeOK
<1>10. /\ Moves(t, "idle", Absent, Absent, a, FALSE)
       /\ UNCHANGED <<capacity, buckets>> /\ pc[t] # "table"
  BY <1>1, <1>3, <1>9, ReadEndMoves
<1>11. s \in SUBSET Keys /\ "idle" \notin Writing
  <2>1. a \in Keys \cup {Absent}
    BY <1>8, TableFacts
  <2> QED BY <1>2, <1>5, <2>1 DEF Writing
<1>12. c /\ a \in Keys => a \in KeysOf(buckets) /\ s = UpTo(buckets, a, capacity)
  <2> SUFFICES ASSUME c, a \in Keys
               PROVE  a \in KeysOf(buckets) /\ s = UpTo(buckets, a, capacity)
    OBVIOUS
  <2>1. s = (seen[t] \cup {a}) \ {Absent} /\ Absent \notin seen[t] /\ a # Absent
    BY <1>2, <1>5
  <2>2. s = seen[t] \cup {a}
    BY <2>1
  <2> QED BY <1>7, <2>1, <2>2, TableFacts
<1>13. IInv'
  BY <1>3, <1>5, <1>10, <1>11, <1>12, LocalStep
<1>14. /\ Return(t, a, FALSE) /\ UNCHANGED <<buckets, fault>>
  BY <1>3 DEF ReadEnd, tableVars
<1>15. answer'[t] = a /\ clean'[t] = c
  BY <1>3, <1>14 DEF Return, Answer, IInv, TypeOK
<1> QED BY <1>1, <1>2, <1>7, <1>8, <1>13, <1>14, <1>15, TableFacts

-----------------------------------------------------------------------------
(* There is no table yet.                                                  *)
LEMMA InitInv == Init => IInv
<1> SUFFICES ASSUME Init PROVE IInv
  OBVIOUS
<1> USE TableAssumption
<1>1. /\ DOMAIN buckets = {} /\ capacity = 0 /\ usage = 0 /\ writer = NULL /\ readers = {}
      /\ freed = {} /\ fault = "none"
      /\ \A t \in Threads : /\ pc[t] = "idle" /\ answer[t] = Pending /\ ~clean[t]
                            /\ key[t] = Absent /\ val[t] = Absent /\ seen[t] = {}
  BY DEF Init
<1>2. TypeOK
  BY DEF Init, TypeOK
<1>3. LockInv
  <2>1. \A t \in Threads : t # NULL /\ pc[t] \notin Writing /\ pc[t] \notin Reading
    BY <1>1 DEF Writing, Reading
  <2> QED BY <1>1, <2>1 DEF LockInv
<1>4. CallInv
  BY <1>1 DEF CallInv, Writing
<1>5. BucketInv
  BY <1>1 DEF BucketInv, Good, Placed, Rewriting
<1>6. KeysOf(buckets) = {}
  BY <1>1 DEF KeysOf, PairsOf
<1>7. CountInv
  BY <1>1, <1>6, FS_EmptySet DEF CountInv
<1>8. LifeInv
  BY <1>1 DEF LifeInv
<1>9. AnswerInv
  BY <1>1, Markers DEF AnswerInv
<1>10. SeenInv
  BY <1>1 DEF SeenInv
<1>11. LostOnlyToCollision
  BY <1>1 DEF LostOnlyToCollision
<1> QED BY <1>2, <1>3, <1>4, <1>5, <1>7, <1>8, <1>9, <1>10, <1>11 DEF IInv

(* Everything one thread may do.                                           *)
ThreadStep(t) ==
  \/ \E k \in Keys : \/ \E v \in Stored : SetBegin(t, k, v)
                     \/ RemoveKey(t, k)
                     \/ ReadBegin(t, "get", k)
                     \/ TypeOf(k) = "string" /\ ReadBegin(t, "get2", k)
  \/ \E k \in {Absent} \cup ({answer[t]} \cap Keys) : ReadBegin(t, "next", k)
  \/ Resize(t) \/ ResizeRefused(t) \/ WriteTable(t)
  \/ Insert(t) \/ InsertLost(t)
  \/ Get(t) \/ Get2(t) \/ NextKey(t) \/ Forget(t)

(* No step of anybody breaks the invariant.                                *)
LEMMA StepInv == IInv /\ [Next]_vars => IInv'
<1> SUFFICES ASSUME IInv, [Next]_vars PROVE IInv'
  OBVIOUS
<1>1. CASE UNCHANGED vars
  <2>1. /\ UNCHANGED <<capacity, usage, buckets, writer, readers, pc, key, val, answer, rooted,
                       freed, seen, clean, fault>>
    BY <1>1 DEF vars, tableVars, threadVars, iterVars
  <2>2. (Rewriting' <=> Rewriting) /\ AllKeys' = AllKeys
    BY <2>1 DEF Rewriting, AllKeys, AllPairs
  <2>3. TypeOK' /\ LockInv' /\ CallInv' /\ BucketInv' /\ CountInv' /\ LifeInv' /\ AnswerInv' /\ SeenInv'
    BY <2>1, <2>2 DEF IInv, TypeOK, LockInv, CallInv, BucketInv, CountInv, LifeInv, AnswerInv, SeenInv
  <2>4. LostOnlyToCollision'
    BY <2>1, <2>2 DEF IInv, LostOnlyToCollision
  <2> QED BY <2>3, <2>4 DEF IInv
<1>2. ASSUME NEW n \in Capacities, NewTable(n) PROVE IInv'
  BY <1>2, NewTableStep
<1>3. ASSUME NEW o \in Stored, Collect(o) PROVE IInv'
  BY <1>3, CollectStep
<1>4. ASSUME NEW t \in Threads, ThreadStep(t) PROVE IInv'
  <2>1. ASSUME NEW k \in Keys, NEW v \in Stored, SetBegin(t, k, v) PROVE IInv'
    BY <2>1, SetBeginStep
  <2>2. ASSUME NEW k \in Keys, RemoveKey(t, k) PROVE IInv'
    BY <2>2, RemoveStep
  <2>3. ASSUME NEW k \in Keys, ReadBegin(t, "get", k) PROVE IInv'
    <3>1. "get" \in Reading /\ "get" # "next" /\ "get" # "get2"
      BY DEF Reading
    <3> QED BY <2>3, <3>1, ReadBeginStep
  <2>4. ASSUME NEW k \in Keys, TypeOf(k) = "string", ReadBegin(t, "get2", k) PROVE IInv'
    <3>1. "get2" \in Reading /\ "get2" # "next"
      BY DEF Reading
    <3> QED BY <2>4, <3>1, ReadBeginStep
  <2>5. ASSUME NEW k \in {Absent} \cup ({answer[t]} \cap Keys), ReadBegin(t, "next", k)
        PROVE  IInv'
    <3>1. "next" \in Reading /\ "next" # "get2"
      BY DEF Reading
    <3> QED BY <2>5, <3>1, ReadBeginStep
  <2>6. CASE Resize(t)
    BY <2>6, ResizeStep
  <2>7. CASE ResizeRefused(t) \/ InsertLost(t)
    BY <2>7, GiveUpStep
  <2>8. CASE WriteTable(t)
    BY <2>8, WriteTableStep
  <2>9. CASE Insert(t)
    BY <2>9, InsertStep
  <2>10. CASE Get(t)
    BY <2>10, GetStep
  <2>11. CASE Get2(t)
    BY <2>11, Get2Step
  <2>12. CASE NextKey(t)
    BY <2>12, NextKeyStep
  <2>13. CASE Forget(t)
    BY <2>13, ForgetStep
  <2> QED BY <1>4, <2>1, <2>2, <2>3, <2>4, <2>5, <2>6, <2>7, <2>8, <2>9, <2>10, <2>11, <2>12,
             <2>13 DEF ThreadStep
<1> QED BY <1>1, <1>2, <1>3, <1>4 DEF Next, ThreadStep

(* The inductive invariant.                                                *)
THEOREM Inductive == Spec => []IInv
BY InitInv, StepInv, PTL DEF Spec

(* Every variable keeps its type: each chain has pairs of keys and values,  *)
(* in a bucket of the array, and readers and the writer exclude each other. *)
THEOREM TypeCorrect == Spec => []TypeOK
<1>1. IInv => TypeOK
  BY DEF IInv
<1> QED BY <1>1, Inductive, PTL

(* No value in the table, and none that a lookup answered, is ever freed,   *)
(* whatever other threads overwrite or remove meanwhile.                   *)
THEOREM ValuesLive == Spec => []UsedValuesAreAlive
<1>1. IInv => UsedValuesAreAlive
  <2> SUFFICES ASSUME IInv PROVE UsedValuesAreAlive
    OBVIOUS
  <2>1. \A p \in AllPairs : p.val \notin freed
    BY TableFacts DEF IInv, LifeInv
  <2>2. \A t \in Threads : answer[t] \notin freed
    BY DEF IInv, AnswerInv
  <2> QED BY <2>1, <2>2 DEF UsedValuesAreAlive
<1> QED BY <1>1, Inductive, PTL

(* The process is lost only when two keys share a bucket.                  *)
THEOREM LossNeedsCollision == Spec => []LostOnlyToCollision
<1>1. IInv => LostOnlyToCollision
  BY DEF IInv
<1> QED BY <1>1, Inductive, PTL

(* The usage is never below the number of pairs: no key has two.           *)
THEOREM LengthBounds == Spec => []LengthIsUpperBound
<1>1. IInv => LengthIsUpperBound
  <2> SUFFICES ASSUME IInv PROVE LengthIsUpperBound
    OBVIOUS
  <2> DEFINE keyOf == [p \in AllPairs |-> p.key]
  <2>1. keyOf \in Injection(AllPairs, AllKeys)
    <3>1. keyOf \in [AllPairs -> AllKeys]
      BY DEF AllKeys
    <3>2. ASSUME NEW p \in AllPairs, NEW q \in AllPairs, keyOf[p] = keyOf[q] PROVE p = q
      <4>1. p.key = q.key
        BY <3>2
      <4>2. PICK i \in DOMAIN buckets, j \in DOMAIN buckets : p = buckets[i][1] /\ q = buckets[j][1]
        BY TableFacts
      <4>3. i = j
        BY <4>1, <4>2, TableFacts DEF Good
      <4> QED BY <4>2, <4>3
    <3> QED BY <3>1, <3>2 DEF Injection, IsInjective
  <2>2. IsFiniteSet(AllKeys) /\ Cardinality(AllKeys) <= usage
    BY TableFacts DEF IInv, CountInv
  <2>3. IsFiniteSet(AllPairs) /\ Cardinality(AllPairs) <= Cardinality(AllKeys)
    <3> HIDE DEF keyOf
    <3> QED BY <2>1, <2>2, FS_Injection
  <2>4. Cardinality(AllKeys) \in Nat /\ Cardinality(AllPairs) \in Nat /\ usage \in Nat
    BY <2>2, <2>3, FS_CardinalityType, LockFacts
  <2> QED BY <2>2, <2>3, <2>4 DEF LengthIsUpperBound
<1> QED BY <1>1, Inductive, PTL

(* Only hashtable_next ends an iteration's call.                           *)
LEMMA OnlyNextKey ==
  ASSUME TypeOK, [Next]_vars, NEW t \in Threads, pc[t] = "next", pc'[t] = "idle"
  PROVE  NextKey(t)
<1>1. pc' # pc /\ DOMAIN pc = Threads
  BY DEF TypeOK
<1>2. Next
  BY <1>1 DEF vars, threadVars
<1>3. ASSUME NEW n \in Capacities, NewTable(n) PROVE FALSE
  BY <1>1, <1>3 DEF NewTable, threadVars
<1>4. ASSUME NEW o \in Stored, Collect(o) PROVE FALSE
  BY <1>1, <1>4 DEF Collect, threadVars
<1>5. PICK u \in Threads : ThreadStep(u)
  BY <1>2, <1>3, <1>4 DEF Next, ThreadStep
<1>6. u = t
  <2> SUFFICES ASSUME u # t PROVE FALSE
    OBVIOUS
  <2>1. pc' = pc \/ \E p : pc' = [pc EXCEPT ![u] = p]
    BY <1>5 DEF ThreadStep, SetBegin, RemoveKey, ReadBegin, Resize, ResizeRefused, WriteTable,
                Insert, InsertLost, Get, Get2, NextKey, Forget, ReadEnd, Begin, Return, Goto,
                Lose, threadVars
  <2> QED BY <1>1, <2>1
<1>7. CASE NextKey(u)
  BY <1>6, <1>7
<1>8. CASE ~NextKey(u)
  BY <1>1, <1>5, <1>6, <1>8
     DEF ThreadStep, At, SetBegin, RemoveKey, ReadBegin, Resize, ResizeRefused, WriteTable,
         Insert, InsertLost, Get, Get2, Forget
<1> QED BY <1>7, <1>8

(* An iteration that nobody disturbs meets every key exactly once, in a     *)
(* table of any size, however many threads iterate and look up meanwhile.  *)
THEOREM IterationCompletes == Spec => IterationIsComplete
<1>1. IInv /\ [Next]_vars =>
        [\A t \in Threads :
           (pc[t] = "next" /\ pc'[t] = "idle" /\ clean'[t]) =>
             IF answer'[t] = Absent THEN seen[t] = AllKeys
             ELSE answer'[t] \in AllKeys \ seen[t]]_vars
  <2> SUFFICES ASSUME IInv, [Next]_vars, NEW t \in Threads,
                      pc[t] = "next", pc'[t] = "idle", clean'[t]
               PROVE  IF answer'[t] = Absent THEN seen[t] = AllKeys
                      ELSE answer'[t] \in AllKeys \ seen[t]
    OBVIOUS
  <2>1. NextKey(t)
    BY OnlyNextKey DEF IInv
  <2> QED BY <2>1, NextKeyStep
<1> QED BY <1>1, Inductive, PTL DEF Spec, IterationIsComplete

-----------------------------------------------------------------------------
(* What the dictionary sees of a table: a set is one call, not three.       *)
LEMMA CallsFacts ==
  ASSUME IInv, NEW t \in Threads
  PROVE  /\ AbsCall[t] = IF pc[t] \in Writing THEN "set" ELSE pc[t]
         /\ \A p : pc' = [pc EXCEPT ![t] = p] =>
              AbsCall' = [AbsCall EXCEPT ![t] = IF p \in Writing THEN "set" ELSE p]
         /\ pc' = pc => AbsCall' = AbsCall
<1>1. DOMAIN pc = Threads
  BY DEF IInv, TypeOK
<1> QED BY <1>1 DEF AbsCall, Writing

(* The dictionary a state stands for is that of its buckets.                *)
LEMMA MapFacts ==
  /\ AbsDict = DictOf(buckets) /\ AbsDict' = DictOf(buckets')
  /\ DOMAIN DictOf(buckets) = KeysOf(buckets)
<1>1. AllPairs = PairsOf(buckets) /\ AllKeys = KeysOf(buckets)
  BY DEF AllPairs, PairsOf, AllKeys, KeysOf
<1>2. AbsDict = DictOf(buckets)
  BY <1>1 DEF DictOf, AbsDict
<1>3. AllPairs' = PairsOf(buckets') /\ AllKeys' = KeysOf(buckets')
  BY DEF AllPairs, PairsOf, AllKeys, KeysOf
<1>4. AbsDict' = DictOf(buckets')
  BY <1>3 DEF DictOf, AbsDict
<1> QED BY <1>2, <1>4 DEF DictOf

(* A thread asks.                                                          *)
LEMMA AskStep ==
  ASSUME IInv, NEW t \in Threads, NEW p, NEW k, NEW v,
         pc[t] = "idle", Begin(t, p, k, v), buckets' = buckets
  PROVE  D!Ask(t, IF p \in Writing THEN "set" ELSE p, k, v)
<1>1. "idle" \notin Writing
  BY DEF Writing
<1>2. /\ AbsCall[t] = "idle"
      /\ AbsCall' = [AbsCall EXCEPT ![t] = IF p \in Writing THEN "set" ELSE p]
  BY <1>1, CallsFacts DEF Begin, Goto
<1>3. AbsDict' = AbsDict
  BY MapFacts
<1> QED BY <1>2, <1>3 DEF D!Ask, Begin, Answer

(* A thread is answered.                                                   *)
LEMMA AnswerStep ==
  ASSUME IInv, NEW t \in Threads, NEW a, NEW r, Return(t, a, r)
  PROVE  D!Answer(t, a)
<1>1. "idle" \notin Writing
  BY DEF Writing
<1>2. AbsCall' = [AbsCall EXCEPT ![t] = "idle"]
  BY <1>1, CallsFacts DEF Return, Goto
<1> QED BY <1>2 DEF D!Answer, Return, Answer

(* One step of a thread that is a step of the dictionary's.                 *)
Acts(t) ==
  \/ \E k \in Keys : \/ \E v \in Stored : D!Ask(t, "set", k, v)
                     \/ D!Ask(t, "get", k, Absent) \/ D!Ask(t, "get2", k, Absent)
                     \/ D!Remove(t, k)
  \/ \E k \in Keys \cup {Absent} : D!Ask(t, "next", k, Absent)
  \/ D!Set(t) \/ D!SetLost(t) \/ D!SetRefused(t)
  \/ D!Get(t) \/ D!AnyGet2(t) \/ D!NextKey(t) \/ D!Forget(t)
(* An action of one thread is a step of the dictionary.                     *)
LEMMA ActFacts ==
  ASSUME NEW t \in Threads, Acts(t)
  PROVE  D!NextButGet2
  BY DEF D!NextButGet2, D!Next, Acts

(* A step that the dictionary does not see.                                *)
LEMMA UnseenFacts ==
  ASSUME DictOf(buckets') = DictOf(buckets), AbsCall' = AbsCall,
         UNCHANGED <<key, val, answer>>
  PROVE  UNCHANGED D!vars
<1>1. AbsDict' = AbsDict
  BY MapFacts
<1> QED BY <1>1 DEF D!vars, D!asking

(* The end of the process leaves the table and the calls as they are.       *)
LEMMA LostUnseen == ASSUME NEW how, Lose(how) PROVE UNCHANGED D!vars
<1>1. UNCHANGED <<buckets, pc, key, val, answer>>
  BY DEF Lose, tableVars, threadVars
<1>2. AbsCall' = AbsCall
  BY <1>1 DEF AbsCall
<1> QED BY <1>1, <1>2, UnseenFacts

(* The steps of hashtable_set: one step of the dictionary's, in which the   *)
(* pair is written or given up; the end of the process is none.            *)
LEMMA SetMaps ==
  ASSUME IInv, NEW t \in Threads,
         Resize(t) \/ ResizeRefused(t) \/ WriteTable(t) \/ Insert(t) \/ InsertLost(t)
  PROVE  D!NextButGet2 \/ UNCHANGED D!vars
<1>1. /\ fault = "none" /\ pc[t] \in Writing /\ AbsCall[t] = "set"
      /\ capacity > 0 /\ key[t] \in Keys
  <2>1. fault = "none" /\ pc[t] \in Writing /\ pc[t] # "idle"
    BY DEF Resize, ResizeRefused, WriteTable, Insert, InsertLost, At, Writing
  <2> QED BY <2>1, CallsFacts DEF IInv, LockInv, CallInv
<1>2. CASE Resize(t)
  <2>1. CASE Lose("null_pair")
    BY <2>1, LostUnseen
  <2>2. CASE ~Lose("null_pair")
    <3>1. /\ pc' = [pc EXCEPT ![t] = "table"]
          /\ UNCHANGED <<buckets, key, val, answer, fault>>
      BY <1>2, <2>2 DEF Resize, Goto
    <3>2. AbsCall' = [AbsCall EXCEPT ![t] = "set"] /\ DOMAIN AbsCall = Threads
      <4>1. "table" \in Writing
        BY DEF Writing
      <4> QED BY <3>1, <4>1, CallsFacts DEF AbsCall
    <3>3. AbsCall' = AbsCall
      BY <1>1, <3>2 DEF AbsCall
    <3> QED BY <3>1, <3>3, UnseenFacts
  <2> QED BY <2>1, <2>2
<1>3. CASE ResizeRefused(t)
  <2>1. MayRunOut /\ Return(t, Refused, FALSE) /\ UNCHANGED <<buckets, fault>>
    BY <1>3 DEF ResizeRefused, tableVars
  <2>2. AbsDict' = AbsDict
    BY <2>1, MapFacts
  <2>3. D!SetRefused(t)
    BY <1>1, <2>1, <2>2, AnswerStep DEF D!SetRefused
  <2> QED BY <1>1, <2>1, <2>3, ActFacts DEF Acts
<1>4. CASE WriteTable(t)
  <2>1. /\ pc' = [pc EXCEPT ![t] = "insert"] /\ UNCHANGED <<key, val, answer, fault>>
        /\ DictOf(buckets') = DictOf(buckets)
    BY <1>4, WriteTableStep DEF WriteTable, Goto
  <2>2. AbsCall' = [AbsCall EXCEPT ![t] = "set"]
    <3>1. "insert" \in Writing
      BY DEF Writing
    <3> QED BY <2>1, <3>1, CallsFacts
  <2>3. AbsCall' = AbsCall
    BY <1>1, <2>2 DEF AbsCall
  <2> QED BY <2>1, <2>3, UnseenFacts
<1>5. CASE Insert(t)
  <2>1. CASE Lose("null_pair") /\ AllKeys # {}
    BY <2>1, LostUnseen
  <2>2. CASE /\ fault' = fault /\ Return(t, Done, FALSE)
             /\ DictOf(buckets') = Updated(DictOf(buckets), key[t], val[t])
    <3>1. AbsDict' = [x \in DOMAIN AbsDict \cup {key[t]} |->
                        IF x = key[t] THEN val[t] ELSE AbsDict[x]]
      BY <2>2, MapFacts DEF Updated
    <3>2. D!Set(t)
      BY <1>1, <2>2, <3>1, AnswerStep DEF D!Set
    <3> QED BY <1>1, <2>2, <3>2, ActFacts DEF Acts
  <2> QED BY <1>5, <2>1, <2>2, InsertStep
<1>6. CASE InsertLost(t)
  <2>1. /\ MayRunOut /\ Return(t, Done, FALSE) /\ UNCHANGED <<buckets, fault>>
        /\ Position(key[t], Chain(buckets, Index(key[t], capacity))) = 0
    BY <1>6 DEF InsertLost
  <2>2. ~Rewriting
    <3>1. pc[t] = "insert" /\ \A u \in Threads : pc[u] = "table" => pc[u] \in Writing
      BY <1>6 DEF InsertLost, At, Writing
    <3> QED BY <1>1, <3>1, LockFacts DEF Rewriting
  <2>3. key[t] \notin DOMAIN AbsDict
    BY <1>1, <2>1, <2>2, FoundFacts DEF AbsDict
  <2>4. AbsDict' = AbsDict
    BY <2>1, MapFacts
  <2>5. D!SetLost(t)
    BY <1>1, <2>1, <2>3, <2>4, AnswerStep DEF D!SetLost
  <2> QED BY <1>1, <2>1, <2>5, ActFacts DEF Acts
<1> QED BY <1>2, <1>3, <1>4, <1>5, <1>6

(* The lookups and hashtable_remove are one step of the dictionary's.       *)
LEMMA LookupMaps ==
  ASSUME IInv, NEW t \in Threads, Get(t) \/ Get2(t) \/ NextKey(t)
  PROVE  D!NextButGet2
<1>1. /\ pc[t] \notin Writing /\ AbsCall[t] = pc[t]
      /\ \A a, r : Return(t, a, r) => D!Answer(t, a)
  <2>1. pc[t] \notin Writing
    BY DEF Get, Get2, NextKey, At, Writing
  <2> QED BY <2>1, CallsFacts, AnswerStep
<1>2. CASE Get(t)
  <2>1. PICK r : Return(t, IF key[t] \in KeysOf(buckets) THEN DictOf(buckets)[key[t]]
                                                         ELSE Absent, r)
    BY <1>2, GetStep
  <2>2. AbsDict' = AbsDict /\ fault = "none" /\ fault' = fault /\ pc[t] = "get"
    BY <1>2, GetStep, MapFacts DEF Get, At
  <2>3. D!Get(t)
    BY <1>1, <2>1, <2>2, MapFacts DEF D!Get
  <2> QED BY <2>2, <2>3, ActFacts DEF Acts
<1>3. CASE Get2(t)
  <2>1. PICK a \in Stored \cup {Absent}, r \in BOOLEAN : Return(t, a, r)
    BY <1>3, Get2Step
  <2>2. AbsDict' = AbsDict /\ fault = "none" /\ fault' = fault /\ pc[t] = "get2"
    BY <1>3, Get2Step, MapFacts DEF Get2, At
  <2>3. D!AnyGet2(t)
    BY <1>1, <2>1, <2>2 DEF D!AnyGet2
  <2> QED BY <2>2, <2>3, ActFacts DEF Acts
<1>4. CASE NextKey(t)
  <2>1. PICK a \in (KeysOf(buckets) \ {key[t]}) \cup {Absent} : Return(t, a, FALSE)
    BY <1>4, NextKeyStep
  <2>2. AbsDict' = AbsDict /\ fault = "none" /\ fault' = fault /\ pc[t] = "next"
    BY <1>4, NextKeyStep, MapFacts DEF NextKey, At
  <2>3. D!NextKey(t)
    BY <1>1, <2>1, <2>2, MapFacts DEF D!NextKey
  <2> QED BY <2>2, <2>3, ActFacts DEF Acts
<1> QED BY <1>2, <1>3, <1>4

(* A step of an idle thread that only has an answer for it.                 *)
LEMMA IdleAnswer ==
  ASSUME IInv, NEW t \in Threads, pc[t] = "idle", UNCHANGED <<pc, key, val>>, NEW a, NEW r,
         Answer(t, a, r)
  PROVE  D!Answer(t, a) /\ AbsCall[t] = "idle"
<1>1. "idle" \notin Writing
  BY DEF Writing
<1>2. Return(t, a, r)
  BY DEF Return, Goto, IInv, TypeOK, CallInv
<1> QED BY <1>1, <1>2, AnswerStep, CallsFacts

(* Removal, and an answer forgotten, are the dictionary's.                  *)
LEMMA IdleMaps ==
  ASSUME IInv, NEW t \in Threads, Forget(t) \/ \E k \in Keys : RemoveKey(t, k)
  PROVE  D!NextButGet2
<1>1. CASE Forget(t)
  <2>1. /\ fault = "none" /\ fault' = fault /\ pc[t] = "idle"
        /\ UNCHANGED <<pc, key, val, buckets>> /\ Answer(t, Pending, FALSE)
    BY <1>1 DEF Forget, At, tableVars
  <2>2. AbsDict' = AbsDict
    BY <2>1, MapFacts
  <2>3. D!Forget(t)
    BY <2>1, <2>2, IdleAnswer DEF D!Forget
  <2> QED BY <2>1, <2>3, ActFacts DEF Acts
<1>2. ASSUME NEW k \in Keys, RemoveKey(t, k) PROVE D!NextButGet2
  <2>1. /\ fault = "none" /\ fault' = fault /\ pc[t] = "idle" /\ UNCHANGED <<pc, key, val>>
        /\ Answer(t, Done, FALSE) /\ DictOf(buckets') = Dropped(DictOf(buckets), k)
    BY <1>2, RemoveStep DEF RemoveKey, At
  <2>2. AbsDict' = [x \in DOMAIN AbsDict \ {k} |-> AbsDict[x]]
    BY <2>1, MapFacts DEF Dropped
  <2>3. D!Remove(t, k)
    BY <2>1, <2>2, IdleAnswer DEF D!Remove
  <2> QED BY <2>1, <2>3, ActFacts DEF Acts
<1> QED BY <1>1, <1>2

(* A call that begins is the dictionary's question.                         *)
LEMMA AskMaps ==
  ASSUME IInv, NEW t \in Threads,
         \/ \E k \in Keys : \/ \E v \in Stored : SetBegin(t, k, v)
                            \/ ReadBegin(t, "get", k)
                            \/ ReadBegin(t, "get2", k)
         \/ \E k \in {Absent} \cup ({answer[t]} \cap Keys) : ReadBegin(t, "next", k)
  PROVE  D!NextButGet2
<1>1. Writing = {"resize", "table", "insert"}
  BY DEF Writing
<1>2. ASSUME NEW k \in Keys, NEW v \in Stored, SetBegin(t, k, v) PROVE D!NextButGet2
  <2>1. PICK p \in {"resize", "insert"} : Begin(t, p, k, v)
    BY <1>2 DEF SetBegin
  <2>2. pc[t] = "idle" /\ fault = "none" /\ fault' = fault /\ buckets' = buckets
    BY <1>2 DEF SetBegin, At, tableVars
  <2>3. D!Ask(t, "set", k, v)
    BY <1>1, <2>1, <2>2, AskStep
  <2> QED BY <2>2, <2>3, ActFacts DEF Acts
<1>3. ASSUME NEW c \in {"get", "get2", "next"}, NEW k \in Keys \cup {Absent}, ReadBegin(t, c, k)
      PROVE  /\ D!Ask(t, c, k, Absent) /\ fault = "none" /\ fault' = fault
  <2>1. /\ Begin(t, c, k, Absent) /\ pc[t] = "idle" /\ buckets' = buckets
        /\ fault = "none" /\ fault' = fault
    BY <1>3 DEF ReadBegin, At, tableVars
  <2> QED BY <1>1, <2>1, AskStep
<1>4. ASSUME NEW k \in Keys, ReadBegin(t, "get", k) PROVE D!NextButGet2
  BY <1>3, <1>4, ActFacts DEF Acts
<1>5. ASSUME NEW k \in Keys, ReadBegin(t, "get2", k) PROVE D!NextButGet2
  BY <1>3, <1>5, ActFacts DEF Acts
<1>6. ASSUME NEW k \in {Absent} \cup ({answer[t]} \cap Keys), ReadBegin(t, "next", k)
      PROVE  D!NextButGet2
  BY <1>3, <1>6, ActFacts DEF Acts
<1> QED BY <1>2, <1>4, <1>5, <1>6

(* Every step is one of the dictionary's, or is not seen.                   *)
LEMMA StepMaps == ASSUME IInv, [Next]_vars PROVE [D!NextButGet2]_(D!vars)
<1> SUFFICES D!NextButGet2 \/ UNCHANGED D!vars
  OBVIOUS
<1>1. ASSUME UNCHANGED <<buckets, pc, key, val, answer>> PROVE UNCHANGED D!vars
  <2>1. AbsCall' = AbsCall
    BY <1>1 DEF AbsCall
  <2> QED BY <1>1, <2>1, UnseenFacts
<1>2. CASE UNCHANGED vars
  BY <1>1, <1>2 DEF vars, tableVars, threadVars
<1>3. ASSUME NEW n \in Capacities, NewTable(n) PROVE UNCHANGED D!vars
  BY <1>1, <1>3 DEF NewTable, threadVars
<1>4. ASSUME NEW o \in Stored, Collect(o) PROVE UNCHANGED D!vars
  BY <1>1, <1>4 DEF Collect, tableVars, threadVars
<1>5. ASSUME NEW t \in Threads, ThreadStep(t) PROVE D!NextButGet2 \/ UNCHANGED D!vars
  <2>1. CASE \/ \E k \in Keys : \/ \E v \in Stored : SetBegin(t, k, v)
                                \/ ReadBegin(t, "get", k)
                                \/ ReadBegin(t, "get2", k)
             \/ \E k \in {Absent} \cup ({answer[t]} \cap Keys) : ReadBegin(t, "next", k)
    BY <2>1, AskMaps
  <2>2. CASE Forget(t) \/ \E k \in Keys : RemoveKey(t, k)
    BY <2>2, IdleMaps
  <2>3. CASE Get(t) \/ Get2(t) \/ NextKey(t)
    BY <2>3, LookupMaps
  <2>4. CASE Resize(t) \/ ResizeRefused(t) \/ WriteTable(t) \/ Insert(t) \/ InsertLost(t)
    BY <2>4, SetMaps
  <2> QED BY <1>5, <2>1, <2>2, <2>3, <2>4 DEF ThreadStep
<1> QED BY <1>2, <1>3, <1>4, <1>5 DEF Next, ThreadStep

(* As long as the process lasts the table implements a finite map: whatever *)
(* threads do at once, each call but get2 is answered in one step as if it  *)
(* had the map for itself, through every resize.                           *)
THEOREM Refinement == Spec => Implements
<1>1. Init => D!Init
  <2> SUFFICES ASSUME Init PROVE D!Init
    OBVIOUS
  <2>1. AllKeys = {}
    BY DEF Init, AllKeys, AllPairs
  <2>2. AbsDict = [k \in {} |-> Absent]
    BY <2>1 DEF AbsDict
  <2>3. AbsCall = [t \in Threads |-> "idle"]
    BY DEF AbsCall, Init
  <2> QED BY <2>2, <2>3 DEF Init, D!Init
<1>2. IInv /\ [Next]_vars => [D!NextButGet2]_(D!vars)
  BY StepMaps
<1> QED BY <1>1, <1>2, Inductive, PTL DEF Spec, Implements, D!SpecButGet2
==============================================================================
