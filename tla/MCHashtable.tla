----------------------------- MODULE MCHashtable -----------------------------
EXTENDS Hashtable

MCHash(bytes) ==
  IF bytes[1] = "word" THEN bytes[2] ELSE IF bytes[1] = "string" THEN 6 ELSE 3
MCStrtod(text) == -1
MCDoubleArith(op, x, y) == [neg |-> FALSE, mag |-> 0]
MCMagnitude(bits) == bits
MCNearest(n) == IF n > LongMax THEN LongMax ELSE n

Name == String(<<"%s", "name">>)
MCKeys == {Long(1), Long(4), Double(FALSE, 4), Name}
MCStored == {Closure(1), Nil}

Symmetry == Permutations(Threads)
=============================================================================
