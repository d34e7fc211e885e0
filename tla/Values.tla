-------------------------------- MODULE Values --------------------------------
(***************************************************************************)
(* The values of FluffyVM: src/src/value.c.  A value is <<type, data>>, as  *)
(* struct value is a tag and a union.                                      *)
(*                                                                         *)
(* Numbers have a width, so that they wrap and their bits can be compared;  *)
(* a double is a sign and the bits of its magnitude (without NaN and        *)
(* infinities, and whole).  A text is <<format, argument>>: what was        *)
(* printed, never its characters.  What the C library or the processor      *)
(* computes is a CONSTANT.                                                 *)
(***************************************************************************)
EXTENDS Integers

CONSTANTS
  LongMax,                \* the largest fluffyvm_integer
  MayRunOut,              \* TRUE: an allocation may fail
  Hash(_),                \* external: hashing_hash_default, of some bytes
  Strtod(_),              \* external: the bits of a text's magnitude, or -1 for none
  DoubleArith(_, _, _),   \* external: arithmetic on doubles
  Magnitude(_),           \* external: the number that the bits of a magnitude mean
  Nearest(_),             \* external: the bits of the double nearest to a number
  MaxExact                \* external: up to it every number is a double, 2^53

ASSUME WidthAssumption == LongMax \in Nat /\ MayRunOut \in BOOLEAN

Longs   == -(LongMax + 1) .. LongMax
Doubles == [neg : BOOLEAN, mag : 0..LongMax]

(* The bits of magnitudes are in the order of what they mean.  A long may   *)
(* have more digits than a double: only up to MaxExact is none rounded.     *)
ASSUME DoubleAssumption ==
  /\ MaxExact \in Nat
  /\ \A m \in 0..LongMax : Magnitude(m) \in Nat /\ \A n \in 0..m-1 : Magnitude(n) < Magnitude(m)
  /\ \A n \in 0..LongMax+1 :
       Nearest(n) \in 0..LongMax /\ (n <= MaxExact => Magnitude(Nearest(n)) = n)
  /\ \A op \in {"+", "-", "*", "/", "%", "^"}, x, y \in Doubles : DoubleArith(op, x, y) \in Doubles

TypeOf(v) == v[1]
DataOf(v) == v[2]

Absent == <<"absent", 0>>
Nil    == <<"nil", 0>>
Long(n)        == <<"long", n>>
Bool(b)        == <<"bool", b>>
Closure(c)     == <<"closure", c>>
Coroutine(c)   == <<"coroutine", c>>
Table(t)       == <<"table", t>>
String(text)   == <<"string", text>>
Double(neg, mag) == <<"double", [neg |-> neg, mag |-> mag]>>
(* data and dataObj of struct value_userdata.  That of a collectable one is *)
(* never written (196-204): ptr is then whatever malloc left there.        *)
Userdata(kind, ptr, obj) == <<kind, [ptr |-> ptr, obj |-> obj]>>

UserdataTypes == {"light", "full", "collectable"}
ObjectTypes   == UserdataTypes \cup {"string", "table", "closure", "coroutine"}
NumericTypes  == {"long", "double"}
IsNumeric(v)  == TypeOf(v) \in NumericTypes
IsCallable(v) == TypeOf(v) = "closure"
IsIndexable(v) == TypeOf(v) = "table"

(* What the collector knows of a value: its object, if it has one.         *)
HasObject(v) == TypeOf(v) \in ObjectTypes

(* What an operation answers: status "ok", "error" or "crash", the value,   *)
(* and the message it leaves in the error slot (Absent: the slot is left).  *)
Ok(v)      == [status |-> "ok", val |-> v, msg |-> Absent]
Fail(msg)  == [status |-> "error", val |-> Absent, msg |-> msg]
Crash      == [status |-> "crash", val |-> Absent, msg |-> Absent]
Message(m) == String(<<"%s", m>>)
OutOfMemory == Message("out of memory")

(* An object that is made, or is not.                                      *)
Allocated(v) ==
  {Ok(v)} \cup IF MayRunOut THEN {Fail(OutOfMemory)} ELSE {}

(* value_new_light_userdata writes through the userdata it may not have.   *)
NewLight(ptr, obj) ==
  {Ok(Userdata("light", ptr, obj))} \cup IF MayRunOut THEN {Crash} ELSE {}
-----------------------------------------------------------------------------
Abs(n)    == IF n < 0 THEN -n ELSE n
Number(d) == IF d.neg THEN -Magnitude(d.mag) ELSE Magnitude(d.mag)
(* A double's bits, read as a long.                                        *)
Bits(d) == IF d.neg THEN d.mag - (LongMax + 1) ELSE d.mag

(* The bytes value_hash_code gives to the hash function; those of a long, a *)
(* double and a pointer are eight each, whatever the type.                 *)
HashedBytes(v) ==
  CASE TypeOf(v) = "double" -> <<"word", Bits(DataOf(v))>>
    [] TypeOf(v) = "long" -> <<"word", DataOf(v)>>
    [] TypeOf(v) \in UserdataTypes -> <<"pointer", DataOf(v).ptr>>
    [] TypeOf(v) \in {"table", "closure", "coroutine"} -> <<"pointer", DataOf(v)>>
    [] OTHER -> <<TypeOf(v), DataOf(v)>>
HashCode(v) == IF v = Nil THEN 0 ELSE Hash(HashedBytes(v))

(* What value_equals compares when the types are the same.                 *)
Identity(v) ==
  CASE TypeOf(v) = "double" -> Number(DataOf(v))
    [] TypeOf(v) \in {"light", "full"} -> DataOf(v).ptr
    [] TypeOf(v) = "collectable" -> DataOf(v).obj
    [] OTHER -> DataOf(v)
Equals(a, b) == TypeOf(a) = TypeOf(b) /\ Identity(a) = Identity(b)

(* value_get_unique_ptr: NULL (0) for what is no object.                   *)
UniquePtr(v) ==
  IF HasObject(v) THEN <<TypeOf(v), Identity(v)>> ELSE <<"null", 0>>
-----------------------------------------------------------------------------
(* value_tostring.  Both booleans read "true" (378-384).                   *)
TextOf(v) ==
  CASE TypeOf(v) = "string" -> {Ok(v)}
    [] TypeOf(v) = "bool" -> {Ok(Message("true"))}
    [] TypeOf(v) = "nil" -> {Ok(Message("nil"))}
    [] TypeOf(v) = "long" -> Allocated(String(<<"%ld", DataOf(v)>>))
    [] TypeOf(v) = "double" -> Allocated(String(<<"%lf", DataOf(v)>>))
    [] OTHER -> Allocated(String(<<"0x%p", UniquePtr(v)>>))

(* A long is cast: the nearest double.                                     *)
ToDouble(v) ==
  CASE TypeOf(v) = "double" -> Ok(v)
    [] TypeOf(v) = "long" -> Ok(Double(DataOf(v) < 0, Nearest(Abs(DataOf(v)))))
    [] TypeOf(v) = "string" ->
         IF Strtod(DataOf(v)) >= 0 THEN Ok(Double(FALSE, Strtod(DataOf(v))))
         ELSE Fail(Message("strtod did not process all the data"))
    [] OTHER -> Fail(Absent)

(* typenames_... of vm->staticStrings.                                     *)
TypeName(v) ==
  CASE TypeOf(v) \in UserdataTypes -> "userdata"
    [] TypeOf(v) = "closure" -> "function"
    [] TypeOf(v) = "bool" -> "boolean"
    [] OTHER -> TypeOf(v)
-----------------------------------------------------------------------------
(* Arithmetic on longs wraps; division truncates, and traps on zero and     *)
(* when its result has no representation.                                  *)
Wrap(n) == ((n + LongMax + 1) % (2 * (LongMax + 1))) - (LongMax + 1)
Quotient(a, b) ==
  LET q == Abs(a) \div Abs(b) IN IF (a < 0) = (b < 0) THEN q ELSE -q
Traps(a, b) == b = 0 \/ (b = -1 /\ a = -(LongMax + 1))

(* mathCommon: two of a kind, or two doubles.                              *)
Coerce(a, b) ==
  IF TypeOf(a) = TypeOf(b) THEN <<a, b>>
  ELSE <<ToDouble(a).val, ToDouble(b).val>>

BadOperands(a, b) == String(<<"operation on %s and %s", <<TypeName(a), TypeName(b)>> >>)

Math(op, a, b) ==
  LET x == DataOf(Coerce(a, b)[1])
      y == DataOf(Coerce(a, b)[2])
  IN  IF ~IsNumeric(a) \/ ~IsNumeric(b)
      THEN Fail(BadOperands(a, b))
      ELSE IF TypeOf(a) = "double" \/ TypeOf(b) = "double"
      THEN Ok(<<"double", DoubleArith(op, x, y)>>)
      ELSE CASE op = "+" -> Ok(Long(Wrap(x + y)))
             [] op = "-" -> Ok(Long(Wrap(x - y)))
             [] op = "*" -> Ok(Long(Wrap(x * y)))
             [] op = "^" -> Ok(<<"double", DoubleArith(op, ToDouble(a).val[2], ToDouble(b).val[2])>>)
             [] op \in {"/", "%"} ->
                  IF Traps(x, y) THEN Crash
                  ELSE Ok(Long(IF op = "/" THEN Quotient(x, y)
                                           ELSE x - y * Quotient(x, y)))

(* value_is_less: the bits of doubles are compared as longs (883-884).     *)
IsLess(a, b) ==
  LET c == Coerce(a, b)
  IN  IF ~IsNumeric(a) \/ ~IsNumeric(b)
      THEN Fail(BadOperands(a, b))
      ELSE IF TypeOf(c[1]) = "long" THEN Ok(Bool(DataOf(c[1]) < DataOf(c[2])))
      ELSE Ok(Bool(Bits(DataOf(c[1])) < Bits(DataOf(c[2]))))
===============================================================================
