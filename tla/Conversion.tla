------------------------------ MODULE Conversion ------------------------------
(***************************************************************************)
(* XJSConvert: values between C types and JS.  Numbers are converted for   *)
(* what they are, in narrow words; of other values it matters whether they *)
(* convert, and what their conversion does besides.                        *)
(***************************************************************************)
EXTENDS Integers

CONSTANTS
  CharBits, ShortBits, IntBits, LongBits,   \* sizeof the C types, in bits
  Mantissa                                  \* whole numbers of that many bits are exact in a double

ASSUME BitsAssumption ==
  /\ CharBits \in Nat /\ ShortBits \in Nat /\ IntBits \in Nat
  /\ LongBits \in Nat /\ Mantissa \in Nat
  /\ 1 < CharBits /\ CharBits < ShortBits /\ ShortBits < IntBits
  /\ IntBits <= Mantissa /\ Mantissa < LongBits

Narrow == {"char", "uchar", "short", "ushort"}
NumberType == Narrow \cup {"int", "uint", "long", "ulong"}   \* q and Q are l and L
IsUnsigned(type) == type \in {"uchar", "ushort", "uint", "ulong"}
Bits(type) == CASE type \in {"char", "uchar"} -> CharBits
                [] type \in {"short", "ushort"} -> ShortBits
                [] type \in {"int", "uint"} -> IntBits
                [] type \in {"long", "ulong"} -> LongBits

\* The low bits of a number, read without and with a sign.
Unsigned(n, bits) == n % (2 ^ bits)
Signed(n, bits) ==
  LET u == Unsigned(n, bits) IN IF u < 2 ^ (bits - 1) THEN u ELSE u - 2 ^ bits

Read(n, type) == IF IsUnsigned(type) THEN Unsigned(n, Bits(type)) ELSE Signed(n, Bits(type))
NativeNumbers(type) == {Read(n, type) : n \in 0..(2 ^ Bits(type) - 1)}

Magnitude(n) == IF n < 0 THEN -n ELSE n

\* double(n): the nearest multiple of the last place, the even one of two.
Double(n) ==
  LET e == CHOOSE e \in 0..LongBits : Magnitude(n) < 2 ^ (Mantissa + e)
                                      /\ \A d \in 0..(e - 1) : Magnitude(n) >= 2 ^ (Mantissa + d)
      unit == 2 ^ e
      down == Magnitude(n) \div unit
      rest == 2 * (Magnitude(n) % unit)
      near == IF rest > unit \/ (rest = unit /\ down % 2 = 1) THEN down + 1 ELSE down IN
    IF n < 0 THEN -(near * unit) ELSE near * unit

\* Values in JS: numbers, and what a BOOL becomes.
JSNumber(n) == [is |-> "number", n |-> n]
JSBoolean(n) == [is |-> "boolean", n |-> n]

\* XJSValueFromType for a number.  A char that is YES or NO is taken for a BOOL; chars
\* and shorts are read with the sign of the other kind.
NumberFromType(type, n) ==
  CASE type = "char" /\ n \in {0, 1} -> JSBoolean(n)
    [] type \in {"char", "short"}    -> JSNumber(Unsigned(n, Bits(type)))
    [] type \in {"uchar", "ushort"}  -> JSNumber(Signed(n, Bits(type)))
    [] OTHER                         -> JSNumber(Double(n))

\* XJSValueToType for a number: ToInt32 or ToInt64 takes the low bits, a cast those of
\* the type.
NumberToTypeByInt32(type, js) == Read(Signed(js.n, IntBits), type)
NumberToType(type, js) ==
  Read(Signed(js.n, IF type \in Narrow \cup {"int"} THEN IntBits ELSE LongBits), type)

-----------------------------------------------------------------------------
\* Encodings: numbers; selectors and strings of chars; @ and #; ^; {; and the unsupported
\* ones.
TypeClass == {"number", "string", "object", "pointer", "struct", "unsupported"}

\* JS values: null or undefined, zero, another primitive, an object, an object whose
\* valueOf or getters throw.
Value == {"null", "zero", "primitive", "object", "hostile"}

Outcomes == [converted : BOOLEAN, failure : BOOLEAN]
Outcome(converted, failure) == [converted |-> converted, failure |-> failure]

\* -[XJSValue toObject]: null and undefined are nil.  An array or a dictionary goes on
\* without the elements whose getters throw, and a date whose getTime throws is nil;
\* the exception is left pending.
ObjectToType(value) ==
  IF value = "hostile" THEN {Outcome(c, TRUE) : c \in BOOLEAN}
  ELSE {Outcome(value # "null", FALSE)}

\* XJSValueToStruct: an object, with every field of the metadata, all of them convertible.
StructToType(value) ==
  CASE value = "object"  -> {Outcome(c, FALSE) : c \in BOOLEAN}
    [] value = "hostile" -> {Outcome(TRUE, TRUE)} \cup {Outcome(FALSE, f) : f \in BOOLEAN}
    [] OTHER             -> {Outcome(FALSE, FALSE)}

\* XJSValueToType: whether there is a value, and whether code of the script it ran has
\* thrown; a number reads 0 then, and the exception is left pending.  A string has no
\* outcome then: JS_ValueToString answers NULL, JS_EncodeStringToUTF8 reads the string it
\* is given, and the process ends there.
ToType(value, class) ==
  {out \in Outcomes :
     /\ class = "number" => out = Outcome(TRUE, value = "hostile")
     /\ class = "string" => value # "hostile" /\ out = Outcome(TRUE, FALSE)
     /\ class = "object" => out \in ObjectToType(value)
     /\ class = "pointer" => out = Outcome(value \in {"null", "zero"}, FALSE)
     /\ class = "struct" => out \in StructToType(value)
     /\ class = "unsupported" => out = Outcome(FALSE, FALSE)}

\* XJSToValue: what it raises for an object of the program that cannot become a JS value.
\* "convertible" says that there is none among those that native code hands over: the
\* context has a runtime entry object with a constructor for the object's class, and an
\* XJSValue is a primitive or belongs to the runtime of the context it goes to.
ObjectFromType(convertible) ==
  {Outcome(TRUE, FALSE)} \cup (IF convertible THEN {} ELSE {Outcome(FALSE, TRUE)})

\* XJSValueFromStruct: not without metadata, nor with a field that does not convert.
StructFromType(convertible) == ObjectFromType(convertible) \cup {Outcome(FALSE, FALSE)}

\* XJSValueFromType: of the pointers only NULL converts.
FromType(class, convertible) ==
  {out \in Outcomes :
     /\ class \in {"number", "string"} => out = Outcome(TRUE, FALSE)
     /\ class = "object" => out \in ObjectFromType(convertible)
     /\ class = "pointer" => ~out.failure
     /\ class = "struct" => out \in StructFromType(convertible)
     /\ class = "unsupported" => out = Outcome(FALSE, FALSE)}
=============================================================================
