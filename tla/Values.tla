------------------------------- MODULE Values -------------------------------
(***************************************************************************)
(* How a Rust value becomes a value of the Sparkplug payload and what is   *)
(* read back from one (srad-types/src/value.rs, payload.rs, quality.rs).   *)
(*                                                                         *)
(* The code's bytes have 8 bits; here they have ByteBits, so that every    *)
(* width of the code (1, 2, 4 and 8 bytes) is present and small.  A float  *)
(* is its bit pattern and a string is the sequence of its bytes, of which  *)
(* the upper half are not UTF-8 on their own.                              *)
(***************************************************************************)
EXTENDS Integers, SequencesExt

CONSTANT ByteBits
ASSUME ByteBitsAssumption == ByteBits \in Nat \ {0}

Byte == 2 ^ ByteBits
Bytes(n) == 2 ^ (n * ByteBits)      \* how many values n bytes hold

Ok(v)  == [ok |-> TRUE, v |-> v]
Err(e) == [ok |-> FALSE, e |-> e]
IfOk(r, F(_)) == IF r.ok THEN F(r.v) ELSE r

SizeOf == [u8 |-> 1, i8 |-> 1, u16 |-> 2, i16 |-> 2, u32 |-> 4, i32 |-> 4,
           u64 |-> 8, i64 |-> 8, f32 |-> 4, f64 |-> 8, DateTime |-> 8]
Signed == {"i8", "i16", "i32", "i64"}
Narrow == {"u8", "u16", "u32"} \cup (Signed \ {"i64"})      \* carried in an int field
Scalar == DOMAIN SizeOf \cup {"bool", "String"}

(* The field of the payload value that a scalar type is written to.  All   *)
(* four value wrappers (metric, property, data set, parameter) agree.      *)
FieldOf(t) ==
  CASE t \in Narrow -> "int"
    [] t \in {"u64", "i64", "DateTime"} -> "long"
    [] t = "f32" -> "float"
    [] t = "f64" -> "double"
    [] t = "bool" -> "boolean"
    [] t = "String" -> "string"

(* The width of a field, in the code's bytes. *)
FieldSize(f) == IF f \in {"int", "float"} THEN 4 ELSE 8

(* HasDataType: the default datatype comes first. *)
SupportedDatatypes(t, vec) ==
  IF vec
  THEN CASE t = "bool" -> <<"BooleanArray">>
         [] t = "u8"   -> <<"UInt8Array", "Bytes">>
         [] OTHER -> << [u16 |-> "UInt16Array", u32 |-> "UInt32Array", u64 |-> "UInt64Array",
                         i8 |-> "Int8Array", i16 |-> "Int16Array", i32 |-> "Int32Array",
                         i64 |-> "Int64Array", f32 |-> "FloatArray", f64 |-> "DoubleArray",
                         DateTime |-> "DateTimeArray", String |-> "StringArray"][t] >>
  ELSE IF t = "String" THEN <<"String", "Text", "Uuid">>
  ELSE << [bool |-> "Boolean", u8 |-> "UInt8", u16 |-> "UInt16", u32 |-> "UInt32",
           u64 |-> "UInt64", i8 |-> "Int8", i16 |-> "Int16", i32 |-> "Int32",
           i64 |-> "Int64", f32 |-> "Float", f64 |-> "Double", DateTime |-> "DateTime"][t] >>

-----------------------------------------------------------------------------
(* Scalars *)

(* The cast `as` into the width of a field: signed types are sign-extended. *)
ToProto(t, v) ==
  IF t \in Signed THEN v % Bytes(FieldSize(FieldOf(t))) ELSE v

(* Mutant of FromProto: the sign of a narrow integer is not restored.      *)
FromProtoUnsigned(t, v) == IF t \in DOMAIN SizeOf THEN v % Bytes(SizeOf[t]) ELSE v

(* The cast `as` out of a field: what does not fit is cut off. *)
FromProto(t, v) ==
  IF t \notin DOMAIN SizeOf THEN v
  ELSE LET low == v % Bytes(SizeOf[t])
       IN  IF t \in Signed /\ 2 * low >= Bytes(SizeOf[t]) THEN low - Bytes(SizeOf[t]) ELSE low

ToValue(t, v) == [f |-> FieldOf(t), v |-> ToProto(t, v)]
TryFromValue(t, p) ==
  IF p.f = FieldOf(t) THEN Ok(FromProto(t, p.v)) ELSE Err("InvalidVariantType")

-----------------------------------------------------------------------------
(* Arrays *)

LittleEndian(v, n) == [i \in 1..n |-> (v \div Byte ^ (i - 1)) % Byte]
FromLittleEndian(bytes) == FoldRight(LAMBDA b, acc : b + Byte * acc, bytes, 0)

DivCeil(n, k) == (n + k - 1) \div k
Chunks(s, k) == [i \in 1..DivCeil(Len(s), k) |->
                   SubSeq(s, (i - 1) * k + 1, IF i * k < Len(s) THEN i * k ELSE Len(s))]

NumberVecToProto(t, vec) ==
  FlattenSeq([i \in DOMAIN vec |-> LittleEndian(vec[i] % Bytes(SizeOf[t]), SizeOf[t])])
ProtoToNumberVec(t, bytes) ==
  IF Len(bytes) % SizeOf[t] # 0 THEN Err("InvalidFormat")
  ELSE LET elements == Chunks(bytes, SizeOf[t])
       IN  Ok([i \in DOMAIN elements |-> FromProto(t, FromLittleEndian(elements[i]))])

(* The first bool is the highest bit of its byte. *)
PackByte(bools) ==
  FoldRight(LAMBDA i, acc : acc + 2 ^ (ByteBits - i),
            SelectSeq([i \in DOMAIN bools |-> i], LAMBDA i : bools[i]), 0)
Bits(byte, n) == [i \in 1..n |-> (byte \div 2 ^ (ByteBits - i)) % 2 = 1]

(* A four byte count, then the packed bytes. *)
BoolVecToProto(vec) ==
  LET chunks == Chunks(vec, ByteBits)
  IN  LittleEndian(Len(vec), 4) \o [i \in DOMAIN chunks |-> PackByte(chunks[i])]

(* All but the last byte are unpacked whole; of the last, count % 8 bits,  *)
(* which is none when the count is a multiple of 8.                        *)
ProtoToBoolVec(bytes) ==
  LET count == FromLittleEndian(SubSeq(bytes, 1, 4))
      data  == SubSeq(bytes, 5, Len(bytes))
  IN  IF Len(bytes) < 4 THEN Err("InvalidSize")
      ELSE IF count = 0 THEN Ok(<<>>)
      ELSE IF Len(data) < DivCeil(count, ByteBits) THEN Err("InvalidFormat")
      ELSE Ok(FlattenSeq([i \in 1..(Len(data) - 1) |-> Bits(data[i], ByteBits)])
              \o Bits(data[Len(data)], count % ByteBits))

(* Each string is followed by a zero byte. *)
Utf8(s) == \A i \in DOMAIN s : 2 * s[i] < Byte
StringVecToProto(vec) == FlattenSeq([i \in DOMAIN vec |-> Append(vec[i], 0)])
ProtoToStringVec(bytes) ==
  LET ends    == SelectSeq([i \in DOMAIN bytes |-> i], LAMBDA i : bytes[i] = 0)
      strings == [k \in DOMAIN ends |->
                    SubSeq(bytes, (IF k = 1 THEN 0 ELSE ends[k - 1]) + 1, ends[k] - 1)]
  IN  IF bytes = <<>> THEN Ok(<<>>)
      ELSE IF Last(bytes) # 0 THEN Err("InvalidFormat")
      ELSE IF \E k \in DOMAIN strings : ~Utf8(strings[k]) THEN Err("BadStringElement")
      ELSE Ok(strings)

VecToValue(t, vec) ==
  [f |-> "bytes",
   v |-> CASE t = "bool" -> BoolVecToProto(vec)
           [] t = "String" -> StringVecToProto(vec)
           [] t = "u8" -> vec
           [] OTHER -> NumberVecToProto(t, vec)]
VecTryFromValue(t, p) ==
  IF p.f # "bytes" THEN Err("InvalidVariantType")
  ELSE CASE t = "bool" -> ProtoToBoolVec(p.v)
         [] t = "String" -> ProtoToStringVec(p.v)
         [] t = "u8" -> Ok(p.v)
         [] OTHER -> ProtoToNumberVec(t, p.v)

-----------------------------------------------------------------------------
(* The application's reader: a value and the datatype its birth gave *)

(* Mutant of CoerceIntegerValue: the narrow signed types are forgotten.    *)
CoerceIntegerValueUnsigned(dt, p) ==
  IF p.f = "long" /\ dt \in {"UInt8", "UInt16", "UInt32"} THEN [f |-> "int", v |-> p.v % Bytes(4)]
  ELSE IF p.f = "int" /\ dt \in {"Int64", "UInt64"} THEN [f |-> "long", v |-> p.v] ELSE p

(* An integer may arrive in the wrong one of the two integer fields. *)
CoerceIntegerValue(dt, p) ==
  CASE p.f = "long" /\ dt \in {"Int8", "Int16", "Int32", "UInt8", "UInt16", "UInt32"}
         -> [f |-> "int", v |-> p.v % Bytes(4)]
    [] p.f = "int" /\ dt \in {"Int64", "UInt64"} -> [f |-> "long", v |-> p.v]
    [] OTHER -> p

ScalarDatatypes ==
  [Int8 |-> "i8", Int16 |-> "i16", Int32 |-> "i32", Int64 |-> "i64", UInt8 |-> "u8",
   UInt16 |-> "u16", UInt32 |-> "u32", UInt64 |-> "u64", Float |-> "f32", Double |-> "f64",
   Boolean |-> "bool", String |-> "String", DateTime |-> "DateTime", Text |-> "String",
   Uuid |-> "String"]
VecDatatypes ==
  [Bytes |-> "u8", File |-> "u8", Int8Array |-> "i8", Int16Array |-> "i16",
   Int32Array |-> "i32", Int64Array |-> "i64", UInt8Array |-> "u8", UInt16Array |-> "u16",
   UInt32Array |-> "u32", UInt64Array |-> "u64", FloatArray |-> "f32", DoubleArray |-> "f64",
   BooleanArray |-> "bool", StringArray |-> "String", DateTimeArray |-> "DateTime"]

(* Of a data set or a template the payload is handed on, to the readers of *)
(* DataSets and Templates.  A template that TemplateValue::try_from        *)
(* refuses (Templates.TemplateFromPayload) is an error here in the code.   *)
TryFromMetricValue(dt, p) ==
  LET value == CoerceIntegerValue(dt, p)
      field == [DataSet |-> "dataset", Template |-> "template"]
  IN  CASE dt \in DOMAIN ScalarDatatypes -> TryFromValue(ScalarDatatypes[dt], value)
        [] dt \in DOMAIN VecDatatypes -> VecTryFromValue(VecDatatypes[dt], value)
        [] dt \in DOMAIN field ->
             IF p.f = field[dt] THEN Ok(p.v) ELSE Err("InvalidVariantType")
        [] dt \in {"PropertySet", "PropertySetList"} -> Err("UnsupportedDataType")
        [] OTHER -> Err("InvalidDataType")
=============================================================================
