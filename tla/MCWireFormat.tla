---------------------------- MODULE MCWireFormat ----------------------------
(***************************************************************************)
(* WireFormat for model checking: the items that are written.              *)
(***************************************************************************)
EXTENDS WireFormat

(* The ends of a type's range, its sign change and a number in between.    *)
Numbers(t) ==
  LET m == Bytes(SizeOf[t])
  IN  IF t \in Signed THEN {-(m \div 2), -1, 0, 1, (m \div 2) - 1} ELSE {0, 1, m \div 2, m - 1}
Strings == {<<>>, <<1>>, <<1, 1>>}
Sample(t) == IF t = "bool" THEN BOOLEAN ELSE IF t = "String" THEN Strings ELSE Numbers(t)

ScalarItems(t) ==
  { [kind |-> "metric", type |-> t, vec |-> FALSE, dt |-> dt, value |-> v] :
      dt \in ToSet(SupportedDatatypes(t, FALSE)), v \in Sample(t) }
VecItems(t, lengths) ==
  { [kind |-> "metric", type |-> t, vec |-> TRUE, dt |-> dt, value |-> v] :
      dt \in ToSet(SupportedDatatypes(t, TRUE)), v \in UNION { [1..n -> Sample(t)] : n \in lengths } }

(* Arrays of booleans whose last byte is not full. *)
PartialBools == VecItems("bool", { n \in 0..5 : n = 0 \/ n % ByteBits # 0 })

Field(name, type, dt, option, skip) ==
  [name |-> name, type |-> type, dt |-> dt, option |-> option, skip |-> skip]

(* A narrow signed and an optional column and a skipped field; optional    *)
(* unsigned and wide columns; a type the macro refuses.                    *)
SignedRow == << Field("a", "i8", "Int8", FALSE, FALSE), Field("b", "u16", "UInt16", FALSE, TRUE),
                Field("c", "String", "Text", TRUE, FALSE) >>
UnsignedRow == << Field("a", "u8", "UInt8", TRUE, FALSE), Field("b", "i16", "Int16", FALSE, FALSE) >>
WideRow == << Field("a", "i64", "Int64", FALSE, FALSE), Field("b", "bool", "Boolean", TRUE, FALSE) >>
RefusedRow == << Field("a", "i8", "Text", FALSE, FALSE), Field("b", "i8", "Int8", FALSE, FALSE) >>

SomeOf(S) == { Some(v) : v \in S }
SignedRows == { <<a, b, c>> : a \in SomeOf(Numbers("i8")), b \in {Some(1)},
                              c \in {None} \cup SomeOf(Strings) }
UnsignedRows == { <<a, b>> : a \in {None} \cup SomeOf(Numbers("u8")), b \in SomeOf(Numbers("i16")) }
WideRows == { <<a, b>> : a \in SomeOf(Numbers("i64")), b \in {None} \cup SomeOf(BOOLEAN) }
RowItems(fields, rows) ==
  { [kind |-> "rows", fields |-> fields, rows |-> r] :
      r \in {<<>>} \cup {<<x>> : x \in rows} \cup {<<CHOOSE x \in rows : TRUE, y>> : y \in rows} }

PropertyItems(type, values) ==
  { [kind |-> "properties", quality |-> q, key |-> "unit", type |-> type, value |-> v] :
      q \in DOMAIN Qualities, v \in {None} \cup SomeOf(values) }

MessageItems ==
  { [kind |-> "message", host |-> None, group |-> g, verb |-> v, node |-> "n", device |-> d,
     decode |-> c, payload |-> [is |-> "Payload"]] :
      c \in BOOLEAN, g \in {"g", "NBIRTH", "+"}, v \in {"BIRTH", "DEATH", "DATA", "CMD"}, d \in {None, Some("d"), Some("")} }
StateItems ==
  { [kind |-> "message", host |-> Some(h), decode |-> TRUE, payload |-> StateDocument(o, 7)] :
      h \in {"h", "NBIRTH"}, o \in BOOLEAN }

RECURSIVE Listed(_, _)
Listed(F(_), S) == IF S = {} THEN <<>>
                   ELSE LET x == CHOOSE x \in S : TRUE IN <<F(x)>> \o Listed(F, S \ {x})

MCItems ==
  Listed(ScalarItems, Scalar)
    \o Listed(LAMBDA t : VecItems(t, 0..2), Scalar \ {"bool"})
    \o << PartialBools,
          RowItems(SignedRow, SignedRows), RowItems(UnsignedRow, UnsignedRows),
          RowItems(WideRow, WideRows), RowItems(RefusedRow, {}),
          PropertyItems("i8", Numbers("i8")), PropertyItems("String", Strings),
          MessageItems, StateItems >>

(* Arrays of booleans of every small length. *)
MCBools == << VecItems("bool", 0..(2 * ByteBits)) >>

MCFilters == {FilterAll, FilterState} \cup {FilterGroup(g) : g \in {"g", "NBIRTH"}}
               \cup {FilterNode(g, n) : g \in {"g", "NBIRTH"}, n \in {"n", "d"}}

MCElements ==
  << { [f |-> "int", v |-> n] : n \in {0, 1, Byte - 1, Byte, Byte ^ 2 - 1, Byte ^ 2, Bytes(4) - Byte,
                                      Bytes(4) - 1} },
     { [f |-> "long", v |-> n] : n \in {0, Byte} }, {None},
     { [f |-> "string", v |-> <<1>>] }, { [f |-> "boolean", v |-> TRUE] } >>
=============================================================================
