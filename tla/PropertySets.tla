---------------------------- MODULE PropertySets ----------------------------
(***************************************************************************)
(* Property sets and the quality property (srad-types/src/property_set.rs, *)
(* quality.rs).  A property set maps keys to [value, dt], each Some or     *)
(* None; in the payload it is a list of keys and a list of values, in      *)
(* whatever order the hash map yields them.                                *)
(***************************************************************************)
EXTENDS DataSets

(* The code's quality numbers, 0, 192 and 500, in a field of four bytes.   *)
Qualities == [Good |-> 0, Bad |-> 1, Stale |-> 2]
QualityToValue(q) == ToValue("i32", Qualities[q])
QualityTryFrom(p) ==
  IfOk(TryFromValue("i32", p),
       LAMBDA v : IF \E q \in DOMAIN Qualities : Qualities[q] = v
                  THEN Ok(CHOOSE q \in DOMAIN Qualities : Qualities[q] = v)
                  ELSE Err("InvalidValue"))

NewPropertySet(q) ==
  [k \in {"Quality"} |-> [value |-> Some(QualityToValue(q)), dt |-> Some("Int32")]]
Insert(set, key, type, v) ==
  IF key = "Quality" THEN Err("ReservedQuality")
  ELSE Ok((key :> [value |-> IF v = None THEN None ELSE Some(ToValue(type, v.v)),
                   dt |-> Some(SupportedDatatypes(type, FALSE)[1])]) @@ set)

PropertyToProto(x) ==
  [type |-> x.dt, is_null |-> IF x.value = None THEN Some(TRUE) ELSE None, value |-> x.value]
PropertyFromProto(p) ==
  IF p.value = None /\ p.is_null = None THEN Err("MissingValue")
  ELSE IF p.value = None /\ ~p.is_null.v THEN Err("InvalidNullValue")
  ELSE IF p.type # None /\ p.type.v = "Undefined" THEN Err("InvalidDataType")
  ELSE Ok([value |-> p.value, dt |-> p.type])

PropertySetToProto(set) ==
  { [keys |-> order, values |-> [i \in DOMAIN order |-> PropertyToProto(set[order[i]])]] :
      order \in SetToSeqs(DOMAIN set) }

(* A key that comes twice keeps its last value. *)
PropertySetFromProto(p) ==
  LET values  == Collect([i \in DOMAIN p.values |-> PropertyFromProto(p.values[i])])
      last(k) == CHOOSE i \in DOMAIN p.keys :
                   p.keys[i] = k /\ \A j \in DOMAIN p.keys : p.keys[j] = k => j <= i
  IN  IF Len(p.keys) # Len(p.values) THEN Err("KeyValueCountMismatch")
      ELSE IfOk(values, LAMBDA vs : Ok([k \in ToSet(p.keys) |-> vs[last(k)]]))
=============================================================================
