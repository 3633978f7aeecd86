------------------------------ MODULE DataSets ------------------------------
(***************************************************************************)
(* Typed data sets (srad-types/src/dataset.rs) and the rows the derive     *)
(* macro DataSetRow generates (srad-macros/src/lib.rs).                    *)
(*                                                                         *)
(* A row type is a sequence of fields                                      *)
(*    [name, type, dt, option, skip]                                       *)
(* (dt: the column's datatype, the default of the type or an override) and *)
(* a row gives each field Some(value) or None.                             *)
(***************************************************************************)
EXTENDS Values

None    == [f |-> "none"]
Some(v) == [f |-> "some", v |-> v]

(* A zero of the type: Default::default(). *)
DefaultOf(field) ==
  IF field.option THEN None
  ELSE Some(CASE field.type = "bool" -> FALSE [] field.type = "String" -> <<>> [] OTHER -> 0)

Columns(fields) == SelectSeq(fields, LAMBDA x : ~x.skip)

(* What the macro accepts; the rest is a compile error. *)
Derives(fields) ==
  /\ Columns(fields) # <<>>
  /\ IsInjective([i \in DOMAIN Columns(fields) |-> Columns(fields)[i].name])
  /\ \A i \in DOMAIN Columns(fields) :
       Columns(fields)[i].dt \in ToSet(SupportedDatatypes(Columns(fields)[i].type, FALSE))

(* The first error, or all the values. *)
Collect(results) ==
  IF \A i \in DOMAIN results : results[i].ok
  THEN Ok([i \in DOMAIN results |-> results[i].v])
  ELSE SelectSeq(results, LAMBDA r : ~r.ok)[1]

IntoRow(fields, row) ==
  LET kept == SelectSeq([i \in DOMAIN fields |-> i], LAMBDA i : ~fields[i].skip)
  IN  [k \in DOMAIN kept |->
         IF row[kept[k]] = None THEN None ELSE ToValue(fields[kept[k]].type, row[kept[k]].v)]

(* Mutant of Int8Fits: the range of the next wider type. *)
Int8FitsInt16(v) == v < Bytes(2) \/ v = ToProto("i16", FromProto("i16", v))

(* A narrow signed element is in range zero- or sign-extended. *)
Int8Fits(v) == v < Bytes(1) \/ v = ToProto("i8", FromProto("i8", v))
Int16Fits(v) == v < Bytes(2) \/ v = ToProto("i16", FromProto("i16", v))

DatatypeMatches(dt, p) ==
  CASE dt = "Int8"   -> p.f = "int" /\ Int8Fits(p.v)
    [] dt = "Int16"  -> p.f = "int" /\ Int16Fits(p.v)
    [] dt = "UInt8"  -> p.f = "int" /\ p.v < Bytes(1)
    [] dt = "UInt16" -> p.f = "int" /\ p.v < Bytes(2)
    [] dt \in {"Int32", "UInt32"} -> p.f = "int"
    [] dt \in {"Int64", "UInt64", "DateTime"} -> p.f = "long"
    [] dt \in {"String", "Text", "Uuid"} -> p.f = "string"
    [] dt = "Float" -> p.f = "float"
    [] dt = "Double" -> p.f = "double"
    [] dt = "Boolean" -> p.f = "boolean"
    [] OTHER -> FALSE

DataSetValueTryInto(column, element) ==
  IF element.f = "none"
  THEN IF column.option THEN Ok(None) ELSE Err("ElementValueMissing")
  ELSE IF ~DatatypeMatches(column.dt, element) THEN Err("ElementTypeMismatch")
  ELSE IfOk(TryFromValue(column.type, element), LAMBDA v : Ok(Some(v)))

(* Skipped fields come back as their defaults. *)
TryFromRow(fields, elements) ==
  LET columns == Columns(fields)
      read    == Collect([i \in DOMAIN columns |-> DataSetValueTryInto(columns[i], elements[i])])
      at(i)   == Cardinality({k \in 1..i : ~fields[k].skip})
  IN  IF Len(elements) # Len(columns) THEN Err("RowLengthMismatch")
      ELSE IfOk(read, LAMBDA vs : Ok([i \in DOMAIN fields |->
                        IF fields[i].skip THEN DefaultOf(fields[i]) ELSE vs[at(i)]]))

IntoDataSet(fields, rows) ==
  LET columns == Columns(fields)
  IN  [num |-> Len(columns),
       columns |-> [i \in DOMAIN columns |-> columns[i].name],
       types |-> [i \in DOMAIN columns |-> columns[i].dt],
       rows |-> [r \in DOMAIN rows |-> IntoRow(fields, rows[r])]]

TryFromDataSet(fields, ds) ==
  LET columns == Columns(fields)
  IN  IF ds.num # Len(columns) \/ Len(ds.columns) # Len(columns) THEN Err("ColumnCountMismatch")
      ELSE IF Len(ds.types) # Len(columns) THEN Err("TypesCountMismatch")
      ELSE IF \E i \in DOMAIN columns : ds.columns[i] # columns[i].name
           THEN Err("ColumnNameMismatch")
      ELSE IF \E i \in DOMAIN columns : ds.types[i] # columns[i].dt
           THEN Err("ColumnTypeMismatch")
      ELSE Collect([r \in DOMAIN ds.rows |-> TryFromRow(fields, ds.rows[r])])
=============================================================================
