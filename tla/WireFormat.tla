----------------------------- MODULE WireFormat -----------------------------
(***************************************************************************)
(* One thing is written to the broker and read back.  The writer is this   *)
(* library, or another Sparkplug library, which may put an integer in the  *)
(* other integer field or not extend its sign; and what is on the wire may *)
(* differ from what this library would have written (another version of a  *)
(* row type, a faulty edge node).                                          *)
(*                                                                         *)
(* An item is one of                                                       *)
(*   [kind |-> "metric", type, vec, dt, value]                             *)
(*   [kind |-> "rows", fields, rows]                                       *)
(*   [kind |-> "properties", quality, key, type, value]                    *)
(*   [kind |-> "message", group, verb, node, device, host, payload]        *)
(***************************************************************************)
EXTENDS PropertySets, Topics

CONSTANTS Items,      \* families of items, each family of one type
          Elements,   \* families of elements a damaged row may hold
          Filters     \* the subscriptions of the applications

VARIABLES item,     \* what is meant
          writer,   \* "own", "foreign", "damaged": who wrote the wire
          wire,     \* what is on the wire, or None
          got       \* what the reader made of it, or None
vars == <<item, writer, wire, got>>

(* Names are checked where an edge node, a device or an application is made. *)
NamesOf(x) ==
  IF x.host # None THEN {x.host.v}
  ELSE {x.group, x.node} \cup IF x.device = None THEN {} ELSE {x.device.v}

Init ==
  /\ \E family \in DOMAIN Items : item \in Items[family]
  /\ item.kind = "rows" => Derives(item.fields)
  /\ item.kind = "message" => \A name \in NamesOf(item) : ValidateName(name)
  /\ writer = "own" /\ wire = None /\ got = None

PropertiesOf(x) == Insert(NewPropertySet(x.quality), x.key, x.type, x.value).v
TopicOf(x) ==
  IF x.host # None THEN StateHostTopic(x.host.v)
  ELSE IF x.device = None THEN NodeTopic(x.group, x.verb, x.node)
  ELSE DeviceTopic(x.group, x.verb, x.node, x.device.v)

Sent(will) == [topic |-> will.topic, payload |-> will.payload]

(* A death certificate and an offline message may also be the last will.   *)
Written(x) ==
  CASE x.kind = "metric" ->
         {IF x.vec THEN VecToValue(x.type, x.value) ELSE ToValue(x.type, x.value)}
    [] x.kind = "rows" -> {IntoDataSet(x.fields, x.rows)}
    [] x.kind = "properties" -> PropertySetToProto(PropertiesOf(x))
    [] x.kind = "message" ->
         {[topic |-> TopicOf(x), payload |-> x.payload]}
           \cup (IF x.host # None
                 THEN IF x.payload.online THEN {}
                      ELSE {Sent(LastWillApp(x.host.v, x.payload.ts))}
                 ELSE IF x.verb = "DEATH" /\ x.device = None
                 THEN {Sent(LastWillNode(x.group, x.node, x.payload))} ELSE {})

(* The subscriptions that receive a topic. *)
Hearing(topic) ==
  { filter \in Filters : Matches(filter, topic) }

Read(x, w) ==
  CASE x.kind = "metric" -> TryFromMetricValue(x.dt, w)
    [] x.kind = "rows" -> TryFromDataSet(x.fields, w)
    [] x.kind = "properties" ->
         IfOk(PropertySetFromProto(w),
              LAMBDA set : IfOk(QualityTryFrom(set["Quality"].value.v),
                                LAMBDA q : Ok([quality |-> q, set |-> set])))
    [] x.kind = "message" ->
         LET e == ToEvent(w.topic, w.payload, x.decode)
         IN  Ok([event |-> e, app |-> AppEvent(e), heard |-> Hearing(w.topic)])

Write ==
  /\ wire = None
  /\ wire' \in Written(item)
  /\ UNCHANGED <<item, writer, got>>

(* The forms an integer may take: either field, with or without the sign   *)
(* extended.  A 64-bit number goes to the int field only if it fits.       *)
ForeignForms(t, v) ==
  { [f |-> f, v |-> n] :
      f \in IF SizeOf[t] = 8 /\ v \notin 0..(Bytes(4) - 1) THEN {"long"} ELSE {"int", "long"},
      n \in {v % Bytes(8), v % Bytes(4), v % Bytes(SizeOf[t])} }

WriteForeign ==
  /\ wire = None
  /\ item.kind = "metric" /\ ~item.vec
  /\ item.type \in Narrow \cup {"i64", "u64"}
  /\ wire' \in {p \in ForeignForms(item.type, item.value) :
                  p.v < Bytes(FieldSize(p.f)) /\ (SizeOf[item.type] = 8 => p.v = item.value % Bytes(8))}
  /\ writer' = "foreign"
  /\ UNCHANGED <<item, got>>

(* What another version of a row type, a faulty edge node or a stray       *)
(* publisher puts on the wire instead.                                     *)
DamageRows ==
  /\ item.kind = "rows"
  /\ \/ \E r \in DOMAIN wire.rows, c \in 1..Len(wire.columns), family \in DOMAIN Elements :
          \E e \in Elements[family] : wire' = [wire EXCEPT !.rows[r][c] = e]
     \/ \E r \in DOMAIN wire.rows :
          wire' \in { [wire EXCEPT !.rows[r] = Append(@, None)],
                     [wire EXCEPT !.rows[r] = Front(@)] }
     \/ \E c \in DOMAIN wire.types : wire' = [wire EXCEPT !.types[c] = "Int16"]
     \/ wire' \in { [wire EXCEPT !.columns = Reverse(@)], [wire EXCEPT !.num = @ + 1],
                    [wire EXCEPT !.types = Front(@)] }

DamageProperties ==
  /\ item.kind = "properties"
  /\ wire' \in { [wire EXCEPT !.values = Front(@)], [wire EXCEPT !.values[1].is_null = Some(FALSE),
                                                        !.values[1].value = None] }

DamageMessage ==
  /\ item.kind = "message"
  /\ wire' \in { [wire EXCEPT !.topic = Front(@)], [wire EXCEPT !.topic = Append(@, "more")],
                 [wire EXCEPT !.topic[Len(wire.topic)] = NotUtf8],
                 [wire EXCEPT !.payload = [is |-> "Garbage"]] }

Damage ==
  /\ wire # None /\ got = None /\ writer = "own"
  /\ DamageRows \/ DamageProperties \/ DamageMessage
  /\ writer' = "damaged"
  /\ UNCHANGED <<item, got>>

Receive ==
  /\ wire # None /\ got = None
  /\ got' = Read(item, wire)
  /\ UNCHANGED <<item, writer, wire>>

Next == Write \/ WriteForeign \/ Damage \/ Receive
Spec == Init /\ [][Next]_vars

-----------------------------------------------------------------------------
(* What the reader should get from what this library wrote. *)
Meant(x) ==
  CASE x.kind = "metric" -> x.value
    [] x.kind = "rows" ->
         [r \in DOMAIN x.rows |-> [i \in DOMAIN x.fields |->
            IF x.fields[i].skip THEN DefaultOf(x.fields[i]) ELSE x.rows[r][i]]]
    [] x.kind = "properties" -> [quality |-> x.quality, set |-> PropertiesOf(x)]
    [] x.kind = "message" ->
         IF x.host # None
         THEN [event |-> [event |-> "State", host |-> x.host.v, online |-> x.payload.online,
                          ts |-> x.payload.ts],
               app |-> Ok("State"), heard |-> Filters \cap {FilterState, FilterAll}]
         ELSE LET kind == [BIRTH |-> "Birth", DEATH |-> "Death", DATA |-> "Data",
                           CMD |-> "Cmd"][x.verb]
                  of == [event |-> IF x.device = None THEN "Node" ELSE "Device",
                         kind |-> kind, decoded |-> x.decode, payload |-> x.payload,
                         group |-> x.group, node |-> x.node]
              IN  [event |-> IF x.device = None THEN of ELSE of @@ [device |-> x.device.v],
                   app |-> IF kind = "Cmd" THEN Err("UnsupportedVerb") ELSE Ok(kind),
                   heard |-> Filters \cap {FilterNode(x.group, x.node), FilterGroup(x.group),
                                           FilterAll}]

(* Whatever value of whatever type this library writes - metric values and *)
(* arrays of every type, typed rows, property sets in any key order - it   *)
(* reads back the same; and whatever message it publishes, itself or as a  *)
(* will, reaches the subscriptions meant for it and no others and is read  *)
(* as that message (value.rs, dataset.rs, property_set.rs; topic.rs        *)
(* against utils.rs and events.rs).                                        *)
ReadsBack ==
  writer = "own" /\ got # None => got.ok /\ got.v = Meant(item)

(* An integer is understood as the number meant whichever of the two       *)
(* integer fields the other library chose, and whether or not it extended  *)
(* the sign of a narrow one (coerce_integer_value and proto_to_i8/i16).    *)
ForeignUnderstood ==
  writer = "foreign" /\ got # None => got.ok /\ got.v = item.value

(* Every element is the value read, in its full width, and no element, row *)
(* or column was made up or left out.                                      *)
Exact(column, element, v) ==
  IF element.f = "none" \/ v = None THEN element.f = "none" /\ v = None /\ column.option
  ELSE /\ element.f = FieldOf(column.type)
       /\ element.v \in IF column.type \in Signed
                        THEN {v.v % Bytes(4), v.v % Bytes(SizeOf[column.type]), ToProto(column.type, v.v)}
                        ELSE {v.v}
RowsExact ==
  item.kind = "rows" /\ got # None /\ got.ok =>
      /\ wire.columns = IntoDataSet(item.fields, <<>>).columns
      /\ Len(got.v) = Len(wire.rows)
      /\ \A r \in DOMAIN wire.rows :
           LET read == SelectSeq([i \in DOMAIN item.fields |-> i],
                                 LAMBDA i : ~item.fields[i].skip)
           IN  /\ Len(read) = Len(wire.rows[r])
               /\ \A c \in DOMAIN read :
                    Exact(item.fields[read[c]], wire.rows[r][c], got.v[r][read[c]])

MessagesExact ==
  item.kind = "message" /\ got # None =>
    \/ got.v.event = Invalid
    \/ ~got.v.app.ok
    \/ got.v.event = Meant(item).event

(* Damage is noticed, or does no harm: a data set that is accepted was     *)
(* understood exactly, a message that is accepted is the one published and *)
(* a property set that lost a value is refused (try_from of each).         *)
DamageNoticed ==
  writer = "damaged" /\ got # None =>
    RowsExact /\ MessagesExact /\ (item.kind = "properties" => ~got.ok)

(* An array of booleans is read back as it was written.                    *)
BoolArraysReadBack ==
  item.kind = "metric" /\ item.vec /\ item.type = "bool" /\ writer = "own" /\ got # None
     => got.ok /\ Len(got.v) = Len(item.value)
=============================================================================
