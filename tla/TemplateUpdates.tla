-------------------------- MODULE TemplateUpdates --------------------------
(***************************************************************************)
(* A template value followed by a host.  The edge node announces the       *)
(* definition and the whole value in a birth and then publishes the whole  *)
(* value or its difference to what it published last                       *)
(* (MetricToken::create_publish_template_metric and                        *)
(* create_publish_template_metric_from_difference, srad-eon/src/metric.rs).*)
(* The host keeps a copy of the template type, read from an instance or    *)
(* updated from one.  A publish may be spoilt: another version of the      *)
(* type, a faulty or a foreign edge node.                                  *)
(***************************************************************************)
EXTENDS Templates

CONSTANTS
    Schemas,      \* a sequence of template types
    SampleOf(_),  \* the values tried of each field
    MaxPublish,   \* bound: publishes of the value
    MaxSpoil      \* bound: publishes spoilt

VARIABLES
    schema,       \* which of Schemas
    edge,         \* the edge node's value
    sent,         \* the value published last, or None before the birth
    queue,        \* publishes under way
    definition,   \* the definition the host was given, or None
    copy,         \* the host's copy, or None
    base,         \* history: the value the copy should show, None once one was refused
    published, spoilt   \* how many publishes there were and were spoilt
followVars == <<schema, edge, sent, queue, definition, copy, base, published, spoilt>>

T == Schemas[schema]
RECURSIVE ValuesOf(_)
ValuesOf(type) ==
  LET at(F) == IF F.type = "Template" THEN { Some(x) : x \in ValuesOf(F.inner[1]) } ELSE SampleOf(F)
  IN  FoldLeft(LAMBDA values, F : { Append(x, v) : x \in values, v \in at(F) }, {<<>>}, type.fields)

FollowInit ==
  /\ schema \in DOMAIN Schemas
  /\ DerivesTemplate(T)
  /\ edge = Defaults(T)
  /\ sent = None /\ queue = <<>>
  /\ definition = None /\ copy = None /\ base = None
  /\ published = 0 /\ spoilt = 0

Message(is, value, meant) == [is |-> is, value |-> TemplateToValue(value), meant |-> meant, bad |-> FALSE]
Whole(is) == Message(is, InstanceToPayload(TemplateInstance(T, edge)), Some(edge))

(* The two ends of the queue do not look at each other, so steps of the    *)
(* edge node commute with the host's: it acts when the queue is empty.     *)
Idle == queue = <<>> /\ published < MaxPublish

Change ==
  /\ queue = <<>>
  /\ \E x \in ValuesOf(T) :
       /\ Cardinality({i \in DOMAIN edge : x[i] # edge[i]}) = 1
       /\ edge' = x
  /\ UNCHANGED <<schema, sent, queue, definition, copy, base, published, spoilt>>

(* A (re)birth: the definition, then the value. *)
PublishBirth ==
  /\ Idle
  /\ queue' = queue \o << Message("birth", DefinitionToPayload(TemplateDefinition(T)), None), Whole("birth") >>
  /\ sent' = Some(edge) /\ published' = published + 1
  /\ UNCHANGED <<schema, edge, definition, copy, base, spoilt>>

PublishWhole ==
  /\ sent # None /\ Idle
  /\ queue' = Append(queue, Whole("whole"))
  /\ sent' = Some(edge) /\ published' = published + 1
  /\ UNCHANGED <<schema, edge, definition, copy, base, spoilt>>

PublishDifference ==
  /\ sent # None /\ Idle
  /\ LET d == TemplateInstanceFromDifference(T, edge, sent.v)
     IN  /\ d # None
         /\ queue' = Append(queue, Message("difference", InstanceToPayload(d.v), Some(edge)))
  /\ sent' = Some(edge) /\ published' = published + 1
  /\ UNCHANGED <<schema, edge, definition, copy, base, spoilt>>

-----------------------------------------------------------------------------
(* Another library may list the metrics of an instance in another order.   *)
Reordered(p) == [p EXCEPT !.metrics = Reverse(@)]

Corrupt(metrics) ==
  UNION { { [metrics EXCEPT ![k].name = None], [metrics EXCEPT ![k].name = Some("unknown")] }
          \cup (IF metrics[k].value = None THEN {}
                ELSE { [metrics EXCEPT ![k].value.v.f = "another"] }) : k \in DOMAIN metrics }

(* What is wrong with a spoilt publish: its kind, its type, or one metric  *)
(* or parameter.                                                           *)
Spoilt(p) ==
  { [p EXCEPT !.is_definition = None],
    [p EXCEPT !.is_definition = Some(~p.is_definition.v)] }
  \cup (IF p.is_definition.v THEN {[p EXCEPT !.ref = Some(<<"other">>)]}
        ELSE { [p EXCEPT !.ref = None], [p EXCEPT !.ref = Some(<<"other">>)],
               [p EXCEPT !.version = IF @ = None THEN Some(<<"9">>) ELSE None] }
             \cup { [p EXCEPT !.metrics = m] : m \in Corrupt(p.metrics) }
             \cup { [p EXCEPT !.parameters = m] : m \in Corrupt(p.parameters) })

Spoil ==
  /\ spoilt < MaxSpoil
  /\ queue # <<>> /\ ~Head(queue).bad
  /\ \E p \in Spoilt(Head(queue).value.v) :
       queue' = [queue EXCEPT ![1].value.v = p, ![1].bad = TRUE]
  /\ spoilt' = spoilt + 1
  /\ UNCHANGED <<schema, edge, sent, definition, copy, base, published>>

Reorder ==
  /\ queue # <<>> /\ ~Head(queue).bad
  /\ Head(queue).meant # None /\ Len(Head(queue).value.v.metrics) > 1
  /\ queue' = [queue EXCEPT ![1].value.v = Reordered(@)]
  /\ UNCHANGED <<schema, edge, sent, definition, copy, base, published, spoilt>>

Refuse == copy' = copy /\ base' = None
(* A new copy, or the copy brought up to date. *)
ReadInstance(x) ==
  LET read == TryFromInstance(T, x)
  IN  IF read.ok THEN copy' = Some(read.v) /\ base' = Head(queue).meant ELSE Refuse
UpdateCopy(x) ==
  LET u == UpdateFromInstance(T, copy.v, x)
  IN  /\ copy' = Some(u.self)
      /\ base' = IF u.error # None \/ (Head(queue).is = "difference" /\ base = None) THEN None
                 ELSE Head(queue).meant

(* A difference says nothing without a copy it can be applied to.          *)
Follow ==
  /\ queue # <<>>
  /\ queue' = Tail(queue)
  /\ LET value == TemplateFromPayload(Head(queue).value.v)
     IN  IF ~value.ok
         THEN Refuse /\ UNCHANGED definition
         ELSE IF value.v.is = "Definition"
         THEN definition' = Some(value.v.of) /\ UNCHANGED <<copy, base>>
         ELSE /\ UNCHANGED definition
              /\ \/ Head(queue).is # "difference" /\ ReadInstance(value.v.of)
                 \/ Head(queue).is # "birth" /\ copy # None /\ UpdateCopy(value.v.of)
                 \/ Head(queue).is = "difference" /\ copy = None /\ Refuse
  /\ UNCHANGED <<schema, edge, sent, published, spoilt>>

FollowNext ==
  \/ Change \/ PublishBirth \/ PublishWhole \/ PublishDifference
  \/ Spoil \/ Reorder \/ Follow
FollowSpec == FollowInit /\ [][FollowNext]_followVars

-----------------------------------------------------------------------------
RECURSIVE Visible(_, _)
Visible(type, x) ==
  [i \in {i \in DOMAIN x : type.fields[i].role # "skip"} |->
     IF type.fields[i].type = "Template" THEN Visible(type.fields[i].inner[1], x[i].v) ELSE x[i]]

(* Through any mix of whole values and differences, read or applied in     *)
(* place, the host's copy shows exactly the value the edge node had when   *)
(* it published the last of them, down to the fields of nested templates;  *)
(* and a definition is never taken for an instance nor the reverse         *)
(* (template_instance_from_difference and update_from_instance of          *)
(* srad-macros/src/lib.rs, TemplateValue::try_from).                       *)
CopyAgrees ==
  /\ base # None => copy # None /\ Visible(T, copy.v) = Visible(T, base.v)
  /\ definition # None => definition.v = TemplateDefinition(T)

(* A publish that is wrong in any one place changes nothing of the host's  *)
(* copy, even if everything before that place was right: the copy is       *)
(* updated as a whole or not at all (update_from_instance).                *)
SpoiltChangesNothing ==
  [][queue # <<>> /\ Head(queue).bad => copy' = copy /\ definition' = definition]_followVars
=============================================================================
