------------------------------- MODULE Births -------------------------------
(***************************************************************************)
(* What a birth announces and how later messages refer to it: the          *)
(* BirthInitializer (srad-eon/src/birth.rs), the TemplateRegistry          *)
(* (node.rs), device ids (device.rs), the metrics of a payload as the edge *)
(* node writes and reads them (srad-eon/src/metric.rs) and as a host does  *)
(* (srad-app/src/metrics.rs).                                              *)
(*                                                                         *)
(* A metric id is <<"name", name>> or <<"alias", number>>.  Values are     *)
(* abstract; metadata, properties and is_transient are left out.           *)
(***************************************************************************)
EXTENDS Integers, SequencesExt

CONSTANTS
    Hash(_),     \* DefaultHasher of a name, cut to 32 bits
    HashMod,     \* 2 ^ 32
    Uses,        \* the templates nested in each template
    Offered      \* the templates the application may register
ASSUME BirthsAssumption ==
    /\ HashMod \in Nat \ {0}
    /\ \A t \in DOMAIN Uses : ToSet(Uses[t]) \subseteq DOMAIN Uses
    /\ Offered \subseteq DOMAIN Uses

None    == [f |-> "none"]
Some(v) == [f |-> "some", v |-> v]
Ok(v)  == [ok |-> TRUE, v |-> v]
Err(e) == [ok |-> FALSE, e |-> e]

(* Aliases: "none", "generate" or <<"custom", alias>>. *)
AliasNone == <<"none">>
AliasGenerate == <<"generate">>
AliasCustom(alias) == <<"custom", alias>>

Free(first, taken) == Min({ n \in first..(first + Cardinality(taken)) : n \notin taken })

(* Device ids: never the node's 0; an id past the last one wraps.          *)
ObjectIdNode == 0
GenerateDeviceId(name, ids) ==
    LET after(n) == (Hash(name) + n) % HashMod
        n == Min({ n \in 0..(Cardinality(ids) + 1) : after(n) \notin ids \cup {ObjectIdNode} })
    IN  after(n)

-----------------------------------------------------------------------------
(* BirthInitializer *)

NewInitializer(id, registry) ==
    [id |-> id, metrics |-> <<>>, names |-> {}, aliases |-> {}, registry |-> registry]

(* Mutant of GenerateAlias: the aliases given out are not looked at.       *)
GenerateAliasBlind(bi, name) == bi.id * HashMod + Hash(name)

GenerateAlias(bi, name) == Free(bi.id * HashMod + Hash(name), bi.aliases)

(* A token's metric id, and the initializer after it.  A custom alias is   *)
(* compared with the generated ones and not remembered.                    *)
CreateMetricToken(bi, name, config) ==
    LET named(b, id) == Ok([bi |-> [b EXCEPT !.names = @ \cup {name}], id |-> id])
        alias == GenerateAlias(bi, name)
    IN  IF name \in bi.names THEN Err("DuplicateMetric")
        ELSE CASE config[1] = "none" -> named(bi, <<"name", name>>)
               [] config[1] = "generate" ->
                    named([bi EXCEPT !.aliases = @ \cup {alias}], <<"alias", alias>>)
               [] config[1] = "custom" ->
                    IF config[2] \in bi.aliases THEN Err("AliasNotUnique")
                    ELSE named(bi, <<"alias", config[2]>>)

(* BirthMetricDetails::into_metric_value: the name, and the alias if any.  *)
BirthMetric(name, id, dt, value) ==
    [name |-> Some(name), alias |-> IF id[1] = "alias" THEN Some(id[2]) ELSE None,
     dt |-> Some(dt), value |-> value, is_null |-> IF value = None THEN Some(TRUE) ELSE None,
     timed |-> TRUE]

Registered(token, name, dt, value) ==
    IF ~token.ok THEN token
    ELSE Ok([bi |-> [token.v.bi EXCEPT !.metrics = Append(@, BirthMetric(name, token.v.id, dt, value))],
             id |-> token.v.id])

RegisterMetric(bi, name, config, dt, value) ==
    IF dt = "Template" THEN Err("UnsupportedDatatype")
    ELSE Registered(CreateMetricToken(bi, name, config), name, dt, value)

(* The value names the template it is an instance of. *)
RegisterTemplateMetric(bi, name, config, value) ==
    IF value = None THEN Err("ValueNotProvided")
    ELSE IF value.v \notin bi.registry THEN Err("UnregisteredTemplate")
    ELSE Registered(CreateMetricToken(bi, name, config), name, "Template", value)

RegisterTemplateDefinition(bi, name) ==
    IF name \in bi.names THEN Err("DuplicateMetric")
    ELSE Ok([bi EXCEPT !.names = @ \cup {name},
                       !.metrics = Append(@, [BirthMetric(name, <<"name", name>>, "Template", Some(name))
                                                EXCEPT !.is_null = None])])

-----------------------------------------------------------------------------
(* TemplateRegistry: the set of definition names *)

RECURSIVE CheckTemplateMetrics(_, _)
(* The first nested template that is registered ends the check; one that   *)
(* is not is looked into.  Derived definitions are never malformed, so     *)
(* nothing is refused: neither a nested template that is not registered,   *)
(* although "the template used as a field must be registered first"        *)
(* (node.rs:395) and the check is there to "ensure they have been          *)
(* registered" (node.rs:420), nor what follows the first one that is.      *)
CheckTemplateMetrics(registry, nested) ==
    IF nested = <<>> \/ Head(nested) \in registry THEN Ok(registry)
    ELSE LET inner == CheckTemplateMetrics(registry, Uses[Head(nested)])
         IN  IF inner.ok THEN CheckTemplateMetrics(registry, Tail(nested)) ELSE inner

RegisterTemplate(registry, t) ==
    IF t \in {"bdSeq", "Node Control/Rebirth"} THEN Err("InvalidName")
    ELSE IF t \in registry THEN Err("Duplicate")
    ELSE LET checked == CheckTemplateMetrics(registry, Uses[t])
         IN  IF checked.ok THEN Ok(registry \cup {t}) ELSE checked

(* What the manager may do to the registry before a birth: register,       *)
(* deregister, clear, or nothing.                                          *)
Updates(registry) ==
    { registry, {} } \cup { registry \ {t} : t \in registry }
      \cup { RegisterTemplate(registry, t).v : t \in { t \in Offered : RegisterTemplate(registry, t).ok } }

-----------------------------------------------------------------------------
(* Metrics of data and command payloads *)

PublishMetric(id, value, at) == [id |-> id, value |-> value, at |-> at]

(* From<PublishMetric>: a missing value leaves is_null unset. *)
DataMetric(p) ==
    [name |-> IF p.id[1] = "name" THEN Some(p.id[2]) ELSE None,
     alias |-> IF p.id[1] = "alias" THEN Some(p.id[2]) ELSE None,
     dt |-> None, value |-> p.value, is_null |-> None, timed |-> TRUE]

(* The host's PublishMetric of a command. *)
CommandMetric(id, value) == [DataMetric(PublishMetric(id, Some(value), 0)) EXCEPT !.timed = FALSE]

MetricIdOf(m) ==
    IF m.alias # None THEN Ok(<<"alias", m.alias.v>>)
    ELSE IF m.name # None THEN Ok(<<"name", m.name.v>>)
    ELSE Err("MissingIdentifier")

(* TryFrom<Metric> for MessageMetric; the iterator skips the errors.       *)
MessageMetric(m) ==
    LET id == MetricIdOf(m)
    IN  IF ~id.ok THEN id
        ELSE IF m.value = None /\ m.is_null = None THEN Err("MissingValue")
        ELSE IF m.value = None /\ m.is_null.v THEN Err("NullMetric")
        ELSE Ok([id |-> id.v, value |-> m.value])
MessageMetrics(metrics) ==
    LET read == [k \in DOMAIN metrics |-> MessageMetric(metrics[k])]
        kept == SelectSeq(read, LAMBDA r : r.ok)
    IN  [k \in DOMAIN kept |-> kept[k].v]

(* metric_details_try_from_payload_metric! *)
MetricDetails(m) ==
    IF ~m.timed THEN Err("MissingTimestamp")
    ELSE IF m.value = None /\ (m.is_null = None \/ m.is_null = Some(FALSE)) THEN Err("NotNullNoValue")
    ELSE Ok(m.value)

FirstError(results) == SelectSeq(results, LAMBDA r : ~r.ok)[1]
AllOk(results) == \A k \in DOMAIN results : results[k].ok

(* Of a data message: the id and value of each metric, or the first error. *)
MetricIdsAndDetails(metrics) ==
    LET read(m) == IF ~MetricIdOf(m).ok THEN Err("MissingName")
                   ELSE IF ~MetricDetails(m).ok THEN MetricDetails(m)
                   ELSE Ok([id |-> MetricIdOf(m).v, value |-> MetricDetails(m).v])
        all == [k \in DOMAIN metrics |-> read(metrics[k])]
    IN  IF AllOk(all) THEN Ok([k \in DOMAIN all |-> all[k].v]) ELSE FirstError(all)

(* Of a birth: the name, the id a command or datum will use, and the value. *)
MetricBirthDetails(metrics) ==
    LET read(m) == IF m.dt = None THEN Err("MissingDatatype")
                   ELSE IF m.name = None THEN Err("MissingName")
                   ELSE IF ~MetricDetails(m).ok THEN MetricDetails(m)
                   ELSE Ok([name |-> m.name.v, dt |-> m.dt.v, id |-> MetricIdOf(m).v,
                            value |-> MetricDetails(m).v])
        all == [k \in DOMAIN metrics |-> read(metrics[k])]
    IN  IF AllOk(all) THEN Ok([k \in DOMAIN all |-> all[k].v]) ELSE FirstError(all)
=============================================================================
