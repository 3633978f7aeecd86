----------------------------- MODULE Templates -----------------------------
(***************************************************************************)
(* Templates: the values, instances and definitions of                     *)
(* srad-types/src/template.rs and the code the derive macro Template       *)
(* generates for a type (srad-macros/src/lib.rs).                          *)
(*                                                                         *)
(* A template type is [name, version, fields], its fields a sequence of    *)
(*    [name, role, type, option, inner, default]                           *)
(* with role "metric", "parameter" or "skip"; type a scalar type or        *)
(* "Template", whose template type is then inner[1]; and default a value.  *)
(* A value of a template type gives each field Some(value) or None.        *)
(***************************************************************************)
EXTENDS DataSets

(* What the macro accepts; the rest is a compile error. *)
DerivesTemplate(T) ==
  LET kept == SelectSeq(T.fields, LAMBDA F : F.role # "skip")
  IN  kept # <<>> /\ IsInjective([k \in DOMAIN kept |-> kept[k].name])

(* A name is a sequence of words and separators.                           *)
TemplateDefinitionMetricName(T) ==
  IF T.version = None THEN T.name ELSE T.name \o <<":">> \o T.version.v

Defaults(T) == [i \in DOMAIN T.fields |-> T.fields[i].default]

FieldsOf(T, role) ==
  SelectSeq([i \in DOMAIN T.fields |-> i], LAMBDA i : T.fields[i].role = role)

DefaultDatatype(F) ==
  IF F.type = "Template" THEN "Template" ELSE SupportedDatatypes(F.type, FALSE)[1]

NewTemplateMetricRaw(name, dt, value) == [name |-> Some(name), dt |-> dt, value |-> value]

-----------------------------------------------------------------------------
(* Into the payload *)

DefinitionToPayload(d) ==
  [version |-> d.version, metrics |-> d.metrics, parameters |-> d.parameters,
   ref |-> None, is_definition |-> Some(TRUE)]
InstanceToPayload(x) ==
  [version |-> x.version, metrics |-> x.metrics, parameters |-> x.parameters,
   ref |-> Some(x.ref), is_definition |-> Some(FALSE)]
TemplateToValue(payload) == [f |-> "template", v |-> payload]

RECURSIVE TemplateInstance(_, _)

ToTemplateMetricValue(F, x) ==
  IF x = None THEN None
  ELSE IF F.type = "Template"
  THEN Some(TemplateToValue(InstanceToPayload(TemplateInstance(F.inner[1], x.v))))
  ELSE Some(ToValue(F.type, x.v))

NewTemplateMetric(F, x) ==
  NewTemplateMetricRaw(F.name, DefaultDatatype(F), ToTemplateMetricValue(F, x))
NewTemplateParameter(F, x) ==
  [name |-> Some(F.name), dt |-> SupportedDatatypes(F.type, FALSE)[1],
   value |-> IF x = None THEN None ELSE Some(ToValue(F.type, x.v))]

InstanceMetrics(T, x) ==
  LET of == FieldsOf(T, "metric")
  IN  [k \in DOMAIN of |-> NewTemplateMetric(T.fields[of[k]], x[of[k]])]
InstanceParameters(T, x) ==
  LET of == FieldsOf(T, "parameter")
  IN  [k \in DOMAIN of |-> NewTemplateParameter(T.fields[of[k]], x[of[k]])]

TemplateInstance(T, x) ==
  [ref |-> TemplateDefinitionMetricName(T), version |-> T.version,
   metrics |-> InstanceMetrics(T, x), parameters |-> InstanceParameters(T, x)]

TemplateDefinition(T) ==
  [version |-> T.version, metrics |-> InstanceMetrics(T, Defaults(T)),
   parameters |-> InstanceParameters(T, Defaults(T))]

RECURSIVE TemplateInstanceFromDifference(_, _, _)

(* None if nothing changed, else Some(the new value, which may be None).   *)
ScalarIfNe(F, x, other) ==
  IF x = other THEN None ELSE Some(ToTemplateMetricValue(F, x))
NestedIfNe(T, x, other) ==
  LET d == TemplateInstanceFromDifference(T, x, other)
  IN  IF d = None THEN None ELSE Some(Some(TemplateToValue(InstanceToPayload(d.v))))
MetricValueIfNe(F, x, other) ==
  IF F.type = "Template" THEN NestedIfNe(F.inner[1], x.v, other.v) ELSE ScalarIfNe(F, x, other)

DifferenceMetrics(T, x, other) ==
  LET of == FieldsOf(T, "metric")
      metric(i) == LET F == T.fields[i]
                       v == MetricValueIfNe(F, x[i], other[i])
                   IN  IF v = None THEN <<>>
                       ELSE <<NewTemplateMetricRaw(F.name, DefaultDatatype(F), v.v)>>
  IN  FlattenSeq([k \in DOMAIN of |-> metric(of[k])])
DifferenceParameters(T, x, other) ==
  LET of == SelectSeq(FieldsOf(T, "parameter"), LAMBDA i : x[i] # other[i])
  IN  [k \in DOMAIN of |-> NewTemplateParameter(T.fields[of[k]], x[of[k]])]

TemplateInstanceFromDifference(T, x, other) ==
  LET d == [ref |-> TemplateDefinitionMetricName(T), version |-> T.version,
            metrics |-> DifferenceMetrics(T, x, other),
            parameters |-> DifferenceParameters(T, x, other)]
  IN  IF d.parameters = <<>> /\ d.metrics = <<>> THEN None ELSE Some(d)

-----------------------------------------------------------------------------
(* Out of the payload *)

DefinitionFromPayload(p) ==
  IF p.ref # None \/ p.is_definition # Some(TRUE) THEN Err("InvalidValue")
  ELSE Ok([version |-> p.version, metrics |-> p.metrics, parameters |-> p.parameters])
InstanceFromPayload(p) ==
  IF p.is_definition # Some(FALSE) \/ p.ref = None THEN Err("InvalidValue")
  ELSE Ok([ref |-> p.ref.v, version |-> p.version, metrics |-> p.metrics,
           parameters |-> p.parameters])
(* TemplateValue: either of them, told apart by is_definition.             *)
TemplateFromPayload(p) ==
  IF p.is_definition = None THEN Err("InvalidValue")
  ELSE IF p.is_definition.v
  THEN IfOk(DefinitionFromPayload(p), LAMBDA d : Ok([is |-> "Definition", of |-> d]))
  ELSE IfOk(InstanceFromPayload(p), LAMBDA x : Ok([is |-> "Instance", of |-> x]))
(* Of a metric's value, as an instance. *)
InstanceFromValue(v) ==
  IF v.f = "template" THEN InstanceFromPayload(v.v) ELSE Err("InvalidVariantType")

RECURSIVE TryFromInstance(_, _)
RECURSIVE UpdateFromInstance(_, _, _)

TryFromScalar(F, value) ==
  IF value = None THEN IF F.option THEN Ok(None) ELSE Err("MissingValue")
  ELSE IfOk(TryFromValue(F.type, value.v), LAMBDA x : Ok(Some(x)))
TryFromNested(T, value) ==
  IF value = None THEN Err("MissingValue")
  ELSE IfOk(InstanceFromValue(value.v),
            LAMBDA inst : IfOk(TryFromInstance(T, inst), LAMBDA x : Ok(Some(x))))
TryFromTemplateMetricValue(F, value) ==
  IF F.type = "Template" THEN TryFromNested(F.inner[1], value) ELSE TryFromScalar(F, value)
TryFromTemplateParameterValue(F, value) == TryFromScalar(F, value)

(* A copy of the field is updated: a nested template that the instance     *)
(* gives no value stays as it is.                                          *)
UpdateNested(T, x, value) ==
  IF value = None THEN Ok(x)
  ELSE IfOk(InstanceFromValue(value.v),
            LAMBDA inst : LET u == UpdateFromInstance(T, x.v, inst)
                          IN  IF u.error = None THEN Ok(Some(u.self)) ELSE Err(u.error.v))
(* Mutant of TryUpdateFromMetricValue: a nested template is read anew.     *)
TryUpdateReplaces(F, x, value) == TryFromTemplateMetricValue(F, value)

TryUpdateFromMetricValue(F, x, value) ==
  IF F.type = "Template" THEN UpdateNested(F.inner[1], x, value) ELSE TryFromScalar(F, value)

(* The assignments of an instance's parameters, then of its metrics: the   *)
(* field and its new value, or the error.                                  *)
Assignment(T, role, entry, read(_, _)) ==
  LET at == { i \in DOMAIN T.fields : T.fields[i].role = role /\ Some(T.fields[i].name) = entry.name }
  IN  IF entry.name = None THEN Err("InvalidPayload")
      ELSE IF at = {} THEN Err("Unknown")
      ELSE LET i == CHOOSE i \in at : TRUE
           IN  IfOk(read(i, entry.value), LAMBDA x : Ok([field |-> i, value |-> x]))
Assignments(T, inst, parameter(_, _), metric(_, _)) ==
  [k \in DOMAIN inst.parameters |-> Assignment(T, "parameter", inst.parameters[k], parameter)]
    \o [k \in DOMAIN inst.metrics |-> Assignment(T, "metric", inst.metrics[k], metric)]

(* A field that is assigned twice keeps the later value. *)
Assign(x, assignments) ==
  [i \in DOMAIN x |->
     LET of == { k \in DOMAIN assignments : assignments[k].field = i }
     IN  IF of = {} THEN x[i] ELSE assignments[Max(of)].value]

OfThisTemplate(T, inst) ==
  inst.ref = TemplateDefinitionMetricName(T) /\ inst.version = T.version

(* What is not in the instance, skipped fields among it, is the default.   *)
TryFromInstance(T, inst) ==
  LET read == Collect(Assignments(T, inst,
                        LAMBDA i, v : TryFromTemplateParameterValue(T.fields[i], v),
                        LAMBDA i, v : TryFromTemplateMetricValue(T.fields[i], v)))
  IN  IF ~OfThisTemplate(T, inst) THEN Err("Mismatch")
      ELSE IfOk(read, LAMBDA as : Ok(Assign(Defaults(T), as)))

UpdateAssignments(T, self, inst) ==
  Assignments(T, inst, LAMBDA i, v : TryFromTemplateParameterValue(T.fields[i], v),
                       LAMBDA i, v : TryUpdateFromMetricValue(T.fields[i], self[i], v))

(* Mutant of UpdateFromInstance: each value is stored as it is read.       *)
UpdateInPlace(T, self, inst) ==
  LET as   == UpdateAssignments(T, self, inst)
      bad  == { k \in DOMAIN as : ~as[k].ok }
      done == SubSeq(as, 1, IF bad = {} THEN Len(as) ELSE Min(bad) - 1)
  IN  IF ~OfThisTemplate(T, inst) THEN [self |-> self, error |-> Some("Mismatch")]
      ELSE [self |-> Assign(self, [k \in DOMAIN done |-> done[k].v]),
            error |-> IF bad = {} THEN None ELSE Some(as[Min(bad)].e)]

(* The values are collected first and stored only if all were read.        *)
UpdateFromInstance(T, self, inst) ==
  LET read == Collect(UpdateAssignments(T, self, inst))
  IN  IF ~OfThisTemplate(T, inst) THEN [self |-> self, error |-> Some("Mismatch")]
      ELSE IF ~read.ok THEN [self |-> self, error |-> Some(read.e)]
      ELSE [self |-> Assign(self, read.v), error |-> None]
=============================================================================
