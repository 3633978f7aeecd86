------------------------- MODULE MCTemplateUpdates -------------------------
(***************************************************************************)
(* TemplateUpdates for model checking: a template type with a skipped      *)
(* field and an optional parameter, and one with a template nested in it.  *)
(***************************************************************************)
EXTENDS TemplateUpdates

TemplateField(name, role, type, option, default) ==
  [name |-> name, role |-> role, type |-> type, option |-> option, inner |-> <<>>,
   default |-> default]

Flat ==
  [name |-> <<"flat">>, version |-> None,
   fields |-> << TemplateField("a", "metric", "i8", FALSE, Some(0)),
                 TemplateField("s", "skip", "u16", FALSE, Some(0)),
                 TemplateField("p", "parameter", "i8", TRUE, None) >>]
Inner ==
  [name |-> <<"inner">>, version |-> None,
   fields |-> << TemplateField("a", "metric", "i8", FALSE, Some(0)), TemplateField("c", "metric", "i8", FALSE, Some(0)) >>]
Outer ==
  [name |-> <<"outer">>, version |-> Some(<<"1">>),
   fields |-> << TemplateField("p", "parameter", "u8", FALSE, Some(0)),
                 TemplateField("x", "metric", "i8", TRUE, None),
                 [name |-> "n", role |-> "metric", type |-> "Template", option |-> FALSE,
                  inner |-> <<Inner>>, default |-> Some(Defaults(Inner))] >>]
(* Two fields of one name do not compile. *)
Twice == [Inner EXCEPT !.fields[2].name = "a"]

MCSchemas == <<Flat, Outer, Twice>>
MCSampleOf(F) ==
  IF F.option THEN {None, Some(-1)} ELSE IF F.type = "i8" THEN {Some(0), Some(-1)} ELSE {Some(0), Some(1)}
=============================================================================
