------------------------------ MODULE MCFormats ------------------------------
(***************************************************************************)
(* WireFormat and TemplateUpdates for model checking, side by side: either *)
(* one item is written and read, or a template value is followed.          *)
(***************************************************************************)
EXTENDS MCWireFormat, MCTemplateUpdates

VARIABLE part

FormatsInit ==
  /\ part \in {"item", "template"}
  /\ Init /\ FollowInit
  /\ part = "item" => schema = 1
  /\ part = "template" => item = CHOOSE x \in StateItems : TRUE

ItemStep == part = "item" /\ UNCHANGED <<part, followVars>>
TemplateStep == part = "template" /\ UNCHANGED <<part, vars>>

FormatsNext ==
  \/ Write /\ ItemStep
  \/ WriteForeign /\ ItemStep
  \/ Damage /\ ItemStep
  \/ Receive /\ ItemStep
  \/ Change /\ TemplateStep
  \/ PublishBirth /\ TemplateStep
  \/ PublishWhole /\ TemplateStep
  \/ PublishDifference /\ TemplateStep
  \/ Spoil /\ TemplateStep
  \/ Reorder /\ TemplateStep
  \/ Follow /\ TemplateStep

FormatsSpec == FormatsInit /\ [][FormatsNext]_<<part, vars, followVars>>
=============================================================================
