---------------------------- MODULE MC_Taxonomy ----------------------------
(***************************************************************************)
(* Instances of SkillTaxonomy for TLC.                                      *)
(***************************************************************************)
EXTENDS SkillTaxonomy

CONSTANTS First, Second, Third, Plain, Editor

Named(name) == [name |-> name, category |-> Plain, is_active |-> TRUE, updated_by |-> Editor]

MC_Existing ==
  {[i \in Ids |-> CASE i = 1 -> Named(First) [] i = 2 -> Named(Second) [] OTHER -> None]}

MC_Bodies ==
  {[NoChange EXCEPT !.name = name] : name \in Names} \cup {[NoChange EXCEPT !.is_active = TRUE]}
=============================================================================
