---------------------------- MODULE MC_Bootstrap ----------------------------
(***************************************************************************)
(* Instances of Bootstrap, and with it of UserAdmin, for TLC.               *)
(***************************************************************************)
EXTENDS Bootstrap

CONSTANTS Root, Anna, Setup

(* The administrator, and an account of the role hr.                       *)
MC_Installed ==
  {[i \in Ids |-> CASE i = 1 -> NewUser(Setup, Root, "admin")
                    [] i = 2 -> NewUser(Setup, Anna, "hr")
                    [] OTHER -> None]}

MC_Bodies ==
  {[NoChange EXCEPT !.role = "admin"], [NoChange EXCEPT !.is_active = TRUE],
   [NoChange EXCEPT !.is_active = FALSE],
   [NoChange EXCEPT !.role = "hr", !.is_active = TRUE]}
=============================================================================
