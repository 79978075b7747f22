--------------------------- MODULE MC_Permissions ---------------------------
(***************************************************************************)
(* Instances of UserPermissions for TLC.                                    *)
(***************************************************************************)
EXTENDS UserPermissions, TLC

Symmetry == Permutations(Users) \cup Permutations(Permissions) \cup Permutations(Edits)
=============================================================================
