---------------------------- MODULE MC_Resumes -----------------------------
(***************************************************************************)
(* Instances of ResumeLibrary for TLC.                                      *)
(***************************************************************************)
EXTENDS ResumeLibrary, TLC

Symmetry == Permutations(Uploads) \cup Permutations(Deletes)
              \cup Permutations(Contents) \cup Permutations(Extensions)
=============================================================================
