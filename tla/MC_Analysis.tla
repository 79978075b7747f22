---------------------------- MODULE MC_Analysis ----------------------------
(***************************************************************************)
(* Instances of AnalysisService for TLC.                                    *)
(***************************************************************************)
EXTENDS AnalysisService, TLC

Scored       == [status |-> "done", scored |-> TRUE, explained |-> FALSE]
Explained    == [status |-> "failed", scored |-> FALSE, explained |-> TRUE]
Unexplained  == [status |-> "failed", scored |-> FALSE, explained |-> FALSE]

(* A workflow whose error branch may report after the success one.         *)
BothOutcomes == {{Scored, Unexplained}}

(* A workflow that reports one outcome, as README.md sets it up.           *)
OneOutcome == {{Scored}, {Explained}}

Symmetry == Permutations(Requests) \cup Permutations(Callbacks) \cup Permutations(Resumes)
=============================================================================
