------------------------------- MODULE MC_Otp -------------------------------
(***************************************************************************)
(* Instances of OtpLogin for TLC.                                           *)
(***************************************************************************)
EXTENDS OtpLogin, TLC

Symmetry == Permutations(Accounts) \cup Permutations(Logins) \cup Permutations(Verifies)
=============================================================================
