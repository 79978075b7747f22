------------------------------ MODULE MC_Pool ------------------------------
(***************************************************************************)
(* Instances of ConnectionPool for TLC.                                     *)
(***************************************************************************)
EXTENDS ConnectionPool
=============================================================================
