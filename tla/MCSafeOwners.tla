---------------------------- MODULE MCSafeOwners -----------------------------
(* Instances of SafeOwners for TLC.                                         *)
EXTENDS SafeOwners
=============================================================================
