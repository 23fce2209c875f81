--------------------------- MODULE MCUserSession ---------------------------
(***************************************************************************)
(* Values of the constants of UserSession for TLC.                         *)
(***************************************************************************)
EXTENDS UserSession, TLC

Alike == Permutations(Devices) \cup Permutations(Users)
=============================================================================
