---------------------------- MODULE MCAutoReconnect ----------------------------
(***************************************************************************)
(* AutoReconnect for TLC: commands are alike, and so are runs of hydrate.  *)
(***************************************************************************)
EXTENDS AutoReconnect, TLC

ReconnectSymmetry == Permutations(Calls) \cup Permutations(Visits)
=============================================================================
