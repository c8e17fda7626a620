---------------------------- MODULE MCMobileClient ----------------------------
(***************************************************************************)
(* MobileClient for TLC.  Neither the accounts nor the slots of the calls  *)
(* are told apart by what is checked.                                      *)
(***************************************************************************)
EXTENDS MobileClient, TLC

Symmetry == Permutations(Accounts) \cup Permutations(Calls)
=============================================================================
