--------------------------- MODULE MCKernelManager ---------------------------
(* KernelManager on a small instance: the foreground tasks are model values *)
(* that nothing orders, so they are a symmetry set in the safety runs.      *)
EXTENDS KernelManager, TLC

CallSymmetry == Permutations(Calls)
=============================================================================
