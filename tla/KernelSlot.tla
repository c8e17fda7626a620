------------------------------ MODULE KernelSlot ------------------------------
(***************************************************************************)
(* Where the manager and a launcher that owns its process meet: trait      *)
(* KernelLauncher of core/src/kernel/launcher.rs, as a client uses it that *)
(* gives one kernel back before it asks for the next.  There is one slot.  *)
(* It is filled by a spawn that succeeds and emptied by a stop; a kernel   *)
(* that exits leaves it to be given back.  KernelManager keeps to this in  *)
(* what it does to its launcher, and DirectLauncher in what it does for    *)
(* its client.                                                             *)
(***************************************************************************)
CONSTANT Kernels

VARIABLES held,    \* the kernel a spawn returned and nobody has stopped
          running  \* the kernels alive that nobody has stopped

vars == <<held, running>>

Init == held = {} /\ running = {}

\* A spawn that fails leaves nothing behind and does not show.
Spawn ==
    /\ held = {}
    /\ \E k \in Kernels : held' = {k} /\ running' = {k}

\* Also of a kernel that has exited.
Stop == held' = {} /\ running' = {}

Exit == running' = {} /\ UNCHANGED held

Next == Spawn \/ Stop \/ Exit

Spec == Init /\ [][Next]_vars
=============================================================================
