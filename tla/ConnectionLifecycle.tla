------------------------- MODULE ConnectionLifecycle -------------------------
(***************************************************************************)
(* What the kernel manager promises to the machine it runs on, whatever    *)
(* order its asynchronous steps happen in.  A connection takes two things  *)
(* from the host: the kernel slot of the launcher and the OS system proxy. *)
(* The proxy is taken only on top of a kernel, the kernel is given back    *)
(* only after the proxy, and the manager never settles in a state that     *)
(* tells the user "not connected" while it still holds either of them.     *)
(* KernelManager implements this specification for a client that waits for *)
(* one call to return before it makes the next.                            *)
(***************************************************************************)
VARIABLES phase,   \* what the user is told
          proxy,   \* the OS proxy points at a port of ours
          kernel   \* the launcher holds a kernel of ours

vars == <<phase, proxy, kernel>>

Phases == {"Disconnected", "Connecting", "Connected", "Error"}

Init == phase = "Disconnected" /\ ~proxy /\ ~kernel

Start ==
    /\ phase \in {"Disconnected", "Error"}
    /\ ~proxy /\ ~kernel
    /\ phase' = "Connecting"
    /\ UNCHANGED <<proxy, kernel>>

TakeKernel ==
    /\ phase = "Connecting" /\ ~proxy
    /\ kernel' = TRUE
    /\ UNCHANGED <<phase, proxy>>

\* Connected with the proxy (SystemProxy) or without (Tun).
Establish ==
    /\ phase = "Connecting" /\ kernel
    /\ phase' = "Connected"
    /\ proxy' \in {proxy, TRUE}
    /\ UNCHANGED kernel

\* The guard takes back a proxy another application changed.
Reassert ==
    /\ phase = "Connected" /\ kernel
    /\ proxy' = TRUE
    /\ UNCHANGED <<phase, kernel>>

\* Ours when a disconnect clears it; another application's at any time.
DropProxy ==
    /\ proxy' = FALSE
    /\ UNCHANGED <<phase, kernel>>

\* A kernel that goes away on its own keeps its slot: DropKernel is the
\* deliberate stop, which comes after the proxy.
DropKernel ==
    /\ ~proxy
    /\ kernel' = FALSE
    /\ UNCHANGED <<phase, proxy>>

Settle ==
    /\ phase' \in {"Disconnected", "Error"}
    /\ ~proxy' /\ ~kernel'

Next == \/ Start \/ TakeKernel \/ Establish \/ Reassert
        \/ DropProxy \/ DropKernel \/ Settle

Spec == Init /\ [][Next]_vars
=============================================================================
