------------------------ MODULE ExclusiveAttachment ------------------------
(***************************************************************************)
(* What the attach side of the driver promises the container orchestrator, *)
(* for one volume that one node may hold at a time: the volume changes     *)
(* hands only on request, a confirmed attachment or release is true, and   *)
(* the volume grows only while no node has it.                             *)
(***************************************************************************)
EXTENDS Naturals

CONSTANTS Nodes, None, Sizes

VARIABLES
    want,       \* node -> what the orchestrator asked for and was told
    holder,     \* the node that has the volume
    size        \* the volume's size

vars == <<want, holder, size>>

Init == want = [n \in Nodes |-> "none"] /\ holder = None /\ size \in Sizes

Ask(n) ==
    /\ \A m \in Nodes : want[m] = "none"
    /\ want' = [want EXCEPT ![n] = "attach"]
    /\ UNCHANGED <<holder, size>>

\* The request may be withdrawn while the attach is on its way.
Attach(n) ==
    /\ want[n] \in {"attach", "detach"}
    /\ holder = None
    /\ holder' = n
    /\ UNCHANGED <<want, size>>

ConfirmAttached(n) ==
    /\ want[n] = "attach" /\ holder = n
    /\ want' = [want EXCEPT ![n] = "attached"]
    /\ UNCHANGED <<holder, size>>

AskBack(n) ==
    /\ want[n] \in {"attach", "attached"}
    /\ want' = [want EXCEPT ![n] = "detach"]
    /\ UNCHANGED <<holder, size>>

Detach(n) ==
    /\ want[n] = "detach" /\ holder = n
    /\ holder' = None
    /\ UNCHANGED <<want, size>>

ConfirmReleased(n) ==
    /\ want[n] = "detach" /\ holder # n
    /\ want' = [want EXCEPT ![n] = "none"]
    /\ UNCHANGED <<holder, size>>

\* Offline expansion.
Grow ==
    /\ holder = None
    /\ size' \in Sizes /\ size' > size
    /\ UNCHANGED <<want, holder>>

Next ==
    \/ \E n \in Nodes : \/ Ask(n) \/ Attach(n) \/ ConfirmAttached(n)
                        \/ AskBack(n) \/ Detach(n) \/ ConfirmReleased(n)
    \/ Grow

Spec == Init /\ [][Next]_vars
===========================================================================
