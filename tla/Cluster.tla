------------------------------ MODULE Cluster ------------------------------
(***************************************************************************)
(* The whole driver on one volume: the controller service itself           *)
(* (VolumeAttach) with the node plugins, the kubelets and the pods of      *)
(* VolumeLifecycle, where VolumeLifecycle has only what the controller     *)
(* service promises (ExclusiveAttachment).  The two services share nothing *)
(* but the volume; the attach/detach controller and the resizer carry what *)
(* one side says to the other.                                             *)
(***************************************************************************)
EXTENDS VolumeAttach

CONSTANTS
    PluginSlots,    \* handlers of the node plugins (a bound)
    NodeOf,         \* plugin slot -> the node whose plugin it runs in
    ToolsFail, BlkidUnsure,
    KubeletOverlap, \* a kubelet may give up on a call that is still running
    MaxNodeFaults   \* bound on errors, timeouts, restarts and reboots of nodes

VARIABLES disk, staged, target, dir, plugin, kubelet, claim, nodeFaults,
          wanted, running, proc, socket

nodeVars == <<disk, staged, target, dir, plugin, kubelet, claim, nodeFaults,
              wanted, running, proc, socket>>

\* The node side, with the volume where the controller service has put it (by
\* way of its theorems, which Cluster_proofs cites).
Life == INSTANCE VolumeLifecycle_proofs WITH
    want <- va, holder <- Holder, size <- vol.size, Sizes <- Nat \ {0},
    hd <- plugin, faults <- nodeFaults,
    Slots <- PluginSlots, Overlap <- KubeletOverlap, MaxFaults <- MaxNodeFaults

ClusterInit == Init /\ Life!Init

\* The controller service, its sidecars and the Civo API go on.  A VA is created
\* for a scheduled pod, and deleted when the kubelet has released the volume.
ControllerSide ==
    /\ Next
    /\ \A n \in Nodes :
        /\ va[n] = "none" /\ va'[n] = "attach" => wanted[n]
        /\ va[n] # "detach" /\ va'[n] = "detach" => Life!Released(n)
    /\ UNCHANGED nodeVars

\* The node plugins, the kubelets and the pods go on.
NodeSide ==
    /\ UNCHANGED vars
    /\ \/ \E h \in PluginSlots : Life!Step(h) \/ Life!Calls(h) \/ Life!GiveUp(h)
       \/ \E n \in Nodes :
            \/ Life!PluginStep(n) \/ Life!PluginFails(n)
            \/ Life!PluginKilled(n) \/ Life!Reboot(n)
            \/ Life!Schedule(n) \/ Life!Unschedule(n)
            \/ Life!StartPod(n) \/ Life!PodWrites(n)
       \/ told # 0 /\ Life!NodeExpansionRequired

ClusterNext == ControllerSide \/ NodeSide

ClusterSpec == ClusterInit /\ [][ClusterNext]_<<vars, nodeVars>>

---------------------------------------------------------------------------
(* Properties.                                                             *)

\* With the real controller service behind it, the volume's life on the nodes
\* is one that the controller service's promise allows.
ImplementsLifecycle == Life!Spec

\* While anything of the volume is mounted on a node, the API has it attached to
\* that node: it neither detaches nor resizes nor deletes the volume there.
MountedIsAttached ==
    \A n \in Nodes : Life!InUse(n) => vol.status = "attached" /\ vol.inst = n

\* A running pod sees on its path the volume that the API has attached to its
\* node, and no other directory.
PodHasVolume ==
    \A n \in Nodes : running[n] =>
        Life!OnVolume(n) /\ vol.status = "attached" /\ vol.inst = n

\* The capacity that the claim reports is one that the volume has at the API and
\* that its file system has on the node.
ClaimIsTrue ==
    claim.status <= vol.size /\ (disk.fs # 0 => claim.status <= disk.fs)
===========================================================================
