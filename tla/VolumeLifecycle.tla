-------------------------- MODULE VolumeLifecycle --------------------------
(***************************************************************************)
(* One volume over the cluster: the node side (NodeVolume) in the node     *)
(* plugins' processes (DriverProcess), the attach side by what it promises *)
(* (ExclusiveAttachment, which VolumeAttach implements), and between them  *)
(* the container orchestrator: the scheduler, the kubelets, the            *)
(* attach/detach controller and the resizer.                               *)
(***************************************************************************)
EXTENDS NodeVolume

CONSTANTS
    Overlap         \* a kubelet may give up on a call that is still running

ASSUME OverlapAssumption == Overlap \in BOOLEAN

VARIABLES
    want,           \* node -> what the attach side was asked for and confirmed
    wanted,         \* node -> a pod that uses the volume is scheduled there
    running,        \* node -> its containers run
    proc, socket    \* the node plugins' processes and their sockets

attachment == <<want, holder, size>>
process == <<proc, socket>>
pods == <<wanted, running>>
node == <<disk, mounts, hd, told>>
vars == <<attachment, process, pods, node, faults>>

Attachment == INSTANCE ExclusiveAttachment
Plugin == INSTANCE DriverProcess WITH
    Processes <- Nodes,
    calls <- [n \in Nodes |-> {h \in Slots : NodeOf[h] = n /\ hd[h].pc # "idle"}]

Init ==
    /\ Attachment!Init /\ Plugin!Init /\ NodeInit
    /\ wanted = [n \in Nodes |-> FALSE]
    /\ running = [n \in Nodes |-> FALSE]

Step(h) == NodeStep(h) /\ UNCHANGED <<attachment, process, pods>>

---------------------------------------------------------------------------
(* The kubelets: one call at a time for the volume.                        *)

Waiting(n) == \E h \in Slots : NodeOf[h] = n /\ hd[h].awaited

Call(h, op) ==
    /\ ~Waiting(NodeOf[h]) /\ hd[h].pc = "idle" /\ Plugin!AcceptsCalls(NodeOf[h])
    /\ hd' = [hd EXCEPT ![h] = [op |-> op, pc |-> "begin", awaited |-> TRUE]]
    /\ UNCHANGED <<attachment, process, pods, disk, mounts, told, faults>>

\* Not before the attachment is confirmed.
CallStage(h) ==
    /\ wanted[NodeOf[h]] /\ want[NodeOf[h]] = "attached"
    /\ kubelet[NodeOf[h]].staged # "yes"
    /\ Call(h, "stage")

CallPublish(h) ==
    /\ wanted[NodeOf[h]]
    /\ kubelet[NodeOf[h]].staged = "yes" /\ kubelet[NodeOf[h]].published # "yes"
    /\ Call(h, "publish")

\* A resize is pending when the volume is staged, or while the pod runs.
CallExpand(h) ==
    /\ wanted[NodeOf[h]] /\ kubelet[NodeOf[h]].staged = "yes"
    /\ claim.status < claim.spec
    /\ Call(h, "expand")

CallUnpublish(h) ==
    /\ ~wanted[NodeOf[h]] /\ kubelet[NodeOf[h]].published # "no"
    /\ Call(h, "unpublish")

CallUnstage(h) ==
    /\ ~wanted[NodeOf[h]]
    /\ kubelet[NodeOf[h]].published = "no" /\ kubelet[NodeOf[h]].staged # "no"
    /\ Call(h, "unstage")

Calls(h) ==
    \/ CallStage(h) \/ CallPublish(h) \/ CallExpand(h)
    \/ CallUnpublish(h) \/ CallUnstage(h)

\* The kubelet's timeout expires: the outcome is uncertain, the handler runs on.
GiveUp(h) ==
    /\ Overlap /\ hd[h].awaited
    /\ Fault
    /\ kubelet' = Believes(h, "maybe")
    /\ hd' = [hd EXCEPT ![h].awaited = FALSE]
    /\ UNCHANGED <<attachment, process, pods, disk, mounts, claim>>

---------------------------------------------------------------------------
(* The node plugins' processes, and the nodes.                             *)

PluginStep(n) == Plugin!Step(n) /\ UNCHANGED <<attachment, pods, node, faults>>

\* A call of the start that fails, or a signal (a rolling update, say).
PluginFails(n) ==
    /\ Fault
    /\ Plugin!StartFails(n) \/ Plugin!Signal(n)
    /\ UNCHANGED <<attachment, pods, node>>

HandlersOf(n) == {h \in Slots : NodeOf[h] = n}
HandlersDie(n) == hd' = [h \in Slots |-> IF NodeOf[h] = n THEN Idle ELSE hd[h]]

\* The plugin is killed with its handlers; mounts stay, and what became of the
\* call is uncertain.
PluginKilled(n) ==
    /\ Fault
    /\ Plugin!Kill(n) /\ proc' # proc
    /\ HandlersDie(n)
    /\ IF Waiting(n)
       THEN kubelet' = Believes(CHOOSE h \in HandlersOf(n) : hd[h].awaited, "maybe")
       ELSE UNCHANGED kubelet
    /\ UNCHANGED <<attachment, pods, disk, mounts, claim>>

\* The node reboots: processes, mounts and containers are gone, files stay.
Reboot(n) ==
    /\ Fault
    /\ Plugin!Kill(n)
    /\ HandlersDie(n)
    /\ staged' = [staged EXCEPT ![n] = FALSE]
    /\ target' = [target EXCEPT ![n] = << >>]
    /\ running' = [running EXCEPT ![n] = FALSE]
    /\ kubelet' = [kubelet EXCEPT ![n] = Nothing]
    /\ UNCHANGED <<attachment, wanted, disk, dir, claim>>

---------------------------------------------------------------------------
(* The pods.                                                               *)

Schedule(n) ==
    /\ ~wanted[n] /\ wanted' = [wanted EXCEPT ![n] = TRUE]
    /\ UNCHANGED <<attachment, process, running, node, faults>>

Unschedule(n) ==
    /\ wanted[n] /\ wanted' = [wanted EXCEPT ![n] = FALSE]
    /\ running' = [running EXCEPT ![n] = FALSE]
    /\ UNCHANGED <<attachment, process, node, faults>>

StartPod(n) ==
    /\ wanted[n] /\ ~running[n]
    /\ kubelet[n].published = "yes" /\ ~Waiting(n)
    /\ running' = [running EXCEPT ![n] = TRUE]
    /\ UNCHANGED <<attachment, process, wanted, node, faults>>

PodWrites(n) ==
    /\ running[n] /\ OnVolume(n) /\ Device(n) /\ ~disk.data
    /\ disk' = [disk EXCEPT !.data = TRUE]
    /\ UNCHANGED <<attachment, process, pods, mounts, hd, told, faults>>

---------------------------------------------------------------------------
(* The attach/detach controller and the resizer.                           *)

Ask(n) == wanted[n] /\ Attachment!Ask(n)

Released(n) == ~wanted[n] /\ ~Waiting(n) /\ kubelet[n] = Nothing

\* The volume is asked back once the kubelet reports it as not in use.
AskBack(n) == Released(n) /\ Attachment!AskBack(n)

AttachStep(n) ==
    /\ \/ Ask(n) \/ AskBack(n)
       \/ Attachment!Attach(n) \/ Attachment!ConfirmAttached(n) \/ Attachment!Detach(n)
    /\ UNCHANGED <<process, pods, node, faults>>

ConfirmReleased(n) ==
    Attachment!ConfirmReleased(n) /\ UNCHANGED <<process, pods, node, faults>>

Grow == Attachment!Grow /\ UNCHANGED <<process, pods, node, faults>>

\* ControllerExpandVolume answered: the nodes are to expand the file system.
NodeExpansionRequired ==
    /\ claim.spec < size
    /\ claim' = [claim EXCEPT !.spec = size]
    /\ UNCHANGED <<attachment, process, pods, disk, mounts, hd, kubelet, faults>>

---------------------------------------------------------------------------

Next ==
    \/ \E h \in Slots : Step(h) \/ Calls(h) \/ GiveUp(h)
    \/ \E n \in Nodes :
        \/ PluginStep(n) \/ PluginFails(n) \/ PluginKilled(n) \/ Reboot(n)
        \/ Schedule(n) \/ Unschedule(n) \/ StartPod(n) \/ PodWrites(n)
        \/ AttachStep(n) \/ ConfirmReleased(n)
    \/ Grow \/ NodeExpansionRequired

Spec == Init /\ [][Next]_vars

\* Handlers and processes run, the kubelet's volume manager calls again until
\* it has what it wants, and the controller side serves the nodes. Nobody has
\* to (un)schedule a pod, stop a plugin or grow the volume.
Fairness ==
    /\ \A h \in Slots : WF_vars(Step(h))
    /\ WF_vars(\E h \in Slots : Calls(h))
    /\ WF_vars(\E n \in Nodes : PluginStep(n))
    /\ WF_vars(\E n \in Nodes : StartPod(n))
    /\ WF_vars(\E n \in Nodes : AttachStep(n))
    /\ SF_vars(\E n \in Nodes : ConfirmReleased(n))
    /\ WF_vars(NodeExpansionRequired)

FairSpec == Spec /\ Fairness

---------------------------------------------------------------------------
(* Properties.                                                             *)

TypeOK ==
    /\ NodeTypeOK /\ Plugin!TypeInvariant
    /\ want \in [Nodes -> {"none", "attach", "attached", "detach"}]
    /\ {wanted, running} \subseteq [Nodes -> BOOLEAN]

\* A running pod sees the volume on its path, never a directory of the node's
\* own disk (README.md:34-35: NodeStageVolume formats and mounts the volume,
\* "When the volume is formatted and mounted, Node's NodePublishVolume is
\* called to bind mount that mount point into the pod's specific mount point").
PodOnVolume == \A n \in Nodes : running[n] => OnVolume(n)

\* What a pod has written stays on the volume (README.md:41 "At this point the
\* volume still exists and still contains data").
DataKept == [][disk.data => disk'.data]_vars

\* While anything of the volume is mounted on a node, the node has the volume and
\* nobody has asked for it back (README.md:38-39: "Then the actual volume is
\* unmounted with Node's NodeUnstageVolume. Finally the volume is detached").
DetachedIsUnmounted ==
    \A n \in Nodes : InUse(n) => holder = n /\ want[n] = "attached"

\* The capacity that the claim reports is there: NodeExpandVolume says OK only
\* when the file system has the size that ControllerExpandVolume told.
CapacityIsUsable == disk.fs # 0 => disk.fs >= claim.status

\* A volume that was grown while it was detached is seen in full by a pod that
\* keeps running.
PodSeesWholeVolume ==
    \A n \in Nodes : running[n] ~> (disk.fs = size \/ ~running[n])

\* A plugin that answers calls has its driver and has read its cluster: although
\* nothing exits after the errors of NewDriver and GetKubernetesCluster
\* (main.go:36-46), what follows them stops on the nil pointer they came with.
ServesOnlyConfigured ==
    \A n \in Nodes : Plugin!AcceptsCalls(n) => proc[n].driver /\ proc[n].cluster

\* A plugin that is stopped and not killed lets its handlers finish: no mkfs,
\* mount or umount is cut off and no call is left without its answer.
StopLetsCallsFinish ==
    [][\A h \in Slots : proc'[NodeOf[h]].pc = "starting" /\ hd[h].pc # "idle"
                        => faults' # faults]_vars

\* A signal ends the plugin, whenever it comes.
SignalStops == \A n \in Nodes : proc[n].ctx = "cancelled" ~> proc[n].pc = "starting"

Alone(n) == \A m \in Nodes : wanted[m] <=> m = n

\* A pod that stays scheduled, and alone wants the volume, runs, whatever node
\* has the volume and whatever the calls before it left behind.
PodStarts == \A n \in Nodes : Alone(n) ~> (running[n] \/ ~Alone(n))

\* What a kubelet believes to be gone is gone: once it has released the volume, and
\* so before it is detached, nothing of it is mounted on the node, whatever half
\* calls, kills and reboots came before (README.md:37-38: "The bind-mount for the volume is
\* removed with Node's NodeUnpublishVolume", "Then the actual volume is unmounted").
NothingLeftBehind ==
    \A n \in Nodes : Released(n) => ~staged[n] /\ target[n] = << >>

\* An unpublish does not come to its answer over a bind mount, however many an
\* abandoned publish has stacked beside it: at that moment the path is empty and gone.
UnpublishLeavesNothing ==
    [][\A h \in Slots : hd[h].op = "unpublish" /\ hd[h].pc # "reply" /\ hd'[h].pc = "reply"
                        => target'[NodeOf[h]] = << >> /\ ~dir'[NodeOf[h]]]_vars

\* A volume whose pods are gone for good is released in the end: its kubelet gets the
\* answers that it needs, whatever failed or abandoned calls have left behind. Whether
\* it is right to believe them is NothingLeftBehind's.
ReleaseServed ==
    <>[](\A n \in Nodes : ~wanted[n]) => <>[](\A n \in Nodes : kubelet[n] = Nothing)
===========================================================================
