---------------------------- MODULE NodeVolume ----------------------------
(***************************************************************************)
(* The node side of one volume: NodeStageVolume, NodeUnstageVolume,        *)
(* NodePublishVolume, NodeUnpublishVolume and NodeExpandVolume of          *)
(* pkg/driver/node_server.go over RealDiskHotPlugger of hotplug_disk.go,   *)
(* on every node of the cluster.                                           *)
(*                                                                         *)
(* One action per command a handler runs (glob, blkid, mkfs, findmnt,      *)
(* mount, umount, remove, resize2fs): what one command found may no longer *)
(* hold when the next one runs. The answer is an action of its own.        *)
(***************************************************************************)
EXTENDS Naturals, Sequences

CONSTANTS
    Nodes, None,
    Slots,          \* gRPC handlers of the node plugins (a bound)
    NodeOf,         \* slot -> the node whose plugin the handler runs in
    Sizes,          \* sizes of the volume, in GB
    ToolsFail,      \* mkfs and mount may fail
    BlkidUnsure,    \* blkid may exit with 2 for a disk it cannot read
    MaxFaults       \* bound on errors, timeouts, restarts and reboots

ASSUME NodesAssumption == NodeOf \in [Slots -> Nodes] /\ None \notin Nodes
ASSUME SizesAssumption == Sizes \subseteq Nat \ {0}
ASSUME ToolsAssumption == {ToolsFail, BlkidUnsure} \subseteq BOOLEAN
ASSUME FaultsAssumption == MaxFaults \in Nat

VARIABLES
    holder,     \* the node that has the device: /dev/disk/by-id has the volume
    size,       \* the size of the volume
    disk,       \* its content: the size of its file system, 0 if it is blank,
                \* and whether a pod has written data
    staged,     \* node -> the file system is mounted on the staging path
    target,     \* node -> the bind mounts stacked on the target path
    dir,        \* node -> the target directory exists
    hd,         \* slot -> the handler running in it
    kubelet,    \* node -> what its kubelet was told: staged, published
    claim,      \* the claim's size: asked of the nodes, and reported as usable
    faults

mounts == <<staged, target, dir>>
told == <<kubelet, claim>>

Idle == [op |-> "none", pc |-> "idle", awaited |-> FALSE]
Nothing == [staged |-> "no", published |-> "no"]

NodeInit ==
    /\ disk \in [fs : {0, size}, data : BOOLEAN] /\ (disk.data => disk.fs # 0)
    /\ staged = [n \in Nodes |-> FALSE]
    /\ target = [n \in Nodes |-> << >>]
    /\ dir = [n \in Nodes |-> FALSE]
    /\ hd = [h \in Slots |-> Idle]
    /\ kubelet = [n \in Nodes |-> Nothing]
    /\ claim = [spec |-> size, status |-> size]
    /\ faults = 0

Fault == faults < MaxFaults /\ faults' = faults + 1

At(h, op, label) == hd[h].op = op /\ hd[h].pc = label
Goto(h, label) == hd' = [hd EXCEPT ![h].pc = label] /\ UNCHANGED told

\* What the kubelet believes after an answer to the call of handler h.
Believes(h, answer) ==
    IF ~hd[h].awaited \/ hd[h].op = "expand" THEN kubelet
    ELSE IF hd[h].op \in {"stage", "unstage"}
         THEN [kubelet EXCEPT ![NodeOf[h]].staged = answer]
         ELSE [kubelet EXCEPT ![NodeOf[h]].published = answer]

\* The kubelet reports an expansion that was answered as done.
Expanded(h) ==
    IF hd[h].awaited /\ hd[h].op = "expand"
    THEN [claim EXCEPT !.status = claim.spec] ELSE claim

OK(h) == Goto(h, "reply")

Reply(h) ==
    /\ hd[h].pc = "reply"
    /\ hd' = [hd EXCEPT ![h] = Idle]
    /\ kubelet' = Believes(h, IF hd[h].op \in {"stage", "publish"} THEN "yes" ELSE "no")
    /\ claim' = Expanded(h)
    /\ UNCHANGED <<disk, mounts, faults>>

\* An error changes nothing the kubelet believes; it calls again.
Error(h) == hd' = [hd EXCEPT ![h] = Idle] /\ UNCHANGED told

\* A command that only looks may fail, and the handler returns its error.
LookFails(h) == Fault /\ Error(h)

\* PathForVolume finds the device.
Device(n) == holder = n
Mounted(n) == target[n] # << >>
OnVolume(n) == Mounted(n) /\ target[n][Len(target[n])] = "volume"
InUse(n) == staged[n] \/ \E i \in 1 .. Len(target[n]) : target[n][i] = "volume"

---------------------------------------------------------------------------
(* NodeStageVolume.                                                        *)

\* PathForVolume: no device, NotFound.
StagePath(h) ==
    /\ At(h, "stage", "begin")
    /\ IF Device(NodeOf[h]) THEN Goto(h, "blkid") ELSE Error(h)
    /\ UNCHANGED <<disk, mounts, faults>>

NeverFormatted(n) == FALSE
\* IsFormatted of the device path.
Formatted(n) == Device(n) /\ disk.fs # 0

\* IsFormatted: blkid's exit status 2 means not formatted, also for a device
\* that has gone meanwhile and for one that gives no information.
StageBlkid(h) ==
    /\ At(h, "stage", "blkid")
    /\ \/ Goto(h, IF Formatted(NodeOf[h]) THEN "findmnt" ELSE "mkfs") /\ UNCHANGED faults
       \/ BlkidUnsure /\ Fault /\ Goto(h, "mkfs")
       \/ LookFails(h)
    /\ UNCHANGED <<disk, mounts>>

CanFormat(n) == Device(n) /\ ~InUse(n)

\* Format; mkfs refuses a device in use. Its error is ignored.
StageMkfs(h) ==
    /\ At(h, "stage", "mkfs")
    /\ Goto(h, "findmnt")
    /\ \/ CanFormat(NodeOf[h]) /\ disk' = [fs |-> size, data |-> FALSE] /\ UNCHANGED faults
       \/ ~CanFormat(NodeOf[h]) /\ UNCHANGED <<disk, faults>>
       \/ ToolsFail /\ Fault /\ UNCHANGED disk
    /\ UNCHANGED mounts

DevicePresent(n) == Device(n)
\* IsMounted of the device path: an error when there is no path, else false,
\* because a device is not a mount point.
DeviceMounted(n) == FALSE

StageFindmnt(h) ==
    /\ At(h, "stage", "findmnt")
    /\ \/ /\ Device(NodeOf[h])
          /\ IF DeviceMounted(NodeOf[h]) THEN OK(h) ELSE Goto(h, "mount")
          /\ UNCHANGED faults
       \/ ~Device(NodeOf[h]) /\ Error(h) /\ UNCHANGED faults
       \/ LookFails(h)
    /\ UNCHANGED <<disk, mounts>>

CanMount(n) == Formatted(n) /\ ~staged[n]

MountErrorReturned(h) == IF CanMount(NodeOf[h]) THEN OK(h) ELSE Error(h)
\* The reply does not depend on what Mount returned.
StageReply(h) == OK(h)

\* Mount on the staging path; the kernel refuses a second mount of the same
\* device there. Its error is ignored.
StageMount(h) ==
    /\ At(h, "stage", "mount")
    /\ StageReply(h)
    /\ \/ CanMount(NodeOf[h]) /\ staged' = [staged EXCEPT ![NodeOf[h]] = TRUE] /\ UNCHANGED faults
       \/ ~CanMount(NodeOf[h]) /\ UNCHANGED <<staged, faults>>
       \/ ToolsFail /\ Fault /\ UNCHANGED staged
    /\ UNCHANGED <<disk, target, dir>>

---------------------------------------------------------------------------
(* NodeUnstageVolume.                                                      *)

DeviceIsMounted(n) == DeviceMounted(n)
\* IsMounted of the staging path.
StagingMounted(n) == staged[n]

UnstageFindmnt(h) ==
    /\ At(h, "unstage", "begin")
    /\ \/ StagingMounted(NodeOf[h]) /\ Goto(h, "umount") /\ UNCHANGED faults
       \/ ~StagingMounted(NodeOf[h]) /\ OK(h) /\ UNCHANGED faults
       \/ LookFails(h)
    /\ UNCHANGED <<disk, mounts>>

UnstageUmount(h) ==
    /\ At(h, "unstage", "umount")
    /\ \/ /\ staged[NodeOf[h]] /\ staged' = [staged EXCEPT ![NodeOf[h]] = FALSE]
          /\ OK(h) /\ UNCHANGED faults
       \/ ~staged[NodeOf[h]] /\ Error(h) /\ UNCHANGED <<staged, faults>>
       \/ LookFails(h) /\ UNCHANGED staged
    /\ UNCHANGED <<disk, target, dir>>

---------------------------------------------------------------------------
(* NodePublishVolume.                                                      *)

PublishMkdir(h) ==
    /\ At(h, "publish", "begin")
    /\ \/ dir' = [dir EXCEPT ![NodeOf[h]] = TRUE] /\ Goto(h, "findmnt") /\ UNCHANGED faults
       \/ LookFails(h) /\ UNCHANGED dir
    /\ UNCHANGED <<disk, staged, target>>

PublishFindmnt(h) ==
    /\ At(h, "publish", "findmnt")
    /\ \/ Mounted(NodeOf[h]) /\ OK(h) /\ UNCHANGED faults
       \/ ~Mounted(NodeOf[h]) /\ Goto(h, "bind") /\ UNCHANGED faults
       \/ LookFails(h)
    /\ UNCHANGED <<disk, mounts>>

BindsDevice(n) == "device"
BindSource(n) == IF staged[n] THEN "volume" ELSE "node"

\* The bind mount shows what is on the staging path now: the volume, or the
\* node's own disk. Its error is ignored.
PublishBind(h) ==
    /\ At(h, "publish", "bind")
    /\ OK(h)
    /\ dir' = [dir EXCEPT ![NodeOf[h]] = TRUE]
    /\ \/ /\ target' = [target EXCEPT ![NodeOf[h]] = Append(@, BindSource(NodeOf[h]))]
          /\ UNCHANGED faults
       \/ ToolsFail /\ Fault /\ UNCHANGED target
    /\ UNCHANGED <<disk, staged>>

---------------------------------------------------------------------------
(* NodeUnpublishVolume.                                                    *)

UnpublishFindmnt(h) ==
    /\ At(h, "unpublish", "begin")
    /\ \/ Mounted(NodeOf[h]) /\ Goto(h, "umount") /\ UNCHANGED faults
       \/ ~Mounted(NodeOf[h]) /\ Goto(h, "removeall") /\ UNCHANGED faults
       \/ LookFails(h)
    /\ UNCHANGED <<disk, mounts>>

RemoveMustFind(n) == ~Mounted(n) /\ dir[n]
\* A missing directory is no error, a mount point is.
CanRemove(n) == ~Mounted(n)

RemoveErrorDropped(h) ==
    /\ OK(h)
    /\ dir' = [dir EXCEPT ![NodeOf[h]] = Mounted(NodeOf[h])]
Remove(h) ==
    IF CanRemove(NodeOf[h]) THEN OK(h) /\ dir' = [dir EXCEPT ![NodeOf[h]] = FALSE]
                            ELSE Error(h) /\ UNCHANGED dir

\* os.RemoveAll removes the content of whatever is mounted on the directory,
\* and then fails to remove the mount point.
UnpublishRemoveAll(h) ==
    /\ At(h, "unpublish", "removeall")
    /\ disk' = IF OnVolume(NodeOf[h]) /\ Device(NodeOf[h])
               THEN [disk EXCEPT !.data = FALSE] ELSE disk
    /\ Remove(h)
    /\ UNCHANGED <<staged, target, faults>>

UnpublishUmount(h) ==
    /\ At(h, "unpublish", "umount")
    /\ \/ /\ Mounted(NodeOf[h])
          /\ target' = [target EXCEPT ![NodeOf[h]] = SubSeq(@, 1, Len(@) - 1)]
          /\ Goto(h, "rmdir") /\ UNCHANGED faults
       \/ ~Mounted(NodeOf[h]) /\ Error(h) /\ UNCHANGED <<target, faults>>
       \/ LookFails(h) /\ UNCHANGED target
    /\ UNCHANGED <<disk, staged, dir>>

\* os.Remove of the target directory.
UnpublishRmdir(h) ==
    /\ At(h, "unpublish", "rmdir")
    /\ Remove(h)
    /\ UNCHANGED <<disk, staged, target, faults>>

---------------------------------------------------------------------------
(* NodeExpandVolume.                                                       *)

\* GetVolume, then PathForVolume.
ExpandGet(h) ==
    /\ At(h, "expand", "begin")
    /\ \/ /\ IF Device(NodeOf[h]) THEN Goto(h, "blkid") ELSE Error(h)
          /\ UNCHANGED faults
       \/ LookFails(h)
    /\ UNCHANGED <<disk, mounts>>

\* ExpandFilesystem wants a formatted device.
ExpandBlkid(h) ==
    /\ At(h, "expand", "blkid")
    /\ \/ /\ IF Formatted(NodeOf[h]) THEN Goto(h, "resize2fs") ELSE Error(h)
          /\ UNCHANGED faults
       \/ LookFails(h)
    /\ UNCHANGED <<disk, mounts>>

MustResize(n) == Formatted(n) /\ InUse(n)
ResizeErrorIgnored(h) == OK(h)
ResizeError(h) == Error(h)

\* resize2fs to the size of the device; when it is not mounted it may want a
\* check of the file system first.
ExpandResize(h) ==
    /\ At(h, "expand", "resize2fs")
    /\ \/ Formatted(NodeOf[h]) /\ disk' = [disk EXCEPT !.fs = size] /\ OK(h) /\ UNCHANGED faults
       \/ ~MustResize(NodeOf[h]) /\ UNCHANGED <<disk, faults>> /\ ResizeError(h)
       \/ Fault /\ UNCHANGED disk /\ ResizeError(h)
    /\ UNCHANGED mounts

---------------------------------------------------------------------------

\* One command of the handler h.
NodeStep(h) ==
    \/ StagePath(h) \/ StageBlkid(h) \/ StageMkfs(h) \/ StageFindmnt(h) \/ StageMount(h)
    \/ UnstageFindmnt(h) \/ UnstageUmount(h)
    \/ PublishMkdir(h) \/ PublishFindmnt(h) \/ PublishBind(h)
    \/ UnpublishFindmnt(h) \/ UnpublishRemoveAll(h)
    \/ UnpublishUmount(h) \/ UnpublishRmdir(h)
    \/ ExpandGet(h) \/ ExpandBlkid(h) \/ ExpandResize(h)
    \/ Reply(h)

NodeTypeOK ==
    /\ holder \in Nodes \cup {None} /\ size \in Sizes
    /\ disk \in [fs : Sizes \cup {0}, data : BOOLEAN]
    /\ {staged, dir} \subseteq [Nodes -> BOOLEAN]
    /\ target \in [Nodes -> Seq({"volume", "node"})]
    /\ hd \in [Slots -> [op : {"none", "stage", "unstage", "publish", "unpublish", "expand"},
                         pc : {"idle", "begin", "blkid", "mkfs", "findmnt", "mount", "bind",
                               "umount", "removeall", "rmdir", "resize2fs", "reply"},
                         awaited : BOOLEAN]]
    /\ kubelet \in [Nodes -> [staged : {"no", "maybe", "yes"},
                              published : {"no", "maybe", "yes"}]]
    /\ claim \in [spec : Sizes, status : Sizes]
    /\ faults \in 0 .. MaxFaults
===========================================================================
