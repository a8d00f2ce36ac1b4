--------------------------- MODULE Cluster_proofs ---------------------------
(***************************************************************************)
(* The controller service, the node plugins and what runs between them are *)
(* together a life of the volume that the controller service's promise     *)
(* allows, for every number of nodes, handlers, requests and faults.       *)
(***************************************************************************)
EXTENDS Cluster, VolumeAttach_proofs, Sequences

ServiceInv == TypeOK /\ SerialInv /\ ExpandInv

\* A step of the whole is a step of the controller service or none of it.
LEMMA ServiceNext ==
    ASSUME ~Overlap, ~OmitNode, ~LateRequests
    PROVE  ServiceInv /\ [ClusterNext]_<<vars, nodeVars>> => ServiceInv'
<1>1. [ClusterNext]_<<vars, nodeVars>> => [Next]_vars
  BY DEF ClusterNext, ControllerSide, NodeSide
<1> QED
  BY <1>1, TypeNext, SerialNext, ExpandNext DEF ServiceInv

LEMMA ServiceInit == ClusterInit => ServiceInv
BY TypeInit, SerialInit, ExpandInit DEF ClusterInit, ServiceInv

\* The node side never changes the volume's place.
LEMMA NodeSideImplements ==
    ASSUME NodeSide
    PROVE  Life!Next
BY DEF NodeSide, Life!Next

\* What the controller side does is a step of its promise that the attach/detach
\* controller may take, or none.
LEMMA ControllerSideImplements ==
    ASSUME ~Overlap, ~OmitNode, ~LateRequests, ServiceInv, ControllerSide
    PROVE  [Life!Next]_(Life!vars)
<1>1. [Attachment!Next]_(Attachment!vars)
  BY AttachmentNext DEF ServiceInv, ControllerSide
<1>2. UNCHANGED <<Life!process, Life!pods, Life!node, nodeFaults>>
  BY DEF ControllerSide, nodeVars, Life!process, Life!pods, Life!node, Life!mounts, Life!told
<1>3. CASE UNCHANGED Attachment!vars
  BY <1>2, <1>3 DEF Attachment!vars, Life!vars, Life!attachment
<1>4. ASSUME NEW n \in Nodes, Attachment!Ask(n) PROVE Life!AttachStep(n)
  <2>1. va[n] = "none" /\ va'[n] = "attach"
    BY <1>4 DEF Attachment!Ask, ServiceInv, TypeOK
  <2>2. wanted[n]
    BY <2>1 DEF ControllerSide
  <2> QED
    BY <1>2, <1>4, <2>2 DEF Attachment!Ask, Life!AttachStep, Life!Ask, Life!Attachment!Ask
<1>5. ASSUME NEW n \in Nodes, Attachment!AskBack(n) PROVE Life!AttachStep(n)
  <2>1. va[n] # "detach" /\ va'[n] = "detach"
    BY <1>5 DEF Attachment!AskBack, ServiceInv, TypeOK
  <2>2. Life!Released(n)
    BY <2>1 DEF ControllerSide
  <2> QED
    BY <1>2, <1>5, <2>2
       DEF Attachment!AskBack, Life!AttachStep, Life!AskBack, Life!Attachment!AskBack
<1>6. ASSUME NEW n \in Nodes,
             Attachment!Attach(n) \/ Attachment!ConfirmAttached(n) \/ Attachment!Detach(n)
      PROVE  Life!AttachStep(n)
  BY <1>2, <1>6
     DEF Attachment!Attach, Attachment!ConfirmAttached, Attachment!Detach, Life!AttachStep,
         Life!Attachment!Attach, Life!Attachment!ConfirmAttached, Life!Attachment!Detach
<1>7. ASSUME NEW n \in Nodes, Attachment!ConfirmReleased(n) PROVE Life!ConfirmReleased(n)
  BY <1>2, <1>7
     DEF Attachment!ConfirmReleased, Life!ConfirmReleased, Life!Attachment!ConfirmReleased
<1>8. CASE Attachment!Grow
  <2>1. vol'.size \in Nat \ {0}
    BY <1>8 DEF Attachment!Grow, ServiceInv, TypeOK
  <2>2. Life!Grow
    BY <1>2, <1>8, <2>1 DEF Attachment!Grow, Life!Grow, Life!Attachment!Grow
  <2> QED
    BY <2>2 DEF Life!Next
<1> QED
  BY <1>1, <1>3, <1>4, <1>5, <1>6, <1>7, <1>8 DEF Attachment!Next, Life!Next

LEMMA ClusterNextImplements ==
    ASSUME ~Overlap, ~OmitNode, ~LateRequests
    PROVE  ServiceInv /\ [ClusterNext]_<<vars, nodeVars>> => [Life!Next]_(Life!vars)
<1>1. UNCHANGED <<vars, nodeVars>> => UNCHANGED Life!vars
  BY DEF vars, nodeVars, Holder, Life!vars, Life!attachment, Life!process, Life!pods,
         Life!node, Life!mounts, Life!told
<1> QED
  BY <1>1, NodeSideImplements, ControllerSideImplements DEF ClusterNext

\* For sidecars that wait for the controller service, whatever the kubelets do.
THEOREM ClusterImplementsLifecycle ==
    ASSUME ~Overlap, ~OmitNode, ~LateRequests
    PROVE  ClusterSpec => ImplementsLifecycle
<1>1. ClusterInit => Life!Init
  BY DEF ClusterInit
<1> QED
  BY <1>1, ServiceInit, ServiceNext, ClusterNextImplements, PTL
     DEF ClusterSpec, ImplementsLifecycle, Life!Spec
---------------------------------------------------------------------------
(* What follows from the theorems about VolumeLifecycle.                   *)

\* The constants of the node side are what VolumeLifecycle assumes of them.
NodeConstants ==
    /\ NodeOf \in [PluginSlots -> Nodes] /\ MaxNodeFaults \in Nat
    /\ {ToolsFail, BlkidUnsure, KubeletOverlap} \subseteq BOOLEAN

LEMMA LifeAssumptions ==
    ASSUME NodeConstants
    PROVE  /\ Life!NodesAssumption /\ Life!SizesAssumption /\ Life!ToolsAssumption
           /\ Life!FaultsAssumption /\ Life!OverlapAssumption
BY NodesAssumption
   DEF NodeConstants, Life!NodesAssumption, Life!SizesAssumption, Life!ToolsAssumption,
       Life!FaultsAssumption, Life!OverlapAssumption

LEMMA ServiceAlways ==
    ASSUME ~Overlap, ~OmitNode, ~LateRequests
    PROVE  ClusterSpec => []ServiceInv
BY ServiceInit, ServiceNext, PTL DEF ClusterSpec

\* What is in use on a node is there and not asked back; and the API then has it
\* attached.
LEMMA MountedFollows ==
    ASSUME ServiceInv, Life!DetachedIsUnmounted
    PROVE  MountedIsAttached
BY DEF ServiceInv, SerialInv, PlaceInv, PublishedStaysAttached, Life!DetachedIsUnmounted,
       MountedIsAttached

\* With callers that wait, the Civo API never takes a volume from under a mount: the
\* promises of the two services fit together.
THEOREM MountedStaysAttached ==
    ASSUME ~Overlap, ~OmitNode, ~LateRequests, ~KubeletOverlap, NodeConstants
    PROVE  ClusterSpec => []MountedIsAttached
<1>1. Life!Spec => []Life!DetachedIsUnmounted
  BY LifeAssumptions, Life!UnmountedBeforeDetached
<1> QED
  BY <1>1, MountedFollows, ServiceAlways, ClusterImplementsLifecycle, PTL
     DEF ImplementsLifecycle

\* With tools that work, too, a running pod sees the volume that is attached.
THEOREM PodsHaveVolume ==
    ASSUME ~Overlap, ~OmitNode, ~LateRequests, ~KubeletOverlap, ~ToolsFail, NodeConstants
    PROVE  ClusterSpec => []PodHasVolume
<1>1. Life!Spec => []Life!TypeOK /\ []Life!PodOnVolume
  BY LifeAssumptions, Life!TypeCorrect, Life!PodSeesVolume
<1>2. ASSUME Life!TypeOK, Life!PodOnVolume, MountedIsAttached, NEW n \in Nodes, running[n]
      PROVE  Life!OnVolume(n) /\ vol.status = "attached" /\ vol.inst = n
  <2>1. Life!OnVolume(n)
    BY <1>2 DEF Life!PodOnVolume
  <2>2. target[n] \in Seq({"volume", "node"})
    BY <1>2 DEF Life!TypeOK, Life!NodeTypeOK
  <2>3. Len(target[n]) \in 1 .. Len(target[n]) /\ target[n][Len(target[n])] = "volume"
    BY <2>1, <2>2 DEF Life!OnVolume, Life!Mounted
  <2>4. Life!InUse(n)
    BY <2>3 DEF Life!InUse
  <2> QED
    BY <1>2, <2>1, <2>4 DEF MountedIsAttached
<1>3. Life!TypeOK /\ Life!PodOnVolume /\ MountedIsAttached => PodHasVolume
  BY <1>2 DEF PodHasVolume
<1> QED
  BY <1>1, <1>3, MountedStaysAttached, ClusterImplementsLifecycle, PTL
     DEF ImplementsLifecycle

\* With a blkid that tells, what a pod has written stays on the volume, whatever fails
\* or restarts in the controller service and on the nodes.
THEOREM DataSurvives ==
    ASSUME ~Overlap, ~OmitNode, ~LateRequests, ~KubeletOverlap, ~BlkidUnsure, NodeConstants
    PROVE  ClusterSpec => Life!DataKept
<1>1. Life!Spec => Life!DataKept
  BY LifeAssumptions, Life!DataStays
<1> QED
  BY <1>1, ClusterImplementsLifecycle, PTL DEF ImplementsLifecycle

\* The capacity that a claim reports is one that the API gave the volume and that
\* its file system has, also with kubelets that give up on calls.
THEOREM ClaimsAreTrue ==
    ASSUME ~Overlap, ~OmitNode, ~LateRequests, NodeConstants
    PROVE  ClusterSpec => []ClaimIsTrue
<1>1. Life!Spec => []Life!CommonInv
  BY LifeAssumptions, Life!CommonAlways
<1>2. Life!CommonInv => ClaimIsTrue
  <2> SUFFICES ASSUME Life!CommonInv PROVE ClaimIsTrue
    OBVIOUS
  <2>1. claim \in [spec : Nat \ {0}, status : Nat \ {0}] /\ vol.size \in Nat
        /\ disk \in [fs : Nat, data : BOOLEAN]
    BY DEF Life!CommonInv, Life!TypeOK, Life!NodeTypeOK
  <2> QED
    BY <2>1 DEF Life!CommonInv, Life!SizeInv, ClaimIsTrue
<1> QED
  BY <1>1, <1>2, ClusterImplementsLifecycle, PTL DEF ImplementsLifecycle
===========================================================================
