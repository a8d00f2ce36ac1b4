--------------------------- MODULE VolumeAttach ---------------------------
(***************************************************************************)
(* ControllerPublishVolume, ControllerUnpublishVolume and                  *)
(* ControllerExpandVolume of pkg/driver/controller_server.go on one        *)
(* volume, with the Civo API that changes the volume behind them and the   *)
(* sidecars that call them.                                                *)
(*                                                                         *)
(* A handler is a gRPC handler; each of its actions is one API round trip, *)
(* decided on what that round trip returned and not on what holds later.   *)
(* The attacher has one VolumeAttachment (VA) per node and at most one     *)
(* call it waits for per VA; when its timeout expires (Overlap) it retries *)
(* while the handler, which ignores its context, runs on.                  *)
(***************************************************************************)
EXTENDS VolumeSize

CONSTANTS
    Nodes,          \* instance ids
    None,           \* the empty instance id
    AttachSlots,    \* handlers that serve the attacher (a bound)
    ResizeSlots,    \* handlers that serve the resizer (a bound)
    InitSize,       \* the volume's size in GB
    AskedRange,     \* the capacity range asked of ControllerExpandVolume
    Retries,        \* CivoVolumeAvailableRetries * 2
    Overlap,        \* a sidecar may give up on a call that is still running
    OmitNode,       \* a client may unpublish with an empty node id
    LateRequests,   \* a request to the API may outlive the handler that sent it
    MaxFaults       \* bound on failed calls, timeouts and restarts

Slots == AttachSlots \cup ResizeSlots

ASSUME NodesAssumption == None \notin Nodes
ASSUME SlotsAssumption == AttachSlots \cap ResizeSlots = {}
ASSUME SizesAssumption == InitSize \in Nat /\ AskedRange \in CapacityRanges \ {NoRange}
ASSUME RetriesAssumption == Retries \in Nat \ {0}
ASSUME FlagsAssumption == {Overlap, OmitNode, LateRequests} \subseteq BOOLEAN
ASSUME FaultsAssumption == MaxFaults \in Nat

VARIABLES
    vol,        \* the volume at the API: status, inst, size
    va,         \* node -> none, attach, attached, detach: the node's VA
    hd,         \* slot -> the handler running in it, or the request it left behind
    told,       \* the capacity in bytes the resizer was last told, 0 at first
    faults

vars == <<vol, va, hd, told, faults>>

Statuses == {"available", "attaching", "attached", "detaching", "resizing",
             "deleted"}
Labels == {"idle", "get", "attach", "detach", "refetch", "resize", "wait",
           "final", "late"}

Idle(code) == [op |-> "none", node |-> None, pc |-> "idle", tries |-> 0,
               awaited |-> FALSE, code |-> code]

Init ==
    /\ vol = [status |-> "available", inst |-> None, size |-> InitSize]
    /\ va = [n \in Nodes |-> "none"]
    /\ hd = [h \in Slots |-> Idle("none")]
    /\ told = 0
    /\ faults = 0

Fault == faults < MaxFaults /\ faults' = faults + 1

At(h, op, label) == hd[h].op = op /\ hd[h].pc = label

\* The call of handler h returns; the attacher, if it still waits for it,
\* records a success in the VA.
Done(h, code) ==
    /\ hd' = [hd EXCEPT ![h] = Idle(code)]
    /\ va' = IF hd[h].awaited /\ code = "OK" /\ hd[h].node \in Nodes
             THEN [va EXCEPT ![hd[h].node] =
                      IF hd[h].op = "publish" THEN "attached" ELSE "none"]
             ELSE va

Goto(h, label) == hd' = [hd EXCEPT ![h].pc = label] /\ UNCHANGED va

\* Any API call may fail before it does anything; the handler returns the error.
CallFails(h) == Fault /\ Done(h, "Error") /\ UNCHANGED <<vol, told>>

---------------------------------------------------------------------------
(* ControllerPublishVolume.                                                *)

OwnedBy(n) == vol.inst = n

OwnedByWhateverStatus(n) == OwnedBy(n)
AttachedTo(n) == OwnedBy(n) /\ vol.status = "attached"

\* Nothing this call could wait for: gone, or with another node.
NotForUs(n) == vol.status = "deleted" \/ (vol.status # "available" /\ ~OwnedBy(n))

TakenOrOwned(n) == OwnedBy(n) \/ vol.status # "attaching"
\* The volume needs no attach request: it is the node's, in any state but one.
Taken(n) == OwnedBy(n) /\ vol.status # "attaching"

\* The cluster lookup (which changes nothing and fails like any call) and
\* GetVolume, with the decisions taken on what it returned.
PublishGet(h) ==
    LET n == hd[h].node IN
    /\ At(h, "publish", "get")
    /\ \/ AttachedTo(n) /\ Done(h, "OK")
       \/ NotForUs(n) /\ Done(h, "Error")
       \/ /\ ~AttachedTo(n) /\ ~NotForUs(n)
          /\ Goto(h, IF Taken(n) THEN "refetch" ELSE "attach")
    /\ UNCHANGED <<vol, told, faults>>

\* AttachVolume: accepted for a free volume; a volume already on its way to
\* the node may be accepted again or rejected; anything else is rejected.
PublishAttach(h) ==
    LET n == hd[h].node IN
    /\ At(h, "publish", "attach")
    /\ \/ /\ vol.status = "available"
          /\ vol' = [vol EXCEPT !.status = "attaching", !.inst = n]
          /\ \/ Goto(h, "refetch") /\ UNCHANGED faults
             \/ Fault /\ Done(h, "Error")
       \/ /\ OwnedBy(n) /\ vol.status \in {"attaching", "attached"}
          /\ Goto(h, "refetch")
          /\ UNCHANGED <<vol, faults>>
       \/ /\ vol.status # "available"
          /\ Done(h, "Error")
          /\ UNCHANGED <<vol, faults>>
    /\ UNCHANGED told

\* The second GetVolume, after the sleep.
PublishRefetch(h) ==
    /\ At(h, "publish", "refetch")
    /\ Done(h, IF AttachedTo(hd[h].node)
               THEN "OK" ELSE "Error")
    /\ UNCHANGED <<vol, told, faults>>

---------------------------------------------------------------------------
(* ControllerUnpublishVolume.                                              *)

NothingIfElsewhere(n) == vol.status = "deleted" \/ vol.inst \in Nodes \ {n}
NothingUnlessAttached(n) == vol.status # "attached" \/ ~OwnedBy(n)
\* Nothing to do: deleted, free, or with another node.
NothingToDetach(n) == vol.status \in {"deleted", "available"} \/ ~OwnedBy(n)

UnpublishGet(h) ==
    LET n == hd[h].node IN
    /\ At(h, "unpublish", "get")
    /\ \/ NothingToDetach(n) /\ Done(h, "OK")
       \/ ~NothingToDetach(n) /\ vol.status = "detaching" /\ Goto(h, "refetch")
       \/ ~NothingToDetach(n) /\ vol.status # "detaching" /\ Goto(h, "detach")
    /\ UNCHANGED <<vol, told, faults>>

\* DetachVolume names the volume and no node.
UnpublishDetach(h) ==
    /\ At(h, "unpublish", "detach")
    /\ \/ /\ vol.status \in {"attaching", "attached"}
          /\ vol' = [vol EXCEPT !.status = "detaching"]
          /\ \/ Goto(h, "refetch") /\ UNCHANGED faults
             \/ Fault /\ Done(h, "Error")
       \/ /\ vol.status \notin {"attaching", "attached"}
          /\ Done(h, "Error")
          /\ UNCHANGED <<vol, faults>>
    /\ UNCHANGED told

OnItsWay == vol.status \in {"available", "detaching"}
Free == vol.status = "available"

UnpublishRefetch(h) ==
    /\ At(h, "unpublish", "refetch")
    /\ Done(h, IF Free THEN "OK" ELSE "Error")
    /\ UNCHANGED <<vol, told, faults>>

---------------------------------------------------------------------------
(* ControllerExpandVolume.                                                 *)

Asked == getVolSizeInBytes(AskedRange)
Desired == DesiredSize(Asked)

LargerThanAsked == Desired >= vol.size
LargeEnough == Desired <= vol.size

\* A successful answer carries the size the volume has now.
ExpandOK(h) == Done(h, "OK") /\ told' = CapacityBytes(vol.size)

ExpandGet(h) ==
    /\ At(h, "expand", "get")
    /\ \/ /\ vol.status \in {"resizing", "deleted"}
          /\ Done(h, "Error") /\ UNCHANGED told
       \/ /\ vol.status \notin {"resizing", "deleted"} /\ LargeEnough
          /\ ExpandOK(h)
       \/ /\ vol.status \notin {"resizing", "deleted", "available"} /\ ~LargeEnough
          /\ Done(h, "Error") /\ UNCHANGED told
       \/ /\ vol.status = "available" /\ ~LargeEnough
          /\ Goto(h, "resize") /\ UNCHANGED told
    /\ UNCHANGED <<vol, faults>>

\* ResizeVolume: the API resizes free volumes only.
ExpandResize(h) ==
    /\ At(h, "expand", "resize")
    /\ \/ /\ vol.status = "available"
          /\ vol' = [vol EXCEPT !.status = "resizing"]
          /\ \/ Goto(h, "wait") /\ UNCHANGED faults
             \/ Fault /\ Done(h, "Error")
       \/ /\ vol.status # "available"
          /\ Done(h, "Error")
          /\ UNCHANGED <<vol, faults>>
    /\ UNCHANGED told

OneTryMore(h) == hd[h].tries = Retries
LastTry(h) == hd[h].tries + 1 = Retries

PollForEver(h) == UNCHANGED <<hd, va>>
PollAgain(h) == hd' = [hd EXCEPT ![h].tries = @ + 1] /\ UNCHANGED va

\* One poll of waitForVolumeStatus.
ExpandWait(h) ==
    /\ At(h, "expand", "wait")
    /\ \/ vol.status = "available" /\ Goto(h, "final")
       \/ /\ vol.status # "available" /\ (vol.status = "deleted" \/ LastTry(h))
          /\ Done(h, "Error")
       \/ /\ vol.status \notin {"available", "deleted"} /\ ~LastTry(h)
          /\ PollAgain(h)
    /\ UNCHANGED <<vol, told, faults>>

\* The process dies: every handler with it, but not what they have left on its way.
Crash ==
    /\ hd' = [h \in Slots |-> IF hd[h].pc = "late" THEN hd[h] ELSE Idle("none")]
    /\ UNCHANGED <<vol, va, told>>

\* The last GetVolume. Its error is dropped and the missing volume is then
\* dereferenced: the process panics.
ExpandFinal(h) ==
    /\ At(h, "expand", "final")
    /\ \/ vol.status # "deleted" /\ ExpandOK(h) /\ UNCHANGED <<vol, faults>>
       \/ vol.status = "deleted" /\ Crash /\ UNCHANGED faults
       \/ Fault /\ Crash

---------------------------------------------------------------------------
(* The Civo API completes what it has started.                             *)

ApiAttached == vol.status = "attaching" /\ vol' = [vol EXCEPT !.status = "attached"]

ApiDetached ==
    /\ vol.status = "detaching"
    /\ vol' = [vol EXCEPT !.status = "available", !.inst = None]

ApiResized ==
    /\ vol.status = "resizing"
    /\ vol' = [vol EXCEPT !.status = "available", !.size = Desired]

Api == (ApiAttached \/ ApiDetached \/ ApiResized) /\ UNCHANGED <<va, hd, told, faults>>

\* An attach that fails leaves the volume free.
ApiAttachFails ==
    /\ vol.status = "attaching"
    /\ Fault
    /\ vol' = [vol EXCEPT !.status = "available", !.inst = None]
    /\ UNCHANGED <<va, hd, told>>

\* DeleteVolume, which the provisioner calls when no VA is left; the API
\* deletes free volumes only, so that the handler changes nothing otherwise.
DeleteVolume ==
    /\ \A n \in Nodes : va[n] = "none"
    /\ vol.status = "available"
    /\ vol' = [vol EXCEPT !.status = "deleted"]
    /\ UNCHANGED <<va, hd, told, faults>>

---------------------------------------------------------------------------
(* Requests that come late.                                                *)

Sends(h) == \/ At(h, "publish", "attach") \/ At(h, "unpublish", "detach")
            \/ At(h, "expand", "resize")

\* AttachVolume, DetachVolume or ResizeVolume fails in the client alone: the handler
\* returns the error, and the request is still on its way.
GoesLate(h) ==
    /\ LateRequests /\ Sends(h)
    /\ Fault
    /\ hd' = [hd EXCEPT ![h].pc = "late", ![h].awaited = FALSE]
    /\ UNCHANGED <<vol, va, told>>

ApiAccepts(h) ==
    \/ /\ hd[h].op = "publish" /\ vol.status = "available"
       /\ vol' = [vol EXCEPT !.status = "attaching", !.inst = hd[h].node]
    \/ /\ hd[h].op = "unpublish" /\ vol.status \in {"attaching", "attached"}
       /\ vol' = [vol EXCEPT !.status = "detaching"]
    \/ /\ hd[h].op = "expand" /\ vol.status = "available"
       /\ vol' = [vol EXCEPT !.status = "resizing"]

\* It reaches the API, or is dropped.
ComesLate(h) ==
    /\ LateRequests /\ hd[h].pc = "late"
    /\ hd' = [hd EXCEPT ![h] = Idle("none")]
    /\ ApiAccepts(h) \/ UNCHANGED vol
    /\ UNCHANGED <<va, told, faults>>

---------------------------------------------------------------------------
(* The sidecars.                                                           *)

Start(h, op, n) ==
    /\ hd[h].pc = "idle"
    /\ hd' = [hd EXCEPT ![h] = [op |-> op, node |-> n, pc |-> "get", tries |-> 0,
                                awaited |-> TRUE, code |-> "none"]]
    /\ UNCHANGED <<vol, told>>

Awaited(n) == \E h \in AttachSlots : hd[h].awaited /\ hd[h].node = n

\* The attach-detach controller wants the volume on one node at a time.
CreateVA(n) ==
    /\ \A m \in Nodes : va[m] = "none"
    /\ vol.status # "deleted"
    /\ va' = [va EXCEPT ![n] = "attach"]
    /\ UNCHANGED <<vol, hd, told, faults>>

DeleteVA(n) ==
    /\ va[n] \in {"attach", "attached"}
    /\ ~Awaited(n)
    /\ va' = [va EXCEPT ![n] = "detach"]
    /\ UNCHANGED <<vol, hd, told, faults>>

CallPublish(h, n) ==
    /\ va[n] = "attach" /\ ~Awaited(n)
    /\ Start(h, "publish", n)
    /\ UNCHANGED <<va, faults>>

CallUnpublish(h, n) ==
    /\ va[n] = "detach" /\ ~Awaited(n)
    /\ Start(h, "unpublish", n)
    /\ UNCHANGED <<va, faults>>

\* The specification of CSI lets a client leave the node out: from all nodes.
CallUnpublishAll(h) ==
    /\ OmitNode /\ ~Awaited(None)
    /\ Fault
    /\ Start(h, "unpublish", None)
    /\ UNCHANGED va

CallExpand(h) ==
    /\ \A g \in ResizeSlots : ~hd[g].awaited
    /\ vol.status # "deleted"
    /\ Start(h, "expand", None)
    /\ UNCHANGED <<va, faults>>

\* A sidecar's timeout expires: it no longer waits, the handler runs on.
GiveUp(h) ==
    /\ Overlap /\ hd[h].awaited
    /\ Fault
    /\ hd' = [hd EXCEPT ![h].awaited = FALSE]
    /\ UNCHANGED <<vol, va, told>>

Restart == (\E h \in Slots : hd[h].pc \notin {"idle", "late"}) /\ Fault /\ Crash

---------------------------------------------------------------------------

\* GetVolume, AttachVolume and the like may fail at each of these.
MayFail(h) == hd[h].pc \notin {"idle", "final", "late"} /\ CallFails(h)

Step(h) ==
    \/ PublishGet(h) \/ PublishAttach(h) \/ PublishRefetch(h)
    \/ UnpublishGet(h) \/ UnpublishDetach(h) \/ UnpublishRefetch(h)
    \/ ExpandGet(h) \/ ExpandResize(h) \/ ExpandWait(h) \/ ExpandFinal(h)

Next ==
    \/ \E h \in Slots : Step(h) \/ MayFail(h) \/ GiveUp(h) \/ GoesLate(h) \/ ComesLate(h)
    \/ \E h \in AttachSlots, n \in Nodes : CallPublish(h, n) \/ CallUnpublish(h, n)
    \/ \E h \in AttachSlots : CallUnpublishAll(h)
    \/ \E h \in ResizeSlots : CallExpand(h)
    \/ \E n \in Nodes : CreateVA(n) \/ DeleteVA(n)
    \/ Api \/ ApiAttachFails \/ DeleteVolume \/ Restart

Spec == Init /\ [][Next]_vars

\* Handlers run, no request is on its way for ever, the API completes what it
\* accepted, and the attacher retries (its work queue re-adds a VA after an error).
\* Nobody has to delete a VA, a volume or to ask for a resize.
Fairness ==
    /\ \A h \in Slots : WF_vars(Step(h)) /\ WF_vars(ComesLate(h))
    /\ WF_vars(Api)
    /\ \A n \in Nodes : /\ WF_vars(\E h \in AttachSlots : CallPublish(h, n))
                        /\ WF_vars(\E h \in AttachSlots : CallUnpublish(h, n))

FairSpec == Spec /\ Fairness

---------------------------------------------------------------------------
(* Properties.                                                             *)

TypeOK ==
    /\ vol \in [status : Statuses, inst : Nodes \cup {None}, size : Nat]
    /\ va \in [Nodes -> {"none", "attach", "attached", "detach"}]
    /\ hd \in [Slots -> [op : {"none", "publish", "unpublish", "expand"},
                         node : Nodes \cup {None}, pc : Labels,
                         tries : 0 .. Retries - 1, awaited : BOOLEAN,
                         code : {"none", "OK", "Error"}]]
    /\ told \in Int
    /\ faults \in 0 .. MaxFaults

\* A node the attacher was told has the volume has it, and keeps it until it is asked
\* back: a publish does not succeed on an attach that was only accepted
\* (ControllerPublishVolume, controller_server.go:379-396, though README.md:59 lists as a
\* known issue that it "immediately returns success if the API succeeded"), and no
\* handler of another call takes the volume away (ControllerUnpublishVolume, 402-471).
PublishedStaysAttached ==
    \A n \in Nodes : va[n] = "attached" =>
        vol.status = "attached" /\ vol.inst = n

\* A node whose release was confirmed, or that never asked, does not have the
\* volume and is not getting it: a success of ControllerUnpublishVolume is true.
ReleasedIsFree ==
    \A n \in Nodes : va[n] = "none" => vol.inst # n

\* The bytes told to the resizer are ones the volume has, and no fewer than
\* asked for (ControllerExpandVolume, controller_server.go:499-542).
ExpandIsHonest == told # 0 => Asked <= told /\ told <= vol.size * BytesInGigabyte

\* A detach hits the node it was requested for: the handler that detaches the volume
\* was asked to unpublish it from the very node that has it
\* (controller_server_test.go:186 "Doesn't unpublish a volume if attached to a
\* different node").
DetachHitsItsNode ==
    [][\A h \in Slots :
          UnpublishDetach(h) /\ vol'.status = "detaching" /\ vol.status # "detaching"
             => hd[h].node = vol.inst]_vars

\* A VA that is to be detached is, whatever the attach before it left behind.
DetachServed == \A n \in Nodes : va[n] = "detach" ~> va[n] = "none"

\* A VA that is to be attached is, or is withdrawn: no earlier call of another
\* node keeps the volume from it for ever.
AttachServed == \A n \in Nodes : va[n] = "attach" ~> va[n] # "attach"

\* Every handler returns, and what it has left behind comes to an end
\* (waitForVolumeStatus, controller_server.go:256-270, polls a bounded time).
EveryHandlerReturns ==
    \A h \in Slots : hd[h].pc # "idle" ~> hd[h].pc = "idle"

\* The node that has the volume: it is attached to it or being taken from it.
Holder == IF vol.status \in {"attached", "detaching"} THEN vol.inst ELSE None

\* The driver implements the exclusive attachment it promises, and the volume
\* grows only while no node has it (identity_server.go:39: expansion is
\* OFFLINE).
Attachment == INSTANCE ExclusiveAttachment WITH
    want <- va, holder <- Holder, size <- vol.size, Sizes <- Nat

ImplementsExclusiveAttachment == Attachment!Spec
===========================================================================
