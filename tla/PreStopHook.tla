---------------------------- MODULE PreStopHook ----------------------------
(***************************************************************************)
(* hook.PreStop of pkg/driver/hook/prestop.go: on a node that is drained   *)
(* or gone, wait until no VolumeAttachment (VA) of the node is left.       *)
(*                                                                         *)
(* Three goroutines share informerCh: PreStop itself, the informer that    *)
(* mirrors the VAs of the cluster, and the informer's handler goroutine,   *)
(* which lists the VAs again on every event about one of the node's own.   *)
(***************************************************************************)
EXTENDS FiniteSets, Naturals

CONSTANTS
    VAs,        \* VolumeAttachments of the cluster
    Mine,       \* those whose Spec.NodeName is h.nodeName
    Relists,    \* the informer's watch may break and be replaced by a new list
    MaxFaults   \* bound on failed API calls and broken watches

ASSUME MineAssumption == Mine \subseteq VAs
ASSUME FlagsAssumption == Relists \in BOOLEAN /\ MaxFaults \in Nat

VARIABLES
    node,       \* the node at the API: drained, undrained or gone
    life,       \* VA -> future, present, terminating, gone: where it is at the API
    pc,         \* where PreStop is
    result,     \* what it returned
    ctxDone,    \* its context is cancelled or past its deadline
    closed,     \* informerCh is closed
    informer,   \* off, starting (no list yet), synced
    view,       \* VA -> what the informer has seen of its life
    events,     \* notifications for the handler goroutine
    busy,       \* the handler goroutine is about to list the VAs
    everEmpty,  \* history: at some time since the start no own VA existed
    faults

vars == <<node, life, pc, result, ctxDone, closed, informer, view, events,
          busy, everEmpty, faults>>
cluster == <<node, life, ctxDone, everEmpty>>
mirror == <<informer, view, events>>

Exists(v) == life[v] \in {"present", "terminating"}
NonePresent == \A v \in Mine : life[v] # "present"
Own == {v \in Mine : Exists(v)}

Init ==
    /\ node \in {"drained", "undrained", "gone"}
    /\ life \in [VAs -> {"future", "present"}]
    /\ pc = "start" /\ result = "none"
    /\ ctxDone = FALSE /\ closed = FALSE
    /\ informer = "off" /\ view = life /\ events = {} /\ busy = FALSE
    /\ everEmpty = (Own = {})
    /\ faults = 0

Fault == faults < MaxFaults /\ faults' = faults + 1

\* A list fails when the API does, and when the context is done.
ListFails == \/ Fault
             \/ ctxDone /\ UNCHANGED faults
ListWorks == ~ctxDone /\ UNCHANGED faults

ReturnOnly(r) == pc' = "done" /\ result' = r /\ UNCHANGED closed
\* PreStop returns; the deferred stopInformerFn closes the channel.
Return(r) == pc' = "done" /\ result' = r /\ closed' = TRUE

\* The node lookup; on a drained or missing node the informer is started. (Its
\* AddEventHandler fails only for an informer that was stopped: never here.)
GetNode ==
    /\ pc = "start"
    /\ \/ ListFails /\ Return("error") /\ UNCHANGED mirror
       \/ /\ ListWorks /\ node = "undrained"
          /\ Return("nil") /\ UNCHANGED mirror
       \/ /\ ListWorks /\ node # "undrained"
          /\ pc' = "check" /\ informer' = "starting"
          /\ UNCHANGED <<result, closed, view, events>>
    /\ UNCHANGED <<cluster, busy>>

AllGone == Own = {}

\* The list of waitForVolumeAttachmentsCleanup.
Check ==
    /\ pc = "check"
    /\ \/ ListFails /\ Return("error")
       \/ ListWorks /\ AllGone /\ Return("nil")
       \/ ListWorks /\ ~AllGone /\ pc' = "wait" /\ UNCHANGED <<result, closed>>
    /\ UNCHANGED <<cluster, mirror, busy>>

OnlyClosed == closed
WaitOver == closed \/ ctxDone

\* The select loop; the ticker only logs.
Wait ==
    /\ pc = "wait"
    /\ WaitOver
    /\ Return("nil")
    /\ UNCHANGED <<cluster, mirror, busy, faults>>

---------------------------------------------------------------------------
(* The informer. It has handlers for deletes and updates, none for adds;   *)
(* the watch reports every stage of a VA's life, in order.                 *)

Mirrors == informer = "synced" /\ ~closed

Notify(v, kind) == [va |-> v, kind |-> kind]

InformerList ==
    /\ informer = "starting" /\ ~closed
    /\ informer' = "synced" /\ view' = life
    /\ UNCHANGED <<cluster, pc, result, closed, events, busy, faults>>

InformerAdd(v) ==
    /\ Mirrors /\ view[v] = "future" /\ life[v] # "future"
    /\ view' = [view EXCEPT ![v] = "present"]
    /\ UNCHANGED <<cluster, pc, result, closed, informer, events, busy, faults>>

InformerUpdate(v) ==
    /\ Mirrors /\ view[v] = "present" /\ life[v] \in {"terminating", "gone"}
    /\ view' = [view EXCEPT ![v] = "terminating"]
    /\ events' = events \cup {Notify(v, "update")}
    /\ UNCHANGED <<cluster, pc, result, closed, informer, busy, faults>>

InformerDelete(v) ==
    /\ Mirrors /\ view[v] = "terminating" /\ life[v] = "gone"
    /\ view' = [view EXCEPT ![v] = "gone"]
    /\ events' = events \cup {Notify(v, "delete")}
    /\ UNCHANGED <<cluster, pc, result, closed, informer, busy, faults>>

Stored(v) == view[v] \in {"present", "terminating"}

\* A delete that only a new list reveals comes as a DeletedFinalStateUnknown,
\* an object that is no VolumeAttachment.
InformerRelist ==
    /\ Relists /\ Mirrors /\ Fault
    /\ view' = life
    /\ events' = events
          \cup {Notify(v, "tombstone") : v \in {u \in VAs : Stored(u) /\ life[u] = "gone"}}
          \cup {Notify(v, "update") : v \in {u \in VAs : view[u] = "present" /\ life[u] = "terminating"}}
    /\ UNCHANGED <<cluster, pc, result, closed, informer, busy>>

---------------------------------------------------------------------------
(* volumeAttachmentEventHandler, on the handler goroutine.                 *)

ConcernsUpdates(e) == e.kind = "update" /\ e.va \in Mine
Concerns(e) == e.kind # "tombstone" /\ e.va \in Mine

\* An object that is no VolumeAttachment is an error, which is logged; one of
\* another node is skipped.
TakeEvent(e) ==
    /\ ~busy /\ ~closed
    /\ e \in events
    /\ events' = events \ {e}
    /\ busy' = Concerns(e)
    /\ UNCHANGED <<cluster, pc, result, closed, informer, view, faults>>

\* An error of the list, and a VA that is still there, are logged; the channel
\* is closed when none is left.
HandleEvent ==
    /\ busy
    /\ busy' = FALSE
    /\ \/ ListFails /\ UNCHANGED closed
       \/ ListWorks /\ ~AllGone /\ UNCHANGED closed
       \/ ListWorks /\ AllGone /\ closed' = TRUE
    /\ UNCHANGED <<cluster, mirror, pc, result>>

---------------------------------------------------------------------------
(* The cluster.                                                            *)

\* A VA is created (pods that tolerate the taint), is asked to go (it gets a
\* deletion timestamp), and goes when the attacher has detached the volume.
Ages(v, from, to) == life[v] = from /\ life' = [life EXCEPT ![v] = to]

VAChanges(v) ==
    /\ \/ Ages(v, "future", "present")
       \/ Ages(v, "present", "terminating")
       \/ Ages(v, "terminating", "gone")
    /\ everEmpty' = (everEmpty \/ Own' = {})
    /\ UNCHANGED <<node, pc, result, ctxDone, closed, mirror, busy, faults>>

ContextDone ==
    /\ ~ctxDone /\ ctxDone' = TRUE
    /\ UNCHANGED <<node, life, pc, result, closed, mirror, busy, everEmpty, faults>>

---------------------------------------------------------------------------

PreStop == GetNode \/ Check \/ Wait
Watch(v) == InformerAdd(v) \/ InformerUpdate(v) \/ InformerDelete(v)
Handler == HandleEvent \/ \E e \in events : TakeEvent(e)

Next ==
    \/ PreStop \/ Handler
    \/ InformerList \/ InformerRelist
    \/ \E v \in VAs : Watch(v) \/ VAChanges(v)
    \/ ContextDone

Spec == Init /\ [][Next]_vars

\* The goroutines run and the watch delivers; nothing makes the context end or
\* a VA go.
Fairness ==
    /\ WF_vars(PreStop) /\ WF_vars(Handler) /\ WF_vars(InformerList)
    /\ \A v \in VAs : WF_vars(Watch(v))

FairSpec == Spec /\ Fairness

---------------------------------------------------------------------------
(* Properties.                                                             *)

TypeOK ==
    /\ node \in {"drained", "undrained", "gone"}
    /\ {life, view} \subseteq [VAs -> {"future", "present", "terminating", "gone"}]
    /\ pc \in {"start", "check", "wait", "done"}
    /\ result \in {"none", "nil", "error"}
    /\ {ctxDone, closed, busy, everEmpty} \subseteq BOOLEAN
    /\ informer \in {"off", "starting", "synced"}
    /\ events \subseteq [va : VAs, kind : {"update", "delete", "tombstone"}]
    /\ faults \in 0 .. MaxFaults
    /\ pc = "done" => closed /\ result # "none"    \* no informer is left running

\* A hook that returns nil on a drained or missing node, in time, does so
\* because the node's VAs were gone at some moment since it started: no event,
\* error or race between check and informer ends the wait early
\* (prestop.go:23-27, "it waits for the cleanup of VolumeAttachments").
NilMeansCleaned ==
    pc = "done" /\ result = "nil" /\ node # "undrained" /\ ~ctxDone => everEmpty

\* The pod's termination is never held past the context.
ContextEndsWait == ctxDone ~> pc = "done"

\* When a wait has an own VA in the informer's store, and then none exists for
\* good, and no call fails and the watch holds, the wait ends: the delete event
\* is not lost on its way to the channel.
WatchedCleanupEndsWait ==
    /\ [](faults = 0)
    /\ <>(pc = "wait" /\ informer = "synced" /\ \E v \in Mine : Stored(v))
    /\ <>[](Own = {})
    => <>(pc = "done")

\* The closing of the channel is on its way: a VA of the node is still to be
\* deleted before the informer's eyes, or its delete is yet to be looked at.
WakeupComing ==
    \/ \E v \in Mine : Stored(v) \/ (view[v] = "future" /\ life[v] # "future")
    \/ \E e \in events : e.va \in Mine /\ e.kind # "tombstone"
    \/ busy

\* Once it is on its way, it is not lost between the informer's goroutine, the
\* handler's and the other VAs of the node: it stays so until the channel is
\* closed, as long as the watch holds, no call fails and the context lasts
\* (volumeAttachmentEventHandler, prestop.go:147-171).
WakeupNotLost ==
    [][informer = "synced" /\ WakeupComing
       /\ faults' = 0 /\ ~ctxDone' /\ ~closed' => WakeupComing']_vars

\* When the node's VAs are gone for good, and no call fails and the watch
\* holds, the wait ends (prestop.go:25-26 "it
\* waits for the cleanup of VolumeAttachments").
CleanupEndsWait == [](faults = 0) /\ <>[](Own = {}) => <>(pc = "done")
===========================================================================
