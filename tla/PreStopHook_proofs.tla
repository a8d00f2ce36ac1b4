------------------------ MODULE PreStopHook_proofs ------------------------
(***************************************************************************)
(* Theorems about PreStopHook, for every set of VolumeAttachments, every   *)
(* number of failed calls and broken watches.                              *)
(***************************************************************************)
EXTENDS PreStopHook, TLAPS

---------------------------------------------------------------------------
(* Types.                                                                  *)

LEMMA TypeInit == Init => TypeOK
<1> SUFFICES ASSUME Init PROVE TypeOK
  OBVIOUS
<1>1. {life, view} \subseteq [VAs -> {"future", "present", "terminating", "gone"}]
  BY DEF Init
<1>2. {ctxDone, closed, busy, everEmpty} \subseteq BOOLEAN
  BY DEF Init
<1>3. /\ node \in {"drained", "undrained", "gone"}
      /\ pc \in {"start", "check", "wait", "done"}
      /\ result \in {"none", "nil", "error"}
      /\ informer \in {"off", "starting", "synced"}
      /\ events \subseteq [va : VAs, kind : {"update", "delete", "tombstone"}]
      /\ faults \in 0 .. MaxFaults
      /\ pc = "done" => closed /\ result # "none"
  BY FlagsAssumption DEF Init
<1> QED
  BY <1>1, <1>2, <1>3 DEF TypeOK

\* PreStop's own steps: it stops the informer whenever it returns.
LEMMA TypePreStop == TypeOK /\ PreStop => TypeOK'
<1> SUFFICES ASSUME TypeOK, PreStop PROVE TypeOK'
  OBVIOUS
<1> USE DEF TypeOK, Return, cluster, mirror
<1>0. ASSUME ListFails \/ ListWorks PROVE faults' \in 0 .. MaxFaults
  BY <1>0, FlagsAssumption DEF ListFails, ListWorks, Fault
<1>1. CASE GetNode
  BY <1>0, <1>1 DEF GetNode
<1>2. CASE Check
  BY <1>0, <1>2 DEF Check
<1>3. CASE Wait
  BY <1>3 DEF Wait
<1> QED
  BY <1>1, <1>2, <1>3 DEF PreStop

LEMMA TypeInformer ==
    TypeOK /\ (InformerList \/ InformerRelist \/ \E v \in VAs : Watch(v)) => TypeOK'
<1> SUFFICES ASSUME TypeOK,
                    InformerList \/ InformerRelist \/ \E v \in VAs : Watch(v)
             PROVE  TypeOK'
  OBVIOUS
<1> USE FlagsAssumption DEF TypeOK, cluster, Notify
<1>1. CASE InformerList
  BY <1>1 DEF InformerList
<1>2. CASE InformerRelist
  BY <1>2 DEF InformerRelist, Fault
<1>3. ASSUME NEW v \in VAs, Watch(v) PROVE TypeOK'
  <2>1. CASE InformerAdd(v)
    BY <2>1 DEF InformerAdd
  <2>2. CASE InformerUpdate(v)
    BY <2>2 DEF InformerUpdate
  <2>3. CASE InformerDelete(v)
    BY <2>3 DEF InformerDelete
  <2> QED
    BY <1>3, <2>1, <2>2, <2>3 DEF Watch
<1> QED
  BY <1>1, <1>2, <1>3

LEMMA TypeHandler == TypeOK /\ Handler => TypeOK'
<1> SUFFICES ASSUME TypeOK, Handler PROVE TypeOK'
  OBVIOUS
<1> USE FlagsAssumption DEF TypeOK, cluster, mirror
<1>1. CASE HandleEvent
  <2>1. faults' \in 0 .. MaxFaults
    BY <1>1 DEF HandleEvent, ListFails, ListWorks, Fault
  <2>2. (closed' = closed \/ closed' = TRUE) /\ busy' = FALSE
    BY <1>1 DEF HandleEvent
  <2>3. UNCHANGED <<cluster, mirror, pc, result>>
    BY <1>1 DEF HandleEvent
  <2>4. {ctxDone, closed, busy, everEmpty}' \subseteq BOOLEAN
    <3>1. {ctxDone, closed, everEmpty} \subseteq BOOLEAN
      OBVIOUS
    <3> HIDE DEF TypeOK
    <3> QED
      BY <2>2, <2>3, <3>1
  <2>5. pc' = "done" => closed' /\ result' # "none"
    BY <2>2, <2>3
  <2> QED
    BY <2>1, <2>3, <2>4, <2>5
<1>2. ASSUME NEW e \in events, TakeEvent(e) PROVE TypeOK'
  <2>1. Concerns(e) \in BOOLEAN
    BY DEF Concerns
  <2> QED
    BY <1>2, <2>1 DEF TakeEvent
<1> QED
  BY <1>1, <1>2 DEF Handler

LEMMA TypeCluster ==
    TypeOK /\ (ContextDone \/ \E v \in VAs : VAChanges(v)) => TypeOK'
<1> SUFFICES ASSUME TypeOK, ContextDone \/ \E v \in VAs : VAChanges(v)
             PROVE  TypeOK'
  OBVIOUS
<1> USE DEF TypeOK, mirror
<1>1. CASE ContextDone
  BY <1>1 DEF ContextDone
<1>2. ASSUME NEW v \in VAs, VAChanges(v) PROVE TypeOK'
  BY <1>2 DEF VAChanges, Ages
<1> QED
  BY <1>1, <1>2

LEMMA TypeNext == TypeOK /\ [Next]_vars => TypeOK'
<1>1. TypeOK /\ UNCHANGED vars => TypeOK'
  BY DEF TypeOK, vars
<1> QED
  BY <1>1, TypePreStop, TypeInformer, TypeHandler, TypeCluster DEF Next

\* Every reachable state is well typed; in particular a hook that has returned
\* has stopped the informer.
THEOREM TypeCorrect == Spec => []TypeOK
BY TypeInit, TypeNext, PTL DEF Spec

---------------------------------------------------------------------------
(* Why the hook returns.                                                   *)

\* What the history variable remembers is at least what holds now.
Remembers == Own = {} => everEmpty

\* The channel is closed under a waiting hook only when the VAs were gone.
ClosedMeansCleaned == closed /\ pc # "done" => everEmpty

NilInv == Remembers /\ ClosedMeansCleaned /\ NilMeansCleaned

LEMMA NilInit == Init => NilInv
BY DEF Init, NilInv, Remembers, ClosedMeansCleaned, NilMeansCleaned

\* PreStop's own steps: an error, a node that is not drained, or a list
\* without own VAs, or a closed channel, or a context that is done.
LEMMA NilPreStop == NilInv /\ PreStop => NilInv'
<1> SUFFICES ASSUME NilInv, PreStop PROVE NilInv'
  OBVIOUS
<1> USE DEF NilInv, Remembers, ClosedMeansCleaned, NilMeansCleaned, cluster, Own,
            Exists
<1>1. CASE GetNode
  BY <1>1 DEF GetNode, Return, mirror
<1>2. CASE Check
  BY <1>2 DEF Check, Return, AllGone, ListWorks
<1>3. CASE Wait
  BY <1>3 DEF Wait, WaitOver, Return
<1> QED
  BY <1>1, <1>2, <1>3 DEF PreStop

\* The handler goroutine closes the channel only after a list that worked and
\* showed none of the node's VAs.
LEMMA NilHandler == NilInv /\ Handler => NilInv'
<1> SUFFICES ASSUME NilInv, Handler PROVE NilInv'
  OBVIOUS
<1> USE DEF NilInv, Remembers, ClosedMeansCleaned, NilMeansCleaned, cluster, Own,
            Exists
<1>1. CASE HandleEvent
  BY <1>1 DEF HandleEvent, AllGone
<1>2. ASSUME NEW e \in events, TakeEvent(e) PROVE NilInv'
  BY <1>2 DEF TakeEvent
<1> QED
  BY <1>1, <1>2 DEF Handler

LEMMA NilNext == NilInv /\ [Next]_vars => NilInv'
<1> SUFFICES ASSUME NilInv, [Next]_vars PROVE NilInv'
  OBVIOUS
<1>1. ASSUME UNCHANGED <<cluster, pc, result, closed>> PROVE NilInv'
  BY <1>1 DEF NilInv, Remembers, ClosedMeansCleaned, NilMeansCleaned, cluster, Own,
              Exists
<1>2. CASE InformerList \/ InformerRelist \/ \E v \in VAs : Watch(v)
  BY <1>1, <1>2 DEF InformerList, InformerRelist, Watch, InformerAdd,
                    InformerUpdate, InformerDelete
<1>3. ASSUME NEW v \in VAs, VAChanges(v) PROVE NilInv'
  BY <1>3 DEF VAChanges, NilInv, Remembers, ClosedMeansCleaned, NilMeansCleaned
<1>4. CASE ContextDone
  BY <1>4 DEF ContextDone, NilInv, Remembers, ClosedMeansCleaned,
              NilMeansCleaned, Own, Exists
<1>5. CASE UNCHANGED vars
  BY <1>1, <1>5 DEF vars, cluster
<1> QED
  BY <1>2, <1>3, <1>4, <1>5, NilPreStop, NilHandler DEF Next

\* A hook that returns nil in time on a drained or missing node does so because
\* the node's VAs were all gone at some moment since it started: no failed list,
\* tombstone, event of another node or race between the first list and the
\* informer ends the wait early.
THEOREM NilOnlyWhenCleaned == Spec => []NilMeansCleaned
<1>1. NilInv => NilMeansCleaned
  BY DEF NilInv
<1> QED
  BY <1>1, NilInit, NilNext, PTL DEF Spec

---------------------------------------------------------------------------
(* No wakeup is lost once the informer watches.                            *)

\* The informer has not seen a VA go that is still there.
ViewInv == \A v \in VAs : view[v] = "gone" => life[v] = "gone"

LEMMA ViewInit == Init => ViewInv
BY DEF Init, ViewInv

LEMMA ViewNext == TypeOK /\ ViewInv /\ [Next]_vars => ViewInv'
<1> SUFFICES ASSUME TypeOK, ViewInv, [Next]_vars PROVE ViewInv'
  OBVIOUS
<1> USE DEF TypeOK, ViewInv
<1>1. CASE UNCHANGED <<life, view>>
  BY <1>1
<1>2. CASE PreStop
  BY <1>1, <1>2 DEF PreStop, GetNode, Check, Wait, cluster, mirror
<1>3. CASE Handler
  BY <1>1, <1>3 DEF Handler, HandleEvent, TakeEvent, cluster, mirror
<1>4. CASE InformerList \/ InformerRelist
  BY <1>4 DEF InformerList, InformerRelist, cluster
<1>5. ASSUME NEW v \in VAs, Watch(v) PROVE ViewInv'
  BY <1>5 DEF Watch, InformerAdd, InformerUpdate, InformerDelete, cluster
<1>6. ASSUME NEW v \in VAs, VAChanges(v) PROVE ViewInv'
  BY <1>6 DEF VAChanges, Ages, mirror
<1> QED
  BY <1>1, <1>2, <1>3, <1>4, <1>5, <1>6 DEF Next, vars, ContextDone, mirror

\* The handler goroutine drops no event about a VA of the node, and one that it
\* has looked at too early is followed by those of the VA that was still there.
LEMMA HandlerKeepsWakeup ==
    ASSUME TypeOK, ViewInv, Handler, WakeupComing,
           faults' = 0, ~ctxDone', ~closed'
    PROVE  WakeupComing'
<1> USE DEF TypeOK, cluster, mirror
<1>1. UNCHANGED <<life, view, ctxDone>>
  BY DEF Handler, HandleEvent, TakeEvent
<1>2. CASE HandleEvent
  <2>1. ~AllGone
    BY <1>1, <1>2 DEF HandleEvent, ListFails, Fault
  <2>2. PICK v \in Mine : Exists(v)
    BY <2>1 DEF AllGone, Own
  <2>3. Stored(v) \/ (view[v] = "future" /\ life[v] # "future")
    BY <2>2, MineAssumption DEF Exists, Stored, ViewInv
  <2>4. (Stored(v) \/ (view[v] = "future" /\ life[v] # "future"))'
    BY <1>1, <2>3 DEF Stored
  <2> QED
    BY <2>4 DEF WakeupComing
<1>3. ASSUME NEW e \in events, TakeEvent(e) PROVE WakeupComing'
  <2>1. CASE Concerns(e)
    BY <1>3, <2>1 DEF TakeEvent, WakeupComing
  <2>2. CASE ~Concerns(e)
    <3>1. events' = events \ {e} /\ ~busy
      BY <1>3 DEF TakeEvent
    <3> QED
      BY <1>1, <2>2, <3>1 DEF WakeupComing, Concerns, Stored
  <2> QED
    BY <2>1, <2>2
<1> QED
  BY <1>2, <1>3 DEF Handler

\* The watch replaces what it has seen by an event, at the latest a delete.
LEMMA WatchKeepsWakeup ==
    ASSUME TypeOK, NEW v \in VAs, Watch(v), WakeupComing
    PROVE  WakeupComing'
<1> USE DEF TypeOK, cluster, WakeupComing, Stored
<1>1. busy' = busy /\ life' = life
  BY DEF Watch, InformerAdd, InformerUpdate, InformerDelete
<1>2. CASE InformerAdd(v)
  BY <1>1, <1>2 DEF InformerAdd
<1>3. CASE InformerUpdate(v)
  BY <1>1, <1>3 DEF InformerUpdate
<1>4. CASE InformerDelete(v)
  <2>1. v \in Mine => Notify(v, "delete") \in events'
    BY <1>4 DEF InformerDelete
  <2>2. CASE v \in Mine
    BY <2>1, <2>2 DEF Notify
  <2>3. CASE v \notin Mine
    BY <1>1, <1>4, <2>3, MineAssumption DEF InformerDelete
  <2> QED
    BY <2>2, <2>3
<1> QED
  BY <1>2, <1>3, <1>4 DEF Watch

\* Once the informer has synced with a VA of the node that is still to go, the
\* closing of the channel stays on its way until it comes, for every number of
\* VAs and every order of their events, early lists and other nodes' events:
\* what prestop_lost_wakeup shows can be lost is only what was before the sync.
THEOREM WakeupKept == Spec => WakeupNotLost
<1>1. ASSUME TypeOK, ViewInv, [Next]_vars, informer = "synced", WakeupComing,
             faults' = 0, ~ctxDone', ~closed'
      PROVE  WakeupComing'
  <2>1. CASE UNCHANGED <<life, view, events, busy>>
    BY <1>1, <2>1 DEF WakeupComing, Stored
  <2>2. CASE PreStop
    BY <1>1, <2>1, <2>2
       DEF PreStop, GetNode, Check, Wait, Return, cluster, mirror
  <2>3. CASE InformerList \/ InformerRelist
    BY <1>1, <2>3 DEF InformerList, InformerRelist, Fault, TypeOK
  <2>4. ASSUME NEW v \in VAs, VAChanges(v) PROVE WakeupComing'
    <3>1. UNCHANGED <<view, events, busy>>
      BY <2>4 DEF VAChanges, mirror
    <3>2. life \in [VAs -> {"future", "present", "terminating", "gone"}]
      BY <1>1 DEF TypeOK
    <3>3. \A u \in VAs : life[u] # "future" => life'[u] # "future"
      BY <2>4, <3>2 DEF VAChanges, Ages
    <3> QED
      BY <1>1, <3>1, <3>3, MineAssumption DEF WakeupComing, Stored
  <2> QED
    BY <1>1, <2>1, <2>2, <2>3, <2>4, HandlerKeepsWakeup, WatchKeepsWakeup
       DEF Next, vars, ContextDone, mirror
<1>2. TypeOK /\ ViewInv /\ [Next]_vars =>
      [informer = "synced" /\ WakeupComing
       /\ faults' = 0 /\ ~ctxDone' /\ ~closed' => WakeupComing']_vars
  BY <1>1
<1> QED
  BY <1>2, TypeInit, TypeNext, ViewInit, ViewNext, PTL DEF Spec, WakeupNotLost
===========================================================================
