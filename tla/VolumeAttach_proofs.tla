------------------------ MODULE VolumeAttach_proofs ------------------------
(***************************************************************************)
(* Theorems about VolumeAttach, for every set of nodes and handlers, every *)
(* size and every bound.                                                   *)
(***************************************************************************)
EXTENDS VolumeAttach, VolumeSize_proofs, TLAPS

Handlers == [op : {"none", "publish", "unpublish", "expand"},
             node : Nodes \cup {None}, pc : Labels,
             tries : 0 .. Retries - 1, awaited : BOOLEAN,
             code : {"none", "OK", "Error"}]
VAs == [Nodes -> {"none", "attach", "attached", "detach"}]

---------------------------------------------------------------------------
(* Types.                                                                  *)

LEMMA IdleTyped ==
    ASSUME NEW code \in {"none", "OK", "Error"}
    PROVE  Idle(code) \in Handlers
BY RetriesAssumption DEF Idle, Handlers, Labels

LEMMA AskedTyped == Asked \in Nat /\ Desired \in Nat
<1>1. Asked \in Nat
  BY SizesAssumption, WidthAssumption
     DEF Asked, getVolSizeInBytes, CapacityRanges, Bytes
<1> QED
  BY <1>1, RoundingUp DEF Desired

LEMMA CapacityTyped ==
    ASSUME NEW gb \in Nat
    PROVE  CapacityBytes(gb) \in Int
<1>1. gb * BytesInGigabyte \in Nat
  BY WidthAssumption
<1>2. (gb * BytesInGigabyte + MaxInt64 + 1) % (2 * (MaxInt64 + 1)) \in Nat
  BY <1>1, WidthAssumption, Division
<1> QED
  BY <1>2, WidthAssumption DEF CapacityBytes, Int64

LEMMA DoneTypes ==
    ASSUME TypeOK, NEW h \in Slots, NEW code \in {"none", "OK", "Error"},
           Done(h, code)
    PROVE  hd' \in [Slots -> Handlers] /\ va' \in VAs
<1>1. hd' \in [Slots -> Handlers]
  BY IdleTyped DEF Done, TypeOK, Handlers
<1>2. va' \in VAs
  BY DEF Done, TypeOK, VAs
<1> QED
  BY <1>1, <1>2

LEMMA GotoTypes ==
    ASSUME TypeOK, NEW h \in Slots, NEW label \in Labels, Goto(h, label)
    PROVE  hd' \in [Slots -> Handlers] /\ va' \in VAs
BY DEF Goto, TypeOK, Handlers, VAs

LEMMA CrashTypes ==
    ASSUME TypeOK, Crash
    PROVE  hd' \in [Slots -> Handlers] /\ va' \in VAs /\ UNCHANGED <<vol, told>>
BY IdleTyped DEF Crash, TypeOK, Handlers, VAs

LEMMA FaultTypes ==
    ASSUME TypeOK, Fault
    PROVE  faults' \in 0 .. MaxFaults
BY FaultsAssumption DEF TypeOK, Fault

\* What a step of a handler leaves of the API's volume.
LEMMA StepVolume ==
    ASSUME TypeOK, NEW h \in Slots, Step(h)
    PROVE  /\ vol' \in [status : Statuses, inst : Nodes \cup {None}, size : Nat]
           /\ vol'.size = vol.size
           /\ faults' \in 0 .. MaxFaults
<1>1. hd[h].node \in Nodes \cup {None}
  BY DEF TypeOK
<1>2. faults' = faults \/ Fault
  BY DEF Step, PublishGet, PublishAttach, PublishRefetch, UnpublishGet,
         UnpublishDetach, UnpublishRefetch, ExpandGet, ExpandResize, ExpandWait,
         ExpandFinal
<1>3. \/ vol' = vol
      \/ vol' = [vol EXCEPT !.status = "attaching", !.inst = hd[h].node]
      \/ vol' = [vol EXCEPT !.status = "detaching"]
      \/ vol' = [vol EXCEPT !.status = "resizing"]
  BY DEF Step, PublishGet, PublishAttach, PublishRefetch, UnpublishGet,
         UnpublishDetach, UnpublishRefetch, ExpandGet, ExpandResize, ExpandWait,
         ExpandFinal, Crash
<1> QED
  BY <1>1, <1>2, <1>3, FaultTypes DEF TypeOK, Statuses

\* A step of a handler returns from the call, goes on, polls again or takes
\* the whole process down; an answer is told only by ExpandOK.
LEMMA StepMoves ==
    ASSUME NEW h \in Slots, Step(h)
    PROVE  /\ \/ \E code \in {"OK", "Error"} : Done(h, code)
              \/ \E label \in Labels : Goto(h, label)
              \/ PollAgain(h) /\ ~LastTry(h)
              \/ Crash
           /\ told' = told \/ told' = CapacityBytes(vol.size)
<1> USE DEF Labels
<1>1. CASE PublishGet(h) \/ PublishAttach(h) \/ PublishRefetch(h)
  BY <1>1 DEF PublishGet, PublishAttach, PublishRefetch
<1>2. CASE UnpublishGet(h) \/ UnpublishDetach(h) \/ UnpublishRefetch(h)
  BY <1>2 DEF UnpublishGet, UnpublishDetach, UnpublishRefetch
<1>3. CASE ExpandGet(h) \/ ExpandResize(h)
  BY <1>3 DEF ExpandGet, ExpandResize, ExpandOK
<1>4. CASE ExpandWait(h)
  BY <1>4 DEF ExpandWait
<1>5. CASE ExpandFinal(h)
  BY <1>5 DEF ExpandFinal, ExpandOK, Crash
<1> QED
  BY <1>1, <1>2, <1>3, <1>4, <1>5 DEF Step

LEMMA StepTypes ==
    ASSUME TypeOK, NEW h \in Slots, Step(h)
    PROVE  TypeOK'
<1>1. hd' \in [Slots -> Handlers] /\ va' \in VAs
  <2>1. CASE PollAgain(h) /\ ~LastTry(h)
    <3>1. hd[h].tries + 1 \in 0 .. Retries - 1
      BY <2>1, RetriesAssumption DEF TypeOK, LastTry
    <3> QED
      BY <2>1, <3>1 DEF PollAgain, TypeOK, Handlers, VAs
  <2> QED
    BY <2>1, StepMoves, DoneTypes, GotoTypes, CrashTypes
<1>2. told' \in Int
  BY StepMoves, CapacityTyped DEF TypeOK
<1> QED
  BY <1>1, <1>2, StepVolume DEF TypeOK, Handlers, VAs

LEMMA TypeInit == Init => TypeOK
BY IdleTyped, SizesAssumption, FaultsAssumption
   DEF Init, TypeOK, Handlers, Statuses

LEMMA StartTypes ==
    ASSUME TypeOK, NEW h \in Slots, NEW op \in {"publish", "unpublish", "expand"},
           NEW n \in Nodes \cup {None}, Start(h, op, n)
    PROVE  hd' \in [Slots -> Handlers] /\ UNCHANGED <<vol, told>>
BY RetriesAssumption DEF Start, TypeOK, Handlers, Labels

LEMMA LateTypes ==
    ASSUME TypeOK, NEW h \in Slots, GoesLate(h) \/ ComesLate(h)
    PROVE  TypeOK'
<1>1. CASE GoesLate(h)
  <2>1. hd' = [hd EXCEPT ![h] = [hd[h] EXCEPT !.pc = "late", !.awaited = FALSE]]
    BY <1>1 DEF GoesLate, TypeOK
  <2>2. [hd[h] EXCEPT !.pc = "late", !.awaited = FALSE] \in Handlers
    BY DEF TypeOK, Handlers, Labels
  <2>3. hd' \in [Slots -> Handlers]
    BY <2>1, <2>2 DEF TypeOK, Handlers
  <2> QED
    BY <1>1, <2>3, FaultTypes DEF GoesLate, TypeOK, Handlers
<1>2. CASE ComesLate(h)
  <2>1. hd' \in [Slots -> Handlers]
    BY <1>2, IdleTyped DEF ComesLate, TypeOK, Handlers
  <2>2. vol' \in [status : Statuses, inst : Nodes \cup {None}, size : Nat]
    <3>1. hd[h].node \in Nodes \cup {None}
      BY DEF TypeOK
    <3> QED
      BY <1>2, <3>1 DEF ComesLate, ApiAccepts, TypeOK, Statuses
  <2> QED
    BY <1>2, <2>1, <2>2 DEF ComesLate, TypeOK, Handlers
<1> QED
  BY <1>1, <1>2

\* Every step, of the driver or of its surroundings, keeps the types.
LEMMA TypeNext == TypeOK /\ [Next]_vars => TypeOK'
<1> SUFFICES ASSUME TypeOK, [Next]_vars PROVE TypeOK'
  OBVIOUS
<1>1. ASSUME NEW h \in Slots, Step(h) PROVE TypeOK'
  BY <1>1, StepTypes
<1>2. ASSUME NEW h \in Slots, MayFail(h) PROVE TypeOK'
  BY <1>2, DoneTypes, FaultTypes DEF MayFail, CallFails, TypeOK, Handlers, VAs
<1>3. ASSUME NEW h \in Slots, GiveUp(h) PROVE TypeOK'
  <2>1. hd' = [hd EXCEPT ![h] = [hd[h] EXCEPT !.awaited = FALSE]]
    BY <1>3 DEF GiveUp
  <2>2. hd' \in [Slots -> Handlers]
    <3>1. hd \in [Slots -> Handlers] /\ [hd[h] EXCEPT !.awaited = FALSE] \in Handlers
      BY DEF TypeOK, Handlers
    <3> QED
      BY <2>1, <3>1
  <2> QED
    BY <1>3, <2>2, FaultTypes DEF GiveUp, TypeOK, Handlers
<1>4. ASSUME NEW h \in AttachSlots, NEW n \in Nodes,
             CallPublish(h, n) \/ CallUnpublish(h, n)
      PROVE  TypeOK'
  BY <1>4, StartTypes DEF CallPublish, CallUnpublish, Slots, TypeOK, Handlers
<1>5. ASSUME NEW h \in AttachSlots, CallUnpublishAll(h) PROVE TypeOK'
  BY <1>5, StartTypes, FaultTypes DEF CallUnpublishAll, Slots, TypeOK, Handlers
<1>6. ASSUME NEW h \in ResizeSlots, CallExpand(h) PROVE TypeOK'
  BY <1>6, StartTypes DEF CallExpand, Slots, TypeOK, Handlers
<1>7. ASSUME NEW n \in Nodes, CreateVA(n) \/ DeleteVA(n) PROVE TypeOK'
  BY <1>7 DEF CreateVA, DeleteVA, TypeOK
<1>8. CASE Api
  BY <1>8, AskedTyped DEF Api, ApiAttached, ApiDetached, ApiResized, TypeOK, Statuses
<1>9. CASE ApiAttachFails
  BY <1>9, FaultTypes DEF ApiAttachFails, TypeOK, Statuses
<1>10. CASE DeleteVolume
  BY <1>10 DEF DeleteVolume, TypeOK, Statuses
<1>11. CASE Restart
  BY <1>11, CrashTypes, FaultTypes DEF Restart, TypeOK, Handlers, VAs
<1>12. ASSUME NEW h \in Slots, GoesLate(h) \/ ComesLate(h) PROVE TypeOK'
  BY <1>12, LateTypes
<1>13. CASE UNCHANGED vars
  BY <1>13 DEF vars, TypeOK
<1> QED
  BY <1>1, <1>2, <1>3, <1>4, <1>5, <1>6, <1>7, <1>8, <1>9, <1>10, <1>11, <1>12, <1>13
     DEF Next

\* Every reachable state is well typed; in particular no wait polls more often
\* than it may, also after handlers were abandoned or died.
THEOREM TypeCorrect == Spec => []TypeOK
BY TypeInit, TypeNext, PTL DEF Spec
---------------------------------------------------------------------------
(* The capacity told is true, also with abandoned handlers.                *)

\* A handler that has sent its resize, and one that has seen it end.
Sent(h) == hd[h].op = "expand" /\ hd[h].pc \in {"wait", "final"}
Over(h) == At(h, "expand", "final")

\* A volume has its first size or the one asked for, which is larger whenever
\* somebody resizes; a handler goes on from its wait only when the resize is
\* over, its own or another's; what was told is a size the volume has reached.
ExpandInv ==
    /\ vol.size \in {InitSize, Desired}
    /\ vol.status = "resizing" => InitSize < Desired
    /\ \A h \in Slots : hd[h].op = "expand" /\ hd[h].pc \in {"resize", "late"}
                        => InitSize < Desired
    /\ \A h \in Slots : Sent(h) => vol.status = "resizing" \/ vol.size = Desired
    /\ \A h \in Slots : Over(h) => vol.size = Desired
    /\ told = 0 \/ \E gb \in {InitSize, Desired} :
           told = CapacityBytes(gb) /\ Desired <= gb /\ gb <= vol.size

\* A handler's step moves no other handler but by ending the process.
LEMMA OthersStay ==
    ASSUME TypeOK, NEW h \in Slots, Step(h)
    PROVE  \A g \in Slots \ {h} : hd'[g] = hd[g] \/ hd'[g] = Idle("none")
BY StepMoves DEF TypeOK, Done, Goto, PollAgain, Crash

\* What keeps ExpandInv: handlers that reach no new place in an expansion, on a
\* volume whose size and resize stay as they are.
LEMMA ExpandKept ==
    ASSUME TypeOK, ExpandInv, vol'.size = vol.size, told' = told,
           vol'.status = "resizing" <=> vol.status = "resizing",
           \A h \in Slots : \/ hd'[h].op # "expand" \/ hd'[h].pc \in {"idle", "get"}
                            \/ hd'[h].op = hd[h].op /\ hd'[h].pc = hd[h].pc
                            \/ /\ hd'[h].op = hd[h].op /\ hd'[h].pc = "late"
                               /\ hd[h].op = "expand" => hd[h].pc = "resize"
    PROVE  ExpandInv'
BY DEF ExpandInv, At, Sent, Over

LEMMA ExpandStep ==
    ASSUME TypeOK, ExpandInv, NEW h \in Slots, Step(h)
    PROVE  ExpandInv'
<1> USE DEF TypeOK
<1>0. \A g \in Slots \ {h} : hd'[g] = hd[g] \/ hd'[g] = Idle("none")
  BY OthersStay
<1>1. CASE \/ PublishGet(h) \/ PublishAttach(h) \/ PublishRefetch(h)
           \/ UnpublishGet(h) \/ UnpublishDetach(h) \/ UnpublishRefetch(h)
  <2>1. vol'.size = vol.size /\ told' = told
        /\ (vol'.status = "resizing" <=> vol.status = "resizing")
    BY <1>1 DEF PublishGet, PublishAttach, PublishRefetch, UnpublishGet,
                UnpublishDetach, UnpublishRefetch
  <2>2. hd'[h].op # "expand"
    BY <1>1 DEF PublishGet, PublishAttach, PublishRefetch, UnpublishGet,
                UnpublishDetach, UnpublishRefetch, Done, Goto, Idle, At
  <2> QED
    BY <1>0, <2>1, <2>2, ExpandKept DEF Idle
<1>2. CASE ExpandGet(h)
  <2>1. vol' = vol
    BY <1>2 DEF ExpandGet
  <2>2. hd'[h].pc = "idle" \/ (hd'[h].op = "expand" /\ hd'[h].pc = "resize" /\ ~LargeEnough)
    BY <1>2 DEF ExpandGet, ExpandOK, Done, Goto, Idle, At
  <2>3. told' = told \/ (told' = CapacityBytes(vol.size) /\ LargeEnough)
    BY <1>2 DEF ExpandGet, ExpandOK
  <2> QED
    BY <1>0, <2>1, <2>2, <2>3, SizesAssumption, AskedTyped
       DEF ExpandInv, At, Sent, Over, Idle, LargeEnough
<1>3. CASE ExpandResize(h)
  <2>1. InitSize < Desired
    BY <1>3 DEF ExpandResize, ExpandInv, At
  <2>2. vol'.size = vol.size /\ told' = told
        /\ (vol' = vol \/ vol'.status = "resizing")
    BY <1>3 DEF ExpandResize
  <2>3. hd'[h].pc = "idle" \/ (hd'[h].pc = "wait" /\ vol'.status = "resizing")
    BY <1>3 DEF ExpandResize, Done, Goto, Idle
  <2> QED
    BY <1>0, <2>1, <2>2, <2>3 DEF ExpandInv, At, Sent, Over, Idle
<1>4. CASE ExpandWait(h)
  <2>1. vol' = vol /\ told' = told
    BY <1>4 DEF ExpandWait
  <2>2. \/ hd'[h].pc = "idle"
        \/ hd'[h].pc = "wait" /\ hd[h].pc = "wait" /\ hd[h].op = "expand"
        \/ hd'[h].pc = "final" /\ vol.status = "available"
    BY <1>4 DEF ExpandWait, Done, Goto, PollAgain, Idle, At
  <2>3. Sent(h)
    BY <1>4 DEF ExpandWait, At, Sent
  <2> QED
    BY <1>0, <2>1, <2>2, <2>3 DEF ExpandInv, At, Sent, Over, Idle
<1>5. CASE ExpandFinal(h)
  <2>1. Over(h) /\ vol.size = Desired
    BY <1>5 DEF ExpandFinal, Over, ExpandInv
  <2>2. vol' = vol /\ (told' = told \/ told' = CapacityBytes(vol.size))
    BY <1>5 DEF ExpandFinal, ExpandOK, Crash
  <2>3. hd'[h].pc = "idle"
    BY <1>5 DEF ExpandFinal, ExpandOK, Crash, Done, Idle, At
  <2> QED
    BY <1>0, <2>1, <2>2, <2>3, SizesAssumption, AskedTyped
       DEF ExpandInv, At, Sent, Over, Idle
<1> QED
  BY <1>1, <1>2, <1>3, <1>4, <1>5 DEF Step

LEMMA ExpandNext == TypeOK /\ ExpandInv /\ [Next]_vars => ExpandInv'
<1> SUFFICES ASSUME TypeOK, ExpandInv, [Next]_vars PROVE ExpandInv'
  OBVIOUS
<1> USE DEF TypeOK
<1>1. ASSUME NEW h \in Slots, Step(h) PROVE ExpandInv'
  BY <1>1, ExpandStep
<1>2. ASSUME NEW h \in Slots, MayFail(h) \/ GiveUp(h) PROVE ExpandInv'
  BY <1>2, ExpandKept DEF MayFail, CallFails, Done, GiveUp, Idle
<1>3. ASSUME NEW h \in Slots, NEW op, NEW n, Start(h, op, n) PROVE ExpandInv'
  BY <1>3, ExpandKept DEF Start
<1>4. ASSUME NEW n \in Nodes, CreateVA(n) \/ DeleteVA(n) PROVE ExpandInv'
  BY <1>4, ExpandKept DEF CreateVA, DeleteVA
<1>5. CASE ApiResized /\ UNCHANGED <<va, hd, told, faults>>
  <2>1. vol'.size = Desired /\ vol'.status = "available" /\ InitSize < Desired
    BY <1>5 DEF ApiResized, ExpandInv
  <2> QED
    BY <1>5, <2>1, SizesAssumption, AskedTyped DEF ExpandInv, At, Sent, Over
<1>6. CASE (ApiAttached \/ ApiDetached) /\ UNCHANGED <<va, hd, told, faults>>
  BY <1>6, ExpandKept DEF ApiAttached, ApiDetached
<1>7. CASE ApiAttachFails \/ DeleteVolume
  BY <1>7, ExpandKept DEF ApiAttachFails, DeleteVolume
<1>8. CASE Restart
  BY <1>8, ExpandKept DEF Restart, Crash, Idle
<1>9. ASSUME NEW h \in Slots, GoesLate(h) PROVE ExpandInv'
  <2>1. \A g \in Slots : \/ hd'[g].op = hd[g].op /\ hd'[g].pc = hd[g].pc
                         \/ /\ g = h /\ hd'[g].op = hd[g].op /\ hd'[g].pc = "late"
                            /\ hd[g].op = "expand" => hd[g].pc = "resize"
    BY <1>9 DEF GoesLate, Sends, At
  <2> QED
    BY <1>9, <2>1, ExpandKept DEF GoesLate
<1>10. ASSUME NEW h \in Slots, ComesLate(h) PROVE ExpandInv'
  <2>1. CASE hd[h].op = "expand" /\ vol' = [vol EXCEPT !.status = "resizing"]
    BY <1>10, <2>1 DEF ComesLate, ExpandInv, Sent, Over, At, Idle
  <2>2. CASE vol' = vol \/ hd[h].op # "expand"
    BY <1>10, <2>2, ExpandKept DEF ComesLate, ApiAccepts, Idle
  <2> QED
    BY <1>10, <2>1, <2>2 DEF ComesLate, ApiAccepts
<1>11. CASE UNCHANGED vars
  BY <1>11, ExpandKept DEF vars
<1> QED
  BY <1>1, <1>2, <1>3, <1>4, <1>5, <1>6, <1>7, <1>8, <1>9, <1>10, <1>11
     DEF Next, Slots, CallPublish, CallUnpublish, CallUnpublishAll, CallExpand, Api

LEMMA ExpandInit == Init => ExpandInv
BY DEF Init, ExpandInv, At, Sent, Over, Idle

\* The bytes told to the resizer are at least those it asked for and at most
\* what the volume has, whatever the handlers given up on and the other resizes
\* do, as long as the sizes fit the width.
THEOREM ExpandToldIsTrue ==
    ASSUME InitSize * BytesInGigabyte <= MaxInt64,
           Desired * BytesInGigabyte <= MaxInt64
    PROVE  Spec => []ExpandIsHonest
<1>1. ASSUME TypeOK, ExpandInv, told # 0
      PROVE  Asked <= told /\ told <= vol.size * BytesInGigabyte
  <2>1. PICK gb \in {InitSize, Desired} :
            told = CapacityBytes(gb) /\ Desired <= gb /\ gb <= vol.size
    BY <1>1 DEF ExpandInv
  <2>2. gb \in Nat /\ Desired \in Nat /\ vol.size \in Nat /\ Asked \in Nat
    BY <2>1, <1>1, SizesAssumption, AskedTyped DEF TypeOK
  <2>3. told = gb * BytesInGigabyte
    <3>1. gb * BytesInGigabyte \in Nat
      BY <2>2, WidthAssumption
    <3> QED
      BY <2>1, <3>1, NoWrap, WidthAssumption DEF CapacityBytes
  <2>4. Asked <= Desired * BytesInGigabyte
    BY <2>2, RoundingUp DEF Desired
  <2>5. /\ Desired * BytesInGigabyte <= gb * BytesInGigabyte
        /\ gb * BytesInGigabyte <= vol.size * BytesInGigabyte
    BY <2>1, <2>2, WidthAssumption
  <2>6. /\ Desired * BytesInGigabyte \in Nat /\ gb * BytesInGigabyte \in Nat
        /\ vol.size * BytesInGigabyte \in Nat
    BY <2>2, WidthAssumption
  <2> QED
    BY <2>2, <2>3, <2>4, <2>5, <2>6
<1>2. TypeOK /\ ExpandInv => ExpandIsHonest
  BY <1>1 DEF ExpandIsHonest
<1> QED
  BY <1>2, TypeInit, TypeNext, ExpandInit, ExpandNext, PTL DEF Spec
---------------------------------------------------------------------------
(* Sidecars that wait for their calls: a confirmed attachment or release   *)
(* is true.                                                                *)

Busy(h) == hd[h].pc # "idle"
Held == vol.status \in {"attaching", "attached", "detaching"}

\* Every handler at work is waited for; one of the attacher serves the request
\* its node's VA stands for, and no two serve one node.
CallInv ==
    /\ \A h \in Slots : Busy(h) => hd[h].awaited
    /\ \A h \in ResizeSlots : Busy(h) => hd[h].op = "expand" /\ hd[h].node = None
    /\ \A h \in AttachSlots : Busy(h) =>
           /\ hd[h].node \in Nodes
           /\ \/ hd[h].op = "publish" /\ va[hd[h].node] = "attach"
              \/ hd[h].op = "unpublish" /\ va[hd[h].node] = "detach"
    /\ \A g, h \in AttachSlots :
           Busy(g) /\ Busy(h) /\ hd[g].node = hd[h].node => g = h

\* One node has a VA, and the volume is with that node or with none; it leaves
\* only a node that gives it back, and is where the attacher was told it is.
PlaceInv ==
    /\ \A m, n \in Nodes : va[m] # "none" /\ va[n] # "none" => m = n
    /\ Held => vol.inst \in Nodes /\ va[vol.inst] # "none"
    /\ ~Held => vol.inst = None
    /\ vol.status = "detaching" => va[vol.inst] = "detach"
    /\ PublishedStaysAttached

SerialInv == CallInv /\ PlaceInv

LEMMA SerialInit == Init => SerialInv
BY DEF Init, SerialInv, CallInv, PlaceInv, Busy, Held, Idle, Slots,
       PublishedStaysAttached

\* A call that returns frees its handler and settles its node's VA only.
LEMMA DoneCall ==
    ASSUME TypeOK, CallInv, NEW h \in Slots, Busy(h),
           NEW code \in {"OK", "Error"}, Done(h, code)
    PROVE  /\ CallInv'
           /\ va' = IF code = "OK" /\ h \in AttachSlots
                    THEN [va EXCEPT ![hd[h].node] = IF hd[h].op = "publish"
                                                    THEN "attached" ELSE "none"]
                    ELSE va
<1> USE DEF TypeOK, Busy
<1>1. hd' = [hd EXCEPT ![h] = Idle(code)] /\ Idle(code).pc = "idle"
  BY DEF Done, Idle
<1>2. hd[h].awaited /\ (h \in AttachSlots <=> hd[h].node \in Nodes)
  BY NodesAssumption, SlotsAssumption DEF CallInv, Slots
<1>3. va' = IF code = "OK" /\ h \in AttachSlots
            THEN [va EXCEPT ![hd[h].node] = IF hd[h].op = "publish"
                                            THEN "attached" ELSE "none"]
            ELSE va
  BY <1>2 DEF Done
<1>4. \A g \in Slots : Busy(g)' => g # h /\ hd'[g] = hd[g] /\ Busy(g)
  BY <1>1
<1>5. ASSUME NEW g \in AttachSlots, Busy(g)'
      PROVE  va'[hd[g].node] = va[hd[g].node]
  <2>1. g # h /\ Busy(g)
    BY <1>4, <1>5 DEF Slots
  <2>2. hd[g].node \in Nodes /\ (h \in AttachSlots => hd[g].node # hd[h].node)
    BY <2>1 DEF CallInv
  <2> QED
    BY <2>2, <1>2, <1>3
<1>6. \A g \in AttachSlots : Busy(g)' =>
          /\ hd'[g].node \in Nodes
          /\ \/ hd'[g].op = "publish" /\ va'[hd'[g].node] = "attach"
             \/ hd'[g].op = "unpublish" /\ va'[hd'[g].node] = "detach"
  BY <1>4, <1>5 DEF CallInv, Slots
<1>7. \A f, g \in AttachSlots :
          Busy(f)' /\ Busy(g)' /\ hd'[f].node = hd'[g].node => f = g
  BY <1>4 DEF CallInv, Slots
<1>8. /\ \A g \in Slots : Busy(g)' => hd'[g].awaited
      /\ \A g \in ResizeSlots : Busy(g)' => hd'[g].op = "expand" /\ hd'[g].node = None
  BY <1>4 DEF CallInv, Slots
<1> QED
  BY <1>3, <1>6, <1>7, <1>8 DEF CallInv

LEMMA GotoCall ==
    ASSUME TypeOK, CallInv, NEW h \in Slots, Busy(h),
           NEW label \in Labels, Goto(h, label) \/ PollAgain(h)
    PROVE  CallInv' /\ va' = va
BY DEF TypeOK, CallInv, Busy, Goto, PollAgain, Slots

\* The steps of the attacher's calls: what each does to VA and volume.
LEMMA PublishPlace ==
    ASSUME ~Overlap, TypeOK, SerialInv, NEW h \in Slots,
           PublishGet(h) \/ PublishAttach(h) \/ PublishRefetch(h)
    PROVE  SerialInv'
<1> USE DEF TypeOK
<1> DEFINE n == hd[h].node
<1>1. Busy(h) /\ hd[h].op = "publish"
  BY DEF PublishGet, PublishAttach, PublishRefetch, At, Busy
<1>2. h \in AttachSlots /\ n \in Nodes /\ va[n] = "attach"
  BY <1>1 DEF SerialInv, CallInv, Slots
<1>3. CASE Done(h, "OK")
  <2>1. vol' = vol /\ AttachedTo(n)
    BY <1>3 DEF PublishGet, PublishAttach, PublishRefetch, Done, Goto, Idle
  <2> QED
    BY <1>1, <1>2, <1>3, <2>1, DoneCall
       DEF SerialInv, PlaceInv, Held, AttachedTo, OwnedBy, PublishedStaysAttached
<1>4. CASE Done(h, "Error") \/ \E label \in Labels : Goto(h, label)
  <2>1. CallInv' /\ va' = va
    BY <1>1, <1>4, DoneCall, GotoCall DEF SerialInv
  <2>2. \/ vol' = vol
        \/ vol.status = "available" /\ vol' = [vol EXCEPT !.status = "attaching", !.inst = n]
    BY DEF PublishGet, PublishAttach, PublishRefetch
  <2> QED
    BY <1>2, <2>1, <2>2 DEF SerialInv, PlaceInv, Held, PublishedStaysAttached
<1> QED
  BY <1>3, <1>4 DEF PublishGet, PublishAttach, PublishRefetch, Labels

LEMMA UnpublishPlace ==
    ASSUME ~Overlap, TypeOK, SerialInv, NEW h \in Slots,
           UnpublishGet(h) \/ UnpublishDetach(h) \/ UnpublishRefetch(h)
    PROVE  SerialInv'
<1> USE DEF TypeOK
<1> DEFINE n == hd[h].node
<1>1. Busy(h) /\ hd[h].op = "unpublish"
  BY DEF UnpublishGet, UnpublishDetach, UnpublishRefetch, At, Busy
<1>2. h \in AttachSlots /\ n \in Nodes /\ va[n] = "detach"
  BY <1>1 DEF SerialInv, CallInv, Slots
<1>3. CASE Done(h, "OK")
  <2>1. vol' = vol /\ (~Held \/ vol.inst # n)
    BY <1>3 DEF UnpublishGet, UnpublishDetach, UnpublishRefetch, Done, Goto, Idle,
                NothingToDetach, OwnedBy, Free, Held
  <2> QED
    BY <1>1, <1>2, <1>3, <2>1, DoneCall
       DEF SerialInv, PlaceInv, Held, PublishedStaysAttached
<1>4. CASE Done(h, "Error") \/ \E label \in Labels : Goto(h, label)
  <2>1. CallInv' /\ va' = va
    BY <1>1, <1>4, DoneCall, GotoCall DEF SerialInv
  <2>2. \/ vol' = vol
        \/ vol.status \in {"attaching", "attached"} /\ vol' = [vol EXCEPT !.status = "detaching"]
    BY DEF UnpublishGet, UnpublishDetach, UnpublishRefetch
  <2> QED
    BY <1>2, <2>1, <2>2 DEF SerialInv, PlaceInv, Held, PublishedStaysAttached
<1> QED
  BY <1>3, <1>4 DEF UnpublishGet, UnpublishDetach, UnpublishRefetch, Labels

LEMMA ExpandPlace ==
    ASSUME ~Overlap, TypeOK, SerialInv, NEW h \in Slots,
           ExpandGet(h) \/ ExpandResize(h) \/ ExpandWait(h) \/ ExpandFinal(h)
    PROVE  SerialInv'
<1> USE DEF TypeOK
<1>1. Busy(h) /\ hd[h].op = "expand"
  BY DEF ExpandGet, ExpandResize, ExpandWait, ExpandFinal, At, Busy
<1>2. h \notin AttachSlots
  BY <1>1 DEF SerialInv, CallInv
<1>3. CallInv' /\ va' = va
  <2>1. CASE Done(h, "OK") \/ Done(h, "Error")
    BY <1>1, <1>2, <2>1, DoneCall DEF SerialInv
  <2>2. CASE (\E label \in Labels : Goto(h, label)) \/ PollAgain(h)
    BY <1>1, <2>2, GotoCall DEF SerialInv, Labels
  <2>3. CASE Crash
    <3>1. va' = va /\ \A g \in Slots : Busy(g)' => Busy(g) /\ hd'[g] = hd[g]
      BY <2>3 DEF Crash, Busy, Idle
    <3> QED
      BY <3>1 DEF SerialInv, CallInv, Slots
  <2> QED
    BY <2>1, <2>2, <2>3
       DEF ExpandGet, ExpandOK, ExpandResize, ExpandWait, ExpandFinal, Labels
<1>4. \/ vol' = vol
      \/ vol.status = "available" /\ vol' = [vol EXCEPT !.status = "resizing"]
  BY DEF ExpandGet, ExpandResize, ExpandWait, ExpandFinal, Crash
<1> QED
  BY <1>3, <1>4 DEF SerialInv, PlaceInv, Held, PublishedStaysAttached

\* A new call serves a VA that no other call serves.
LEMMA StartCall ==
    ASSUME TypeOK, CallInv, NEW h \in AttachSlots, NEW n \in Nodes,
           NEW op \in {"publish", "unpublish"}, Start(h, op, n), va' = va,
           ~Awaited(n), va[n] = IF op = "publish" THEN "attach" ELSE "detach"
    PROVE  CallInv'
<1> USE DEF TypeOK, Busy, Slots
<1>1. hd' = [hd EXCEPT ![h] = [op |-> op, node |-> n, pc |-> "get", tries |-> 0,
                               awaited |-> TRUE, code |-> "none"]]
  BY DEF Start
<1>2. \A g \in AttachSlots : Busy(g) => hd[g].node # n
  BY DEF Awaited, CallInv
<1>3. \A g \in Slots \ {h} : hd'[g] = hd[g]
  BY <1>1
<1>4. h \notin ResizeSlots
  BY SlotsAssumption
<1> QED
  BY <1>1, <1>2, <1>3, <1>4 DEF CallInv

LEMMA SerialNext ==
    ASSUME ~Overlap, ~OmitNode, ~LateRequests
    PROVE  TypeOK /\ SerialInv /\ [Next]_vars => SerialInv'
<1> SUFFICES ASSUME TypeOK, SerialInv, [Next]_vars PROVE SerialInv'
  OBVIOUS
<1> USE DEF TypeOK
<1>1. ASSUME NEW h \in Slots, Step(h) PROVE SerialInv'
  BY <1>1, PublishPlace, UnpublishPlace, ExpandPlace DEF Step
<1>2. ASSUME NEW h \in Slots, MayFail(h) PROVE SerialInv'
  <2>1. CallInv' /\ va' = va /\ vol' = vol
    BY <1>2, DoneCall DEF MayFail, CallFails, SerialInv, Busy
  <2> QED
    BY <2>1 DEF SerialInv, PlaceInv, Held, PublishedStaysAttached
<1>3. ASSUME NEW h \in AttachSlots, NEW n \in Nodes,
             CallPublish(h, n) \/ CallUnpublish(h, n)
      PROVE  SerialInv'
  <2>1. CallInv' /\ va' = va /\ vol' = vol
    BY <1>3, StartCall DEF CallPublish, CallUnpublish, Start, SerialInv
  <2> QED
    BY <2>1 DEF SerialInv, PlaceInv, Held, PublishedStaysAttached
<1>4. ASSUME NEW h \in ResizeSlots, CallExpand(h) PROVE SerialInv'
  <2>1. /\ hd' = [hd EXCEPT ![h] = [op |-> "expand", node |-> None, pc |-> "get",
                     tries |-> 0, awaited |-> TRUE, code |-> "none"]]
        /\ va' = va /\ vol' = vol
    BY <1>4 DEF CallExpand, Start
  <2>2. h \notin AttachSlots
    BY SlotsAssumption
  <2> QED
    BY <2>1, <2>2 DEF SerialInv, CallInv, PlaceInv, Busy, Held, Slots,
                      PublishedStaysAttached
<1>5. ASSUME NEW n \in Nodes, CreateVA(n) PROVE SerialInv'
  BY <1>5 DEF CreateVA, SerialInv, CallInv, PlaceInv, Busy, Held, Slots,
              PublishedStaysAttached
<1>6. ASSUME NEW n \in Nodes, DeleteVA(n) PROVE SerialInv'
  <2>1. \A g \in AttachSlots : Busy(g) => hd[g].node # n
    BY <1>6 DEF DeleteVA, Awaited, SerialInv, CallInv, Slots
  <2> QED
    BY <1>6, <2>1 DEF DeleteVA, SerialInv, CallInv, PlaceInv, Busy, Held, Slots,
                      PublishedStaysAttached
<1>7. CASE Api \/ ApiAttachFails \/ DeleteVolume
  <2>1. CallInv' /\ va' = va
    BY <1>7 DEF Api, ApiAttachFails, DeleteVolume, SerialInv, CallInv, Busy
  <2>2. \/ vol.status = "attaching" /\ vol' = [vol EXCEPT !.status = "attached"]
        \/ Held /\ vol.status # "attached"
           /\ vol' = [vol EXCEPT !.status = "available", !.inst = None]
        \/ ~Held /\ ~Held' /\ vol'.inst = vol.inst
    BY <1>7 DEF Api, ApiAttached, ApiDetached, ApiResized, ApiAttachFails,
                DeleteVolume, Held
  <2> QED
    BY <2>1, <2>2 DEF SerialInv, PlaceInv, Held, PublishedStaysAttached
<1>8. CASE Restart
  BY <1>8 DEF Restart, Crash, Idle, SerialInv, CallInv, PlaceInv, Busy, Held,
              Slots, PublishedStaysAttached
<1>9. CASE UNCHANGED vars
  BY <1>9 DEF vars, SerialInv, CallInv, PlaceInv, Busy, Held, PublishedStaysAttached
<1> QED
  BY <1>1, <1>2, <1>3, <1>4, <1>5, <1>6, <1>7, <1>8, <1>9
     DEF Next, GiveUp, CallUnpublishAll, GoesLate, ComesLate

\* Sidecars that wait for their calls: a node keeps the volume it was told it
\* has until it gives it back, through failed calls, restarts and resizes.
THEOREM AttachmentsStay ==
    ASSUME ~Overlap, ~OmitNode, ~LateRequests
    PROVE  Spec => []PublishedStaysAttached
<1>1. SerialInv => PublishedStaysAttached
  BY DEF SerialInv, PlaceInv
<1> QED
  BY <1>1, TypeInit, TypeNext, SerialInit, SerialNext, PTL DEF Spec

\* And a node that gave the volume back, or never asked, does not get it later.
THEOREM ReleasesAreTrue ==
    ASSUME ~Overlap, ~OmitNode, ~LateRequests
    PROVE  Spec => []ReleasedIsFree
<1>1. SerialInv => ReleasedIsFree
  BY NodesAssumption DEF SerialInv, PlaceInv, Held, ReleasedIsFree
<1> QED
  BY <1>1, TypeInit, TypeNext, SerialInit, SerialNext, PTL DEF Spec
---------------------------------------------------------------------------
(* The attach side implements ExclusiveAttachment.                         *)

\* What a step leaves alone on the abstract side.
LEMMA Stutter ==
    ASSUME va' = va, Holder' = Holder, vol'.size = vol.size
    PROVE  UNCHANGED Attachment!vars
BY DEF Attachment!vars, Holder

LEMMA AttachmentInit == Init => Attachment!Init
BY SizesAssumption DEF Init, Attachment!Init, Holder

\* An answer to the attacher confirms what holds; a detach request for a volume
\* still on its way to the node takes it there first.
LEMMA PublishImplements ==
    ASSUME TypeOK, SerialInv, NEW h \in Slots,
           PublishGet(h) \/ PublishAttach(h) \/ PublishRefetch(h)
    PROVE  [Attachment!Next]_(Attachment!vars)
<1> USE DEF TypeOK
<1> DEFINE n == hd[h].node
<1>1. Busy(h) /\ hd[h].op = "publish"
  BY DEF PublishGet, PublishAttach, PublishRefetch, At, Busy
<1>2. h \in AttachSlots /\ n \in Nodes /\ va[n] = "attach"
  BY <1>1 DEF SerialInv, CallInv, Slots
<1>3. CASE Done(h, "OK")
  <2>1. vol' = vol /\ AttachedTo(n)
    BY <1>3 DEF PublishGet, PublishAttach, PublishRefetch, Done, Goto, Idle
  <2>2. va' = [va EXCEPT ![n] = "attached"]
    BY <1>1, <1>2, <1>3, DoneCall DEF SerialInv
  <2>3. Attachment!ConfirmAttached(n)
    BY <1>2, <2>1, <2>2 DEF Attachment!ConfirmAttached, AttachedTo, OwnedBy, Holder
  <2> QED
    BY <1>2, <2>3 DEF Attachment!Next
<1>4. CASE Done(h, "Error") \/ \E label \in Labels : Goto(h, label)
  <2>1. va' = va
    BY <1>1, <1>4, DoneCall, GotoCall DEF SerialInv
  <2>2. \/ vol' = vol
        \/ vol.status = "available" /\ vol' = [vol EXCEPT !.status = "attaching", !.inst = n]
    BY DEF PublishGet, PublishAttach, PublishRefetch
  <2> QED
    BY <2>1, <2>2, Stutter DEF Holder
<1> QED
  BY <1>3, <1>4 DEF PublishGet, PublishAttach, PublishRefetch, Labels

LEMMA UnpublishImplements ==
    ASSUME TypeOK, SerialInv, NEW h \in Slots,
           UnpublishGet(h) \/ UnpublishDetach(h) \/ UnpublishRefetch(h)
    PROVE  [Attachment!Next]_(Attachment!vars)
<1> USE DEF TypeOK
<1> DEFINE n == hd[h].node
<1>1. Busy(h) /\ hd[h].op = "unpublish"
  BY DEF UnpublishGet, UnpublishDetach, UnpublishRefetch, At, Busy
<1>2. h \in AttachSlots /\ n \in Nodes /\ va[n] = "detach"
  BY <1>1 DEF SerialInv, CallInv, Slots
<1>3. CASE Done(h, "OK")
  <2>1. vol' = vol /\ Holder # n
    BY <1>2, <1>3, NodesAssumption
       DEF UnpublishGet, UnpublishDetach, UnpublishRefetch, Done, Goto, Idle,
           NothingToDetach, OwnedBy, Free, Holder
  <2>2. va' = [va EXCEPT ![n] = "none"]
    BY <1>1, <1>2, <1>3, DoneCall DEF SerialInv
  <2>3. Attachment!ConfirmReleased(n)
    BY <1>2, <2>1, <2>2 DEF Attachment!ConfirmReleased, Holder
  <2> QED
    BY <1>2, <2>3 DEF Attachment!Next
<1>4. CASE Done(h, "Error") \/ \E label \in Labels : Goto(h, label)
  <2>1. va' = va
    BY <1>1, <1>4, DoneCall, GotoCall DEF SerialInv
  <2>2. CASE vol' = vol
    BY <2>1, <2>2, Stutter DEF Holder
  <2>3. CASE vol.status = "attached" /\ vol' = [vol EXCEPT !.status = "detaching"]
    BY <2>1, <2>3, Stutter DEF Holder
  <2>4. CASE vol.status = "attaching" /\ vol' = [vol EXCEPT !.status = "detaching"]
    <3>1. vol.inst = n
      BY <1>2, <2>4 DEF SerialInv, PlaceInv, Held
    <3>2. Attachment!Attach(n)
      BY <1>2, <2>1, <2>4, <3>1 DEF Attachment!Attach, Holder
    <3> QED
      BY <1>2, <3>2 DEF Attachment!Next
  <2> QED
    BY <2>2, <2>3, <2>4 DEF UnpublishGet, UnpublishDetach, UnpublishRefetch
<1> QED
  BY <1>3, <1>4 DEF UnpublishGet, UnpublishDetach, UnpublishRefetch, Labels

\* The API's own steps: a node gets the volume, loses it, or it grows.
LEMMA ApiImplements ==
    ASSUME TypeOK, SerialInv, ExpandInv, Api
    PROVE  [Attachment!Next]_(Attachment!vars)
<1> USE DEF TypeOK
<1>1. va' = va
  BY DEF Api
<1>2. CASE ApiAttached
  <2>1. vol.inst \in Nodes /\ va[vol.inst] \in {"attach", "detach"}
    BY <1>2 DEF ApiAttached, SerialInv, PlaceInv, Held, PublishedStaysAttached
  <2>2. Attachment!Attach(vol.inst)
    BY <1>1, <1>2, <2>1 DEF ApiAttached, Attachment!Attach, Holder
  <2> QED
    BY <2>1, <2>2 DEF Attachment!Next
<1>3. CASE ApiDetached
  <2>1. vol.inst \in Nodes /\ va[vol.inst] = "detach"
    BY <1>3 DEF ApiDetached, SerialInv, PlaceInv, Held
  <2>2. Attachment!Detach(vol.inst)
    BY <1>1, <1>3, <2>1 DEF ApiDetached, Attachment!Detach, Holder
  <2> QED
    BY <2>1, <2>2 DEF Attachment!Next
<1>4. CASE ApiResized
  <2>1. vol'.size = Desired /\ vol.size \in {InitSize, Desired} /\ InitSize < Desired
    BY <1>4 DEF ApiResized, ExpandInv
  <2>2. Holder' = None /\ Holder = None
    BY <1>4 DEF ApiResized, Holder
  <2>3. CASE vol.size = Desired
    BY <1>1, <2>1, <2>2, <2>3, Stutter
  <2>4. CASE vol.size = InitSize
    BY <1>1, <2>1, <2>2, <2>4, AskedTyped DEF Attachment!Grow, Attachment!Next, Holder
  <2> QED
    BY <2>1, <2>3, <2>4
<1> QED
  BY <1>2, <1>3, <1>4 DEF Api

LEMMA AttachmentNext ==
    ASSUME ~Overlap, ~OmitNode, ~LateRequests
    PROVE  TypeOK /\ SerialInv /\ ExpandInv /\ [Next]_vars =>
               [Attachment!Next]_(Attachment!vars)
<1> SUFFICES ASSUME TypeOK, SerialInv, ExpandInv, [Next]_vars
             PROVE  [Attachment!Next]_(Attachment!vars)
  OBVIOUS
<1> USE DEF TypeOK
<1>1. ASSUME NEW h \in Slots, PublishGet(h) \/ PublishAttach(h) \/ PublishRefetch(h)
      PROVE  [Attachment!Next]_(Attachment!vars)
  BY <1>1, PublishImplements
<1>2. ASSUME NEW h \in Slots, UnpublishGet(h) \/ UnpublishDetach(h) \/ UnpublishRefetch(h)
      PROVE  [Attachment!Next]_(Attachment!vars)
  BY <1>2, UnpublishImplements
<1>3. ASSUME NEW h \in Slots, ExpandGet(h) \/ ExpandResize(h) \/ ExpandWait(h)
                                  \/ ExpandFinal(h)
      PROVE  UNCHANGED Attachment!vars
  <2>1. Busy(h) /\ hd[h].op = "expand"
    BY <1>3 DEF ExpandGet, ExpandResize, ExpandWait, ExpandFinal, At, Busy
  <2>2. hd[h].node = None
    BY <2>1 DEF SerialInv, CallInv, Slots
  <2>3. va' = va
    BY <1>3, <2>2, NodesAssumption
       DEF ExpandGet, ExpandOK, ExpandResize, ExpandWait, ExpandFinal, Done, Goto,
           PollAgain, Crash
  <2>4. \/ vol' = vol
        \/ vol.status = "available" /\ vol' = [vol EXCEPT !.status = "resizing"]
    BY <1>3 DEF ExpandGet, ExpandResize, ExpandWait, ExpandFinal, Crash
  <2> QED
    BY <2>3, <2>4, Stutter DEF Holder
<1>4. ASSUME NEW h \in Slots, MayFail(h) PROVE UNCHANGED Attachment!vars
  BY <1>4, Stutter DEF MayFail, CallFails, Done, Holder
<1>5. ASSUME \/ \E h \in AttachSlots, n \in Nodes : CallPublish(h, n) \/ CallUnpublish(h, n)
             \/ \E h \in ResizeSlots : CallExpand(h)
      PROVE  UNCHANGED Attachment!vars
  BY <1>5, Stutter DEF CallPublish, CallUnpublish, CallExpand, Start, Holder
<1>6. ASSUME NEW n \in Nodes, CreateVA(n) PROVE Attachment!Ask(n)
  BY <1>6 DEF CreateVA, Attachment!Ask, Holder
<1>7. ASSUME NEW n \in Nodes, DeleteVA(n) PROVE Attachment!AskBack(n)
  BY <1>7 DEF DeleteVA, Attachment!AskBack, Holder
<1>8. CASE Api
  BY <1>8, ApiImplements
<1>9. CASE ApiAttachFails \/ DeleteVolume
  BY <1>9, Stutter DEF ApiAttachFails, DeleteVolume, Holder
<1>10. CASE Restart \/ UNCHANGED vars
  BY <1>10, Stutter DEF Restart, Crash, vars, Holder
<1> QED
  BY <1>1, <1>2, <1>3, <1>4, <1>5, <1>6, <1>7, <1>8, <1>9, <1>10
     DEF Next, Step, GiveUp, CallUnpublishAll, GoesLate, ComesLate, Attachment!Next

\* With sidecars that wait for their calls, the controller service and the API
\* behind it are an exclusive attachment of a volume that only grows offline.
THEOREM AttachmentImplemented ==
    ASSUME ~Overlap, ~OmitNode, ~LateRequests
    PROVE  Spec => ImplementsExclusiveAttachment
BY TypeInit, TypeNext, SerialInit, SerialNext, ExpandInit, ExpandNext,
   AttachmentInit, AttachmentNext, PTL
   DEF Spec, ImplementsExclusiveAttachment, Attachment!Spec

\* With sidecars that wait, the volume that a detach takes away is still with
\* the node it was checked to be with at the GetVolume before; the assumption
\* is what attach_wrong_node shows to be needed.
THEOREM DetachesAreRight ==
    ASSUME ~Overlap, ~OmitNode, ~LateRequests
    PROVE  Spec => DetachHitsItsNode
<1>1. ASSUME TypeOK, SerialInv, NEW h \in Slots, UnpublishDetach(h),
             vol'.status = "detaching", vol.status # "detaching"
      PROVE  hd[h].node = vol.inst
  <2>1. Busy(h) /\ hd[h].op = "unpublish"
    BY <1>1 DEF UnpublishDetach, At, Busy
  <2>2. hd[h].node \in Nodes /\ va[hd[h].node] # "none"
    BY <1>1, <2>1 DEF SerialInv, CallInv, Slots
  <2>3. vol.status \in {"attaching", "attached"}
    BY <1>1 DEF UnpublishDetach
  <2>4. vol.inst \in Nodes /\ va[vol.inst] # "none"
    BY <1>1, <2>3 DEF SerialInv, PlaceInv, Held
  <2> QED
    BY <1>1, <2>2, <2>4 DEF SerialInv, PlaceInv
<1>2. TypeOK /\ SerialInv /\ [Next]_vars =>
      [\A h \in Slots :
          UnpublishDetach(h) /\ vol'.status = "detaching" /\ vol.status # "detaching"
             => hd[h].node = vol.inst]_vars
  BY <1>1
<1> QED
  BY <1>2, TypeInit, TypeNext, SerialInit, SerialNext, ExpandInit, ExpandNext, PTL
     DEF Spec, DetachHitsItsNode

---------------------------------------------------------------------------
(* A handler runs out of steps.                                            *)

\* The API round trips that handler h can still make before it returns.
RoundTripsLeft(h) ==
    CASE hd[h].pc = "get"                            -> Retries + 3
      [] hd[h].pc \in {"attach", "detach", "resize"} -> Retries + 2
      [] hd[h].pc = "wait"                           -> Retries - hd[h].tries + 1
      [] hd[h].pc \in {"refetch", "final"}           -> 1
      [] OTHER                                       -> 0

\* Each round trip uses one up, and only a new call gives a handler any.
RoundTripsBounded ==
    [][\A h \in Slots :
          /\ Step(h) \/ MayFail(h) => RoundTripsLeft(h)' < RoundTripsLeft(h)
          /\ RoundTripsLeft(h)' > RoundTripsLeft(h) =>
                 hd[h].pc = "idle" /\ hd'[h].pc = "get"]_vars

\* The polls are counted from the first one.
PollInv ==
    \A h \in Slots : hd[h].pc \in {"get", "attach", "detach", "resize"} =>
        hd[h].tries = 0

LEMMA PollNext == TypeOK /\ PollInv /\ [Next]_vars => PollInv'
<1> SUFFICES ASSUME TypeOK, PollInv, [Next]_vars PROVE PollInv'
  OBVIOUS
<1> USE DEF TypeOK, PollInv
<1>1. ASSUME NEW h \in Slots, NEW code, Done(h, code) PROVE PollInv'
  BY <1>1 DEF Done, Idle
<1>2. ASSUME NEW h \in Slots, Step(h) PROVE PollInv'
  <2>1. CASE \E label \in Labels :
                 hd[h].pc \in {"get", "attach", "detach", "resize"} /\ Goto(h, label)
    BY <2>1 DEF Goto
  <2>2. CASE hd[h].pc = "wait" /\ Goto(h, "final")
    BY <2>2 DEF Goto
  <2>3. CASE hd[h].pc = "wait" /\ PollAgain(h)
    BY <2>3 DEF PollAgain
  <2>4. CASE Crash
    BY <2>4 DEF Crash, Idle
  <2> QED
    BY <1>1, <1>2, <2>1, <2>2, <2>3, <2>4
       DEF Step, PublishGet, PublishAttach, PublishRefetch, UnpublishGet,
           UnpublishDetach, UnpublishRefetch, ExpandGet, ExpandResize, ExpandWait,
           ExpandFinal, ExpandOK, At, Labels
<1>3. ASSUME NEW h \in Slots, MayFail(h) PROVE PollInv'
  BY <1>1, <1>3 DEF MayFail, CallFails
<1>4. ASSUME NEW h \in Slots, NEW op, NEW n, Start(h, op, n) PROVE PollInv'
  BY <1>4 DEF Start
<1>5. ASSUME NEW h \in Slots, GiveUp(h) PROVE PollInv'
  <2>1. \A g \in Slots : hd'[g].pc = hd[g].pc /\ hd'[g].tries = hd[g].tries
    BY <1>5 DEF GiveUp
  <2> QED
    BY <2>1
<1>6. CASE Restart
  BY <1>6 DEF Restart, Crash, Idle
<1>7. ASSUME NEW h \in Slots, GoesLate(h) \/ ComesLate(h) PROVE PollInv'
  BY <1>7 DEF GoesLate, ComesLate, Idle
<1>8. CASE hd' = hd
  BY <1>8
<1> QED
  BY <1>2, <1>3, <1>4, <1>5, <1>6, <1>7, <1>8
     DEF Next, vars, CallPublish, CallUnpublish, CallUnpublishAll, CallExpand,
         CreateVA, DeleteVA, Api, ApiAttachFails, DeleteVolume, Slots

\* A round trip, or the failure of one, brings the handler nearer to its return.
LEMMA StepUsesOne ==
    ASSUME TypeOK, PollInv, NEW h \in Slots, Step(h) \/ MayFail(h)
    PROVE  RoundTripsLeft(h)' < RoundTripsLeft(h)
<1> USE RetriesAssumption DEF TypeOK, RoundTripsLeft
<1>1. hd[h].pc \in Labels \ {"idle", "late"} /\ hd[h].tries \in 0 .. Retries - 1
  BY DEF Step, MayFail, PublishGet, PublishAttach, PublishRefetch, UnpublishGet,
         UnpublishDetach, UnpublishRefetch, ExpandGet, ExpandResize, ExpandWait,
         ExpandFinal, At
<1>2. CASE hd'[h].pc = "idle"
  <2>1. RoundTripsLeft(h)' = 0
    BY <1>2
  <2>2. RoundTripsLeft(h) > 0
    BY <1>1 DEF Labels
  <2> QED
    BY <2>1, <2>2
<1>3. CASE hd[h].pc = "wait" /\ PollAgain(h)
  BY <1>1, <1>3 DEF PollAgain
<1>4. CASE \/ hd[h].pc = "get" /\ \E label \in {"attach", "refetch", "detach", "resize"} :
                  Goto(h, label)
           \/ hd[h].pc \in {"attach", "detach"} /\ Goto(h, "refetch")
           \/ hd[h].pc = "resize" /\ Goto(h, "wait")
           \/ hd[h].pc = "wait" /\ Goto(h, "final")
  BY <1>1, <1>4 DEF Goto, PollInv
<1>5. ASSUME NEW code, Done(h, code) PROVE hd'[h].pc = "idle"
  BY <1>5 DEF Done, Idle
<1>6. ASSUME Crash PROVE hd'[h].pc = "idle"
  BY <1>1, <1>6 DEF Crash, Idle
<1> HIDE DEF RoundTripsLeft, TypeOK
<1>7. CASE MayFail(h)
  BY <1>2, <1>5, <1>7 DEF MayFail, CallFails
<1>8. CASE PublishGet(h) \/ PublishAttach(h) \/ PublishRefetch(h)
  BY <1>2, <1>4, <1>5, <1>8 DEF PublishGet, PublishAttach, PublishRefetch, At
<1>9. CASE UnpublishGet(h) \/ UnpublishDetach(h) \/ UnpublishRefetch(h)
  BY <1>2, <1>4, <1>5, <1>9 DEF UnpublishGet, UnpublishDetach, UnpublishRefetch, At
<1>10. CASE ExpandGet(h) \/ ExpandResize(h) \/ ExpandWait(h) \/ ExpandFinal(h)
  BY <1>2, <1>3, <1>4, <1>5, <1>6, <1>10
     DEF ExpandGet, ExpandResize, ExpandWait, ExpandFinal, ExpandOK, At
<1> QED
  BY <1>7, <1>8, <1>9, <1>10 DEF Step

\* Nobody else gives it a round trip more, but a new call.
LEMMA OthersKeepThem ==
    ASSUME TypeOK, NEW h \in Slots, [Next]_vars, ~Step(h), ~MayFail(h),
           ~(hd[h].pc = "idle" /\ hd'[h].pc = "get")
    PROVE  RoundTripsLeft(h)' <= RoundTripsLeft(h)
<1> USE RetriesAssumption DEF TypeOK
<1>1. RoundTripsLeft(h) \in Nat
  <2>1. hd[h].pc \in Labels /\ hd[h].tries \in 0 .. Retries - 1
    OBVIOUS
  <2> QED
    BY <2>1 DEF RoundTripsLeft, Labels
<1>2. CASE hd'[h].pc = "idle"
  <2>1. RoundTripsLeft(h)' = 0
    BY <1>2 DEF RoundTripsLeft
  <2> QED
    BY <1>1, <2>1
<1>3. CASE hd'[h].pc = hd[h].pc /\ hd'[h].tries = hd[h].tries
  <2>1. RoundTripsLeft(h)' = RoundTripsLeft(h)
    BY <1>3 DEF RoundTripsLeft
  <2> QED
    BY <1>1, <2>1
<1>4. ASSUME NEW g \in Slots, g # h, Step(g) \/ MayFail(g)
      PROVE  hd'[h].pc = "idle" \/ hd'[h] = hd[h]
  <2>1. CASE Crash
    BY <2>1 DEF Crash, Idle
  <2>2. CASE \E code : Done(g, code)
    BY <1>4, <2>2 DEF Done
  <2>3. CASE (\E label : Goto(g, label)) \/ PollAgain(g)
    BY <1>4, <2>3 DEF Goto, PollAgain
  <2>4. MayFail(g) => \E code : Done(g, code)
    BY DEF MayFail, CallFails
  <2> QED
    BY <1>4, <2>1, <2>2, <2>3, <2>4, StepMoves
<1>5. ASSUME NEW g \in Slots, NEW op, NEW n, Start(g, op, n)
      PROVE  hd'[h] = hd[h]
  BY <1>5 DEF Start
<1>6. ASSUME NEW g \in Slots, GiveUp(g)
      PROVE  hd'[h].pc = hd[h].pc /\ hd'[h].tries = hd[h].tries
  BY <1>6 DEF GiveUp
<1>7. CASE Restart
  BY <1>2, <1>3, <1>7 DEF Restart, Crash, Idle
<1>8. ASSUME NEW g \in Slots, GoesLate(g) \/ ComesLate(g)
      PROVE  RoundTripsLeft(h)' <= RoundTripsLeft(h)
  <2>1. CASE hd'[h].pc = "late"
    <3>1. RoundTripsLeft(h)' = 0
      BY <2>1 DEF RoundTripsLeft
    <3> QED
      BY <1>1, <3>1
  <2> QED
    BY <1>2, <1>3, <1>8, <2>1 DEF GoesLate, ComesLate, Idle
<1> QED
  BY <1>2, <1>3, <1>4, <1>5, <1>6, <1>7, <1>8
     DEF Next, vars, CallPublish, CallUnpublish, CallUnpublishAll, CallExpand,
         CreateVA, DeleteVA, Api, ApiAttachFails, DeleteVolume, Slots

\* A handler makes at most Retries + 3 round trips, abandoned or not, whatever the
\* API answers and whatever others do meanwhile: with the fairness that a handler
\* goes on, this is why every handler returns (waitForVolumeStatus,
\* controller_server.go:256-270).
THEOREM HandlersRunOut == Spec => RoundTripsBounded
<1>1. ASSUME TypeOK, TypeOK', PollInv, [Next]_vars
      PROVE  [\A h \in Slots :
                 /\ Step(h) \/ MayFail(h) => RoundTripsLeft(h)' < RoundTripsLeft(h)
                 /\ RoundTripsLeft(h)' > RoundTripsLeft(h) =>
                        hd[h].pc = "idle" /\ hd'[h].pc = "get"]_vars
  <2> SUFFICES ASSUME NEW h \in Slots
               PROVE  /\ Step(h) \/ MayFail(h) => RoundTripsLeft(h)' < RoundTripsLeft(h)
                      /\ RoundTripsLeft(h)' > RoundTripsLeft(h) =>
                             hd[h].pc = "idle" /\ hd'[h].pc = "get"
    OBVIOUS
  <2>1. RoundTripsLeft(h) \in Int /\ RoundTripsLeft(h)' \in Int
    <3>1. hd[h].pc \in Labels /\ hd[h].tries \in 0 .. Retries - 1
      BY <1>1 DEF TypeOK
    <3>2. hd'[h].pc \in Labels /\ hd'[h].tries \in 0 .. Retries - 1
      BY <1>1 DEF TypeOK
    <3>3. RoundTripsLeft(h) \in Int
      BY <3>1, RetriesAssumption DEF RoundTripsLeft, Labels
    <3>4. RoundTripsLeft(h)' \in Int
      BY <3>2, RetriesAssumption DEF RoundTripsLeft, Labels
    <3> QED
      BY <3>3, <3>4
  <2>2. Step(h) \/ MayFail(h) => RoundTripsLeft(h)' < RoundTripsLeft(h)
    BY <1>1, StepUsesOne
  <2>3. RoundTripsLeft(h)' > RoundTripsLeft(h) =>
            hd[h].pc = "idle" /\ hd'[h].pc = "get"
    BY <1>1, <2>1, <2>2, OthersKeepThem
  <2> QED
    BY <2>2, <2>3
<1>2. Init => PollInv
  BY DEF Init, PollInv, Idle
<1> QED
  BY <1>1, <1>2, TypeInit, TypeNext, PollNext, PTL DEF Spec, RoundTripsBounded
===========================================================================
