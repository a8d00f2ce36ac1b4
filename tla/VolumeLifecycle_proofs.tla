----------------------- MODULE VolumeLifecycle_proofs -----------------------
(***************************************************************************)
(* Proofs about VolumeLifecycle.                                           *)
(***************************************************************************)
EXTENDS VolumeLifecycle, TLAPS

---------------------------------------------------------------------------
(* The inductive invariants.                                               *)

\* The volume is with the node that is confirmed to have it, and only one node
\* deals with it.
AttachInv ==
    /\ \A n \in Nodes : want[n] = "attached" => holder = n
    /\ \A n \in Nodes : holder = n => want[n] # "none"
    /\ \A m, n \in Nodes : want[m] # "none" /\ want[n] # "none" => m = n

\* A kubelet that has begun with the volume, or waits for a call, keeps it.
KubeletInv ==
    \A n \in Nodes : kubelet[n] # Nothing \/ Waiting(n) => want[n] = "attached"

\* Handlers run in plugins that serve, and a kubelet waits for one at a time.
HandlerInv ==
    /\ \A h \in Slots : hd[h].pc = "idle" => hd[h] = Idle
    /\ \A h \in Slots : hd[h].pc # "idle" => proc[NodeOf[h]].pc = "serving"
    /\ \A g, h \in Slots : /\ NodeOf[g] = NodeOf[h]
                           /\ hd[g].awaited /\ hd[h].awaited
                           => g = h

\* An expansion that is about to be answered as done is done.
SizeInv ==
    /\ claim.status <= claim.spec /\ claim.spec <= size
    /\ disk.fs # 0 => disk.fs >= claim.status
    /\ \A h \in Slots : hd[h].op = "expand" /\ hd[h].awaited /\ hd[h].pc = "reply"
                        => disk.fs = size

\* Nothing but a start with both of its pointers gets as far as Run.
PluginInv ==
    \A n \in Nodes : proc[n].pc \in {"listening", "serving"}
                     => proc[n].driver /\ proc[n].cluster

CommonInv == TypeOK /\ AttachInv /\ KubeletInv /\ HandlerInv /\ SizeInv /\ PluginInv

Labels == {"begin", "blkid", "mkfs", "findmnt", "mount", "bind",
           "umount", "removeall", "rmdir", "resize2fs", "reply"}

\* A handler of node n does op; it has come to its answer.
Busy(n, op) == \E h \in Slots : NodeOf[h] = n /\ hd[h].op = op
Answering(n, op) == \E h \in Slots : NodeOf[h] = n /\ hd[h].op = op /\ hd[h].pc = "reply"

\* With kubelets that wait: the mounts of a node are those that its kubelet knows
\* of or is about to be told of, and a pod runs only between a publish and an unpublish.
MountInv(n) ==
    /\ staged[n] => kubelet[n].staged # "no" \/ Answering(n, "stage")
    /\ target[n] # << >> => kubelet[n].published # "no" \/ Answering(n, "publish")
    /\ kubelet[n].published # "no" => kubelet[n].staged = "yes"
    /\ target[n] \in {<< >>, <<"volume">>, <<"node">>}
    /\ staged[n] \/ target[n] = <<"volume">> => disk.fs # 0
    /\ running[n] => wanted[n] /\ kubelet[n].published = "yes" /\ ~Busy(n, "unpublish")

\* What a handler may rely on at each of its commands.
CallInv(h) ==
    LET n == NodeOf[h] IN
    /\ hd[h].pc # "idle" => hd[h].awaited /\ hd[h].op # "none"
    /\ hd[h].op = "stage" =>
        /\ kubelet[n].staged # "yes"
        /\ hd[h].pc = "mkfs" => disk.fs = 0 \/ BlkidUnsure
    /\ hd[h].op = "unstage" =>
        /\ kubelet[n].published = "no" /\ kubelet[n].staged # "no"
        /\ hd[h].pc = "reply" => ~staged[n]
    /\ hd[h].op = "publish" =>
        /\ kubelet[n].staged = "yes" /\ kubelet[n].published # "yes"
        /\ hd[h].pc = "bind" => target[n] = << >>
    /\ hd[h].op = "unpublish" =>
        /\ kubelet[n].published # "no"
        /\ hd[h].pc \in {"removeall", "rmdir", "reply"} => target[n] = << >>
    /\ hd[h].op = "expand" => kubelet[n].staged = "yes"

DataInv == disk.data => disk.fs # 0

SerialInv ==
    /\ DataInv
    /\ \A n \in Nodes : MountInv(n)
    /\ \A h \in Slots : CallInv(h)

\* With tools that work, too: what was answered as done is done.
DoneInv(n) ==
    /\ target[n] # <<"node">>
    /\ kubelet[n].staged = "yes" =>
        staged[n] \/ Answering(n, "unstage")
    /\ kubelet[n].published = "yes" =>
        target[n] # << >> \/ \E h \in Slots : /\ NodeOf[h] = n
                                               /\ hd[h].op = "unpublish"
                                               /\ hd[h].pc \in {"rmdir", "reply"}

WorkInv(h) ==
    LET n == NodeOf[h] IN
    /\ hd[h].op = "stage" /\ hd[h].pc \in {"findmnt", "mount"} => disk.fs # 0
    /\ hd[h].op = "stage" /\ hd[h].pc = "reply" => staged[n]
    /\ hd[h].op = "publish" /\ hd[h].pc = "reply" => target[n] # << >>

ToolsInv ==
    /\ \A n \in Nodes : DoneInv(n)
    /\ \A h \in Slots : WorkInv(h)

---------------------------------------------------------------------------
(* Lemmas about the operators.                                             *)

USE DEF vars, attachment, process, pods, node, mounts, told

\* What the mounts of a path become.
LEMMA MountStack ==
    ASSUME NEW S, NEW s \in Seq(S), NEW e \in S
    PROVE  /\ Append(s, e) \in Seq(S)
           /\ s # << >> => SubSeq(s, 1, Len(s) - 1) \in Seq(S)
           /\ Len(s) \in Nat
           /\ s = << >> <=> Len(s) = 0
           /\ s # << >> => s[Len(s)] \in S
OBVIOUS

\* One mount is pushed on an empty path, and popped from a path with one.
LEMMA OneMount ==
    ASSUME NEW S, NEW s \in Seq(S), NEW e \in S, Len(s) <= 1
    PROVE  /\ s = << >> => /\ Append(s, e) = <<e>>
                          /\ Len(Append(s, e)) = 1
           /\ s # << >> => SubSeq(s, 1, Len(s) - 1) = << >>
<1>1. s = << >> => Append(s, e) = <<e>> /\ Len(Append(s, e)) = 1
  OBVIOUS
<1>2. ASSUME s # << >> PROVE SubSeq(s, 1, Len(s) - 1) = << >>
  <2>1. Len(s) = 1
    <3>1. Len(s) \in Nat /\ Len(s) # 0
      BY <1>2, MountStack
    <3> QED
      BY <3>1
  <2>2. SubSeq(s, 1, 0) \in Seq(S) /\ Len(SubSeq(s, 1, 0)) = 0
    OBVIOUS
  <2>3. SubSeq(s, 1, 0) = << >>
    BY <2>2
  <2> QED
    BY <2>1, <2>3
<1> QED
  BY <1>1, <1>2

LEMMA SlotNode == ASSUME NEW h \in Slots PROVE NodeOf[h] \in Nodes
BY NodesAssumption

---------------------------------------------------------------------------
(* Types.                                                                  *)

LEMMA TypeInit == Init => TypeOK
BY SizesAssumption, FaultsAssumption, NodesAssumption
DEF Init, NodeInit, TypeOK, NodeTypeOK, Idle, Nothing, Attachment!Init, Plugin!Init,
    Plugin!TypeInvariant, Plugin!Starting

Ops == {"stage", "unstage", "publish", "unpublish", "expand"}

Handlers ==
    [op : {"none", "stage", "unstage", "publish", "unpublish", "expand"},
     pc : Labels \cup {"idle"}, awaited : BOOLEAN]
Beliefs == [staged : {"no", "maybe", "yes"}, published : {"no", "maybe", "yes"}]

LEMMA AnswerTypes ==
    ASSUME NodeTypeOK, NEW h \in Slots, NEW answer \in {"no", "maybe", "yes"}
    PROVE  /\ Believes(h, answer) \in [Nodes -> Beliefs]
           /\ Expanded(h) \in [spec : Sizes, status : Sizes]
<1>1. NodeOf[h] \in Nodes /\ kubelet \in [Nodes -> Beliefs]
  BY SlotNode DEF NodeTypeOK, Beliefs
<1>2. Believes(h, answer) \in [Nodes -> Beliefs]
  BY <1>1 DEF Believes, Beliefs
<1>3. Expanded(h) \in [spec : Sizes, status : Sizes]
  BY DEF NodeTypeOK, Expanded
<1> QED
  BY <1>2, <1>3

LEMMA IdleTypes == Idle \in Handlers
BY DEF Idle, Handlers

\* A handler goes on, fails or answers.
LEMMA NodeMoves ==
    ASSUME NEW h \in Slots, NodeStep(h)
    PROVE  \/ \E label \in Labels : Goto(h, label)
           \/ Error(h)
           \/ Reply(h)
<1> USE DEF Labels, LookFails
<1>1. CASE StagePath(h) \/ StageBlkid(h) \/ StageMkfs(h) \/ StageFindmnt(h) \/ StageMount(h)
  BY <1>1 DEF StagePath, StageBlkid, StageMkfs, StageFindmnt, StageMount, StageReply, OK
<1>2. CASE UnstageFindmnt(h) \/ UnstageUmount(h)
  BY <1>2 DEF UnstageFindmnt, UnstageUmount, OK
<1>3. CASE PublishMkdir(h) \/ PublishFindmnt(h) \/ PublishBind(h)
  BY <1>3 DEF PublishMkdir, PublishFindmnt, PublishBind, OK
<1>4. CASE UnpublishFindmnt(h) \/ UnpublishRemoveAll(h) \/ UnpublishUmount(h) \/ UnpublishRmdir(h)
  BY <1>4 DEF UnpublishFindmnt, UnpublishRemoveAll, UnpublishUmount, UnpublishRmdir, Remove, OK
<1>5. CASE ExpandGet(h) \/ ExpandBlkid(h) \/ ExpandResize(h)
  BY <1>5 DEF ExpandGet, ExpandBlkid, ExpandResize, ResizeError, OK
<1> QED
  BY <1>1, <1>2, <1>3, <1>4, <1>5 DEF NodeStep

\* What a command may change on its node.
LEMMA NodeEffects ==
    ASSUME NEW h \in Slots, NodeStep(h)
    PROVE  LET n == NodeOf[h] IN
           /\ \/ staged' = staged
              \/ \E b \in BOOLEAN : staged' = [staged EXCEPT ![n] = b]
           /\ \/ dir' = dir
              \/ \E b \in BOOLEAN : dir' = [dir EXCEPT ![n] = b]
           /\ \/ target' = target
              \/ \E e \in {"volume", "node"} : target' = [target EXCEPT ![n] = Append(@, e)]
              \/ target[n] # << >> /\ target' = [target EXCEPT ![n] = SubSeq(@, 1, Len(@) - 1)]
           /\ \/ disk' = disk
              \/ disk' = [fs |-> size, data |-> FALSE]
              \/ disk' = [disk EXCEPT !.data = FALSE]
              \/ disk' = [disk EXCEPT !.fs = size]
           /\ faults' = faults \/ Fault
<1> USE DEF LookFails
<1>1. CASE StagePath(h) \/ StageBlkid(h) \/ StageMkfs(h) \/ StageFindmnt(h) \/ StageMount(h)
  BY <1>1 DEF StagePath, StageBlkid, StageMkfs, StageFindmnt, StageMount
<1>2. CASE UnstageFindmnt(h) \/ UnstageUmount(h)
  BY <1>2 DEF UnstageFindmnt, UnstageUmount
<1>3. CASE PublishMkdir(h) \/ PublishFindmnt(h) \/ PublishBind(h)
  BY <1>3 DEF PublishMkdir, PublishFindmnt, PublishBind, BindSource
<1>4. CASE UnpublishFindmnt(h) \/ UnpublishRemoveAll(h) \/ UnpublishUmount(h) \/ UnpublishRmdir(h)
  BY <1>4 DEF UnpublishFindmnt, UnpublishRemoveAll, UnpublishUmount, UnpublishRmdir, Remove, Mounted
<1>5. CASE ExpandGet(h) \/ ExpandBlkid(h) \/ ExpandResize(h) \/ Reply(h)
  BY <1>5 DEF ExpandGet, ExpandBlkid, ExpandResize, Reply
<1> QED
  BY <1>1, <1>2, <1>3, <1>4, <1>5 DEF NodeStep

LEMMA FaultTypes == ASSUME NodeTypeOK, Fault PROVE faults' \in 0 .. MaxFaults
BY FaultsAssumption DEF NodeTypeOK, Fault

LEMMA NodeStepTypes ==
    ASSUME NodeTypeOK, NEW h \in Slots, NodeStep(h), UNCHANGED <<holder, size>>
    PROVE  NodeTypeOK'
<1> DEFINE n == NodeOf[h]
<1>0. n \in Nodes
  BY SlotNode
<1>1. hd' \in [Slots -> Handlers]
  <2>1. hd \in [Slots -> Handlers] /\ Idle \in Handlers
    BY IdleTypes DEF NodeTypeOK, Handlers, Labels
  <2>2. ASSUME NEW label \in Labels PROVE [hd[h] EXCEPT !.pc = label] \in Handlers
    BY <2>1 DEF Handlers
  <2>3. ASSUME NEW label \in Labels, Goto(h, label) PROVE hd' \in [Slots -> Handlers]
    BY <2>1, <2>2, <2>3 DEF Goto
  <2> QED
    BY <2>1, <2>3, NodeMoves DEF Error, Reply
<1>2. kubelet' \in [Nodes -> Beliefs] /\ claim' \in [spec : Sizes, status : Sizes]
  <2>1. CASE Reply(h)
    BY <2>1, AnswerTypes DEF Reply
  <2>2. CASE ~Reply(h)
    BY <2>2, NodeMoves DEF Goto, Error, NodeTypeOK, Beliefs
  <2> QED
    BY <2>1, <2>2
<1>3. staged' \in [Nodes -> BOOLEAN]
  BY <1>0, NodeEffects DEF NodeTypeOK
<1>4. dir' \in [Nodes -> BOOLEAN]
  BY <1>0, NodeEffects DEF NodeTypeOK
<1>5. target' \in [Nodes -> Seq({"volume", "node"})]
  <2>1. target[n] \in Seq({"volume", "node"})
    BY <1>0 DEF NodeTypeOK
  <2>2. ASSUME NEW e \in {"volume", "node"}
        PROVE  Append(target[n], e) \in Seq({"volume", "node"})
    BY <2>1, MountStack
  <2>3. target[n] # << >> => SubSeq(target[n], 1, Len(target[n]) - 1) \in Seq({"volume", "node"})
    <3>1. "node" \in {"volume", "node"}
      OBVIOUS
    <3> QED
      BY <2>1, <3>1, MountStack
  <2>4. CASE target' = target
    BY <2>4 DEF NodeTypeOK
  <2>5. ASSUME NEW e \in {"volume", "node"}, target' = [target EXCEPT ![n] = Append(@, e)]
        PROVE  target' \in [Nodes -> Seq({"volume", "node"})]
    BY <1>0, <2>2, <2>5 DEF NodeTypeOK
  <2>6. ASSUME target[n] # << >>, target' = [target EXCEPT ![n] = SubSeq(@, 1, Len(@) - 1)]
        PROVE  target' \in [Nodes -> Seq({"volume", "node"})]
    BY <1>0, <2>3, <2>6 DEF NodeTypeOK
  <2> QED
    BY <2>4, <2>5, <2>6, NodeEffects
<1>6. disk' \in [fs : Sizes \cup {0}, data : BOOLEAN]
  <2>1. size \in Sizes /\ disk \in [fs : Sizes \cup {0}, data : BOOLEAN]
    BY DEF NodeTypeOK
  <2>2. [fs |-> size, data |-> FALSE] \in [fs : Sizes \cup {0}, data : BOOLEAN]
    BY <2>1
  <2>3. [disk EXCEPT !.data = FALSE] \in [fs : Sizes \cup {0}, data : BOOLEAN]
    BY <2>1
  <2>4. [disk EXCEPT !.fs = size] \in [fs : Sizes \cup {0}, data : BOOLEAN]
    BY <2>1
  <2> QED
    BY <2>1, <2>2, <2>3, <2>4, NodeEffects
<1>7. faults' \in 0 .. MaxFaults
  BY NodeEffects, FaultTypes DEF NodeTypeOK
<1> QED
  BY <1>1, <1>2, <1>3, <1>4, <1>5, <1>6, <1>7 DEF NodeTypeOK, Handlers, Beliefs, Labels

\* A call that is cut off leaves the kubelet uncertain.
LEMMA KilledCall ==
    ASSUME NEW n \in Nodes, PluginKilled(n)
    PROVE  \/ ~Waiting(n) /\ kubelet' = kubelet
           \/ \E h \in Slots : /\ NodeOf[h] = n /\ hd[h].awaited
                              /\ kubelet' = Believes(h, "maybe")
<1>1. CASE Waiting(n)
  <2> DEFINE h == CHOOSE g \in HandlersOf(n) : hd[g].awaited
  <2>1. h \in HandlersOf(n) /\ hd[h].awaited
    BY <1>1 DEF Waiting, HandlersOf
  <2>2. kubelet' = Believes(h, "maybe")
    BY <1>1 DEF PluginKilled
  <2> QED
    BY <2>1, <2>2 DEF HandlersOf
<1> QED
  BY <1>1 DEF PluginKilled

LEMMA CallTypes ==
    ASSUME TypeOK, NEW h \in Slots, Calls(h)
    PROVE  TypeOK'
<1> USE DEF Ops
<1>1. PICK op \in Ops : Call(h, op)
  BY DEF Calls, CallStage, CallPublish, CallExpand, CallUnpublish, CallUnstage
<1>2. [op |-> op, pc |-> "begin", awaited |-> TRUE] \in Handlers
  BY DEF Handlers, Labels
<1>3. hd' \in [Slots -> Handlers]
  BY <1>1, <1>2 DEF Call, TypeOK, NodeTypeOK, Handlers, Labels
<1> QED
  BY <1>1, <1>3 DEF Call, TypeOK, NodeTypeOK, Handlers, Labels, Plugin!TypeInvariant

\* A process that comes to listen has both of its pointers.
LEMMA ListeningShown ==
    ASSUME Plugin!TypeInvariant, NEW n \in Nodes, Plugin!RemoveAndListen(n, TRUE, TRUE)
    PROVE  /\ \A m \in Nodes : m # n => proc'[m] = proc[m]
           /\ proc'[n].pc = "listening" /\ proc'[n].driver /\ proc'[n].cluster
           /\ Plugin!TypeInvariant'
<1> DEFINE Process == [pc : {"starting", "failed", "listening", "serving"},
                       driver : BOOLEAN, cluster : BOOLEAN,
                       ctx : {"live", "cancelled"}, stopped : BOOLEAN]
           next == [proc[n] EXCEPT !.pc = "listening", !.driver = TRUE, !.cluster = TRUE]
<1>1. proc \in [Nodes -> Process] /\ socket \in [Nodes -> BOOLEAN]
  BY DEF Plugin!TypeInvariant
<1>2. next \in Process /\ next.pc = "listening" /\ next.driver /\ next.cluster
  <2>1. proc[n] \in Process
    BY <1>1
  <2> QED
    BY <2>1
<1>3. proc' = [proc EXCEPT ![n] = next] /\ socket' = [socket EXCEPT ![n] = TRUE]
  BY <1>1 DEF Plugin!RemoveAndListen, Plugin!Listening
<1> HIDE DEF Process, next
<1>4. proc'[n] = next /\ \A m \in Nodes : m # n => proc'[m] = proc[m]
  BY <1>1, <1>3
<1>5. proc' \in [Nodes -> Process] /\ socket' \in [Nodes -> BOOLEAN]
  BY <1>1, <1>2, <1>3
<1>6. Plugin!TypeInvariant'
  BY <1>5 DEF Plugin!TypeInvariant, Process
<1> QED
  BY <1>2, <1>4, <1>6

\* What a start does to the process, whether it goes well or not.
LEMMA StartShown ==
    ASSUME Plugin!TypeInvariant, NEW n \in Nodes,
           Plugin!Start(n) \/ Plugin!FailedStart(n) \/ Plugin!StartFails(n)
    PROVE  /\ proc[n].pc \in {"starting", "failed"}
           /\ \A m \in Nodes : m # n => proc'[m] = proc[m]
           /\ proc'[n].pc # "serving"
           /\ proc'[n].pc = "listening" => proc'[n].driver /\ proc'[n].cluster
           /\ Plugin!TypeInvariant'
<1> USE DEF Plugin!TypeInvariant, Plugin!Ends, Plugin!Starting, Plugin!At
<1>1. CASE Plugin!Start(n)
  <2>1. proc[n].pc = "starting" /\ Plugin!RemoveAndListen(n, TRUE, TRUE)
    BY <1>1 DEF Plugin!Start
  <2> QED
    BY <2>1, ListeningShown
<1>2. CASE Plugin!FailedStart(n) /\ ~Plugin!VolumeTypeRead(n)
  <2>1. proc[n].pc = "failed" /\ Plugin!Ends(n) /\ socket' = socket
    BY <1>2 DEF Plugin!FailedStart
  <2> QED
    BY <2>1
<1>3. CASE Plugin!FailedStart(n) /\ Plugin!VolumeTypeRead(n)
  <2>1. proc[n].driver = TRUE /\ proc[n].cluster = TRUE
    BY <1>3 DEF Plugin!VolumeTypeRead
  <2>2. proc[n].pc = "failed" /\ Plugin!RemoveAndListen(n, TRUE, TRUE)
    BY <1>3, <2>1 DEF Plugin!FailedStart
  <2> QED
    BY <2>2, ListeningShown
<1>4. CASE Plugin!RunFails(n)
  BY <1>4 DEF Plugin!RunFails
<1>5. ASSUME NEW d \in BOOLEAN, Plugin!GoesOnWithout(n, d)
      PROVE  /\ proc[n].pc = "starting"
             /\ \A m \in Nodes : m # n => proc'[m] = proc[m]
             /\ proc'[n].pc = "failed"
             /\ Plugin!TypeInvariant'
  BY <1>5 DEF Plugin!GoesOnWithout
<1> QED
  BY <1>1, <1>2, <1>3, <1>4, <1>5 DEF Plugin!StartFails

\* What a step of a plugin's process, or its end, does to it.
LEMMA PluginTypes ==
    ASSUME Plugin!TypeInvariant, NEW n \in Nodes,
           \/ Plugin!Step(n) \/ Plugin!StartFails(n)
           \/ Plugin!Signal(n) \/ Plugin!Kill(n)
    PROVE  Plugin!TypeInvariant'
<1> USE DEF Plugin!TypeInvariant, Plugin!Ends, Plugin!Starting
<1>1. CASE Plugin!Start(n) \/ Plugin!FailedStart(n) \/ Plugin!StartFails(n)
  BY <1>1, StartShown
<1>2. CASE Plugin!Serve(n)
  BY <1>2 DEF Plugin!Serve
<1>3. CASE Plugin!GracefulStop(n)
  <2>1. (socket[n] /\ ~Plugin!At(n, "serving")) \in BOOLEAN
    BY DEF Plugin!At
  <2> QED
    BY <1>3, <2>1 DEF Plugin!GracefulStop
<1>4. CASE Plugin!Exit(n)
  BY <1>4 DEF Plugin!Exit
<1>6. CASE Plugin!Kill(n)
  BY <1>6 DEF Plugin!Kill
<1>7. CASE Plugin!Signal(n)
  BY <1>7 DEF Plugin!Signal
<1> QED
  BY <1>1, <1>2, <1>3, <1>4, <1>6, <1>7 DEF Plugin!Step

LEMMA TypeNext == TypeOK /\ [Next]_vars => TypeOK'
<1> SUFFICES ASSUME TypeOK, [Next]_vars PROVE TypeOK'
  OBVIOUS
<1> USE DEF TypeOK
<1>1. ASSUME NEW h \in Slots, Step(h) PROVE TypeOK'
  BY <1>1, NodeStepTypes DEF Step, Plugin!TypeInvariant
<1>2. ASSUME NEW h \in Slots, Calls(h) PROVE TypeOK'
  BY <1>2, CallTypes
<1>3. ASSUME NEW h \in Slots, GiveUp(h) PROVE TypeOK'
  <2>1. hd' \in [Slots -> Handlers]
    <3>1. hd \in [Slots -> Handlers]
      BY DEF NodeTypeOK, Handlers, Labels
    <3>2. [hd[h] EXCEPT !.awaited = FALSE] \in Handlers
      BY <3>1 DEF Handlers
    <3> QED
      BY <1>3, <3>1, <3>2 DEF GiveUp
  <2>2. kubelet' \in [Nodes -> Beliefs]
    BY <1>3, AnswerTypes DEF GiveUp
  <2> QED
    BY <1>3, <2>1, <2>2, FaultTypes
       DEF GiveUp, NodeTypeOK, Handlers, Labels, Beliefs, Plugin!TypeInvariant
<1>4. ASSUME NEW n \in Nodes, PluginStep(n) \/ PluginFails(n) PROVE TypeOK'
  <2>1. Plugin!TypeInvariant'
    BY <1>4, PluginTypes DEF PluginStep, PluginFails
  <2> QED
    BY <1>4, <2>1, FaultTypes DEF PluginStep, PluginFails, NodeTypeOK
<1>5. ASSUME NEW n \in Nodes, PluginKilled(n) PROVE TypeOK'
  <2>1. Plugin!TypeInvariant'
    BY <1>5, PluginTypes DEF PluginKilled
  <2>2. hd' \in [Slots -> Handlers]
    BY <1>5, IdleTypes DEF PluginKilled, HandlersDie, NodeTypeOK, Handlers, Labels
  <2>3. kubelet' \in [Nodes -> Beliefs]
    BY <1>5, KilledCall, AnswerTypes DEF NodeTypeOK, Beliefs
  <2> QED
    BY <1>5, <2>1, <2>2, <2>3, FaultTypes
       DEF PluginKilled, NodeTypeOK, Handlers, Labels, Beliefs
<1>6. ASSUME NEW n \in Nodes, Reboot(n) PROVE TypeOK'
  <2>1. Plugin!TypeInvariant'
    BY <1>6, PluginTypes DEF Reboot
  <2>2. hd' \in [Slots -> Handlers]
    BY <1>6, IdleTypes DEF Reboot, HandlersDie, NodeTypeOK, Handlers, Labels
  <2>3. kubelet' \in [Nodes -> Beliefs]
    BY <1>6 DEF Reboot, Nothing, NodeTypeOK, Beliefs
  <2>4. /\ staged' \in [Nodes -> BOOLEAN] /\ running' \in [Nodes -> BOOLEAN]
        /\ target' \in [Nodes -> Seq({"volume", "node"})]
    BY <1>6 DEF Reboot, NodeTypeOK
  <2> QED
    BY <1>6, <2>1, <2>2, <2>3, <2>4, FaultTypes
       DEF Reboot, NodeTypeOK, Handlers, Labels, Beliefs
<1>7. ASSUME NEW n \in Nodes, Schedule(n) \/ Unschedule(n) \/ StartPod(n) PROVE TypeOK'
  <2>1. wanted' \in [Nodes -> BOOLEAN] /\ running' \in [Nodes -> BOOLEAN]
    BY <1>7 DEF Schedule, Unschedule, StartPod
  <2>2. UNCHANGED <<attachment, process, node, faults>>
    BY <1>7 DEF Schedule, Unschedule, StartPod
  <2> QED
    BY <2>1, <2>2 DEF NodeTypeOK, Plugin!TypeInvariant
<1>8. ASSUME NEW n \in Nodes, PodWrites(n) PROVE TypeOK'
  BY <1>8 DEF PodWrites, NodeTypeOK, Plugin!TypeInvariant
<1>9. ASSUME NEW n \in Nodes, AttachStep(n) \/ ConfirmReleased(n) PROVE TypeOK'
  <2>1. /\ want' \in [Nodes -> {"none", "attach", "attached", "detach"}]
        /\ holder' \in Nodes \cup {None} /\ size' = size
    BY <1>9 DEF AttachStep, ConfirmReleased, Ask, AskBack, NodeTypeOK,
       Attachment!Ask, Attachment!AskBack, Attachment!Attach, Attachment!ConfirmAttached,
       Attachment!Detach, Attachment!ConfirmReleased
  <2>2. UNCHANGED <<process, pods, node, faults>>
    BY <1>9 DEF AttachStep, ConfirmReleased
  <2> QED
    BY <2>1, <2>2 DEF NodeTypeOK, Plugin!TypeInvariant
<1>10. CASE Grow
  BY <1>10 DEF Grow, Attachment!Grow, NodeTypeOK, Plugin!TypeInvariant
<1>11. CASE NodeExpansionRequired
  BY <1>11 DEF NodeExpansionRequired, NodeTypeOK, Plugin!TypeInvariant
<1>12. CASE UNCHANGED vars
  BY <1>12 DEF NodeTypeOK, Plugin!TypeInvariant
<1> QED
  BY <1>1, <1>2, <1>3, <1>4, <1>5, <1>6, <1>7, <1>8, <1>9, <1>10, <1>11, <1>12 DEF Next

\* Every reachable state is well typed; in particular a path has nothing but
\* the volume or the node's own disk mounted on it.
THEOREM TypeCorrect == Spec => []TypeOK
BY TypeInit, TypeNext, PTL DEF Spec
---------------------------------------------------------------------------
(* What holds for every kubelet, patient or not.                           *)

\* Who changes what is known of the attachment.
LEMMA AttachmentFrame ==
    ASSUME [Next]_vars
    PROVE  \/ UNCHANGED attachment
           \/ \E n \in Nodes : AttachStep(n) \/ ConfirmReleased(n)
           \/ Grow
BY DEF Next, Step, Calls, CallStage, CallPublish, CallExpand, CallUnpublish, CallUnstage,
       Call, GiveUp, PluginStep, PluginFails, PluginKilled, Reboot, Schedule, Unschedule,
       StartPod, PodWrites, NodeExpansionRequired

LEMMA AttachNext == TypeOK /\ AttachInv /\ [Next]_vars => AttachInv'
<1> SUFFICES ASSUME TypeOK, AttachInv, [Next]_vars PROVE AttachInv'
  OBVIOUS
<1> USE NodesAssumption DEF AttachInv, TypeOK, NodeTypeOK
<1>1. CASE UNCHANGED attachment
  BY <1>1
<1>2. CASE Grow
  BY <1>2 DEF Grow, Attachment!Grow
<1>3. ASSUME NEW n \in Nodes, AttachStep(n) \/ ConfirmReleased(n) PROVE AttachInv'
  <2>1. CASE Ask(n)
    BY <2>1 DEF Ask, Attachment!Ask
  <2>2. CASE AskBack(n)
    BY <2>2 DEF AskBack, Attachment!AskBack
  <2>3. CASE Attachment!Attach(n)
    BY <2>3 DEF Attachment!Attach
  <2>4. CASE Attachment!ConfirmAttached(n)
    BY <2>4 DEF Attachment!ConfirmAttached
  <2>5. CASE Attachment!Detach(n)
    BY <2>5 DEF Attachment!Detach
  <2>6. CASE ConfirmReleased(n)
    BY <2>6 DEF ConfirmReleased, Attachment!ConfirmReleased
  <2> QED
    BY <1>3, <2>1, <2>2, <2>3, <2>4, <2>5, <2>6 DEF AttachStep
<1> QED
  BY <1>1, <1>2, <1>3, AttachmentFrame

\* A command of a handler concerns no other handler; afterwards it is at
\* another command of the same call, or has finished.
LEMMA HandlerMoves ==
    ASSUME NodeTypeOK, NEW h \in Slots, NodeStep(h)
    PROVE  /\ \A g \in Slots : g # h => hd'[g] = hd[g]
           /\ \/ hd'[h] = Idle
              \/ /\ hd'[h].op = hd[h].op /\ hd'[h].awaited = hd[h].awaited
                 /\ hd'[h].pc \in Labels
<1>1. CASE Error(h) \/ Reply(h)
  BY <1>1 DEF Error, Reply, NodeTypeOK
<1>2. ASSUME NEW label \in Labels, Goto(h, label)
      PROVE  /\ \A g \in Slots : g # h => hd'[g] = hd[g]
             /\ hd'[h].op = hd[h].op /\ hd'[h].awaited = hd[h].awaited
             /\ hd'[h].pc = label
  BY <1>2 DEF Goto, NodeTypeOK
<1> QED
  BY <1>1, <1>2, NodeMoves

\* A belief changes on the node of the call only, and only while it is awaited.
LEMMA BeliefOfTheCall ==
    ASSUME NodeTypeOK, NEW h \in Slots, NEW answer, NEW n \in Nodes,
           Believes(h, answer)[n] # kubelet[n]
    PROVE  n = NodeOf[h] /\ hd[h].awaited
BY SlotNode DEF Believes, NodeTypeOK

LEMMA KubeletNext == TypeOK /\ HandlerInv /\ KubeletInv /\ [Next]_vars => KubeletInv'
<1> SUFFICES ASSUME TypeOK, HandlerInv, KubeletInv, [Next]_vars, NEW m \in Nodes,
                    (kubelet[m] # Nothing \/ Waiting(m))'
             PROVE  want[m]' = "attached"
  BY DEF KubeletInv
<1> USE SlotNode
<1> HIDE DEF vars, attachment, process, pods, node, mounts, told
<1>0. kubelet[m] # Nothing \/ Waiting(m) => want[m] = "attached"
  BY DEF KubeletInv
<1>1. ASSUME NEW h \in Slots, Step(h) PROVE want[m]' = "attached"
  <2>1. want' = want
    BY <1>1 DEF Step, attachment
  <2>2. Waiting(m)' => Waiting(m)
    <3>1. \A g \in Slots : hd'[g].awaited => hd[g].awaited
      BY <1>1, HandlerMoves DEF Step, TypeOK, Idle
    <3> QED
      BY <3>1 DEF Waiting
  <2>3. kubelet'[m] # kubelet[m] => Waiting(m)
    BY <1>1, NodeMoves, BeliefOfTheCall
       DEF Step, TypeOK, Goto, Error, Reply, told, Waiting
  <2> QED
    BY <1>0, <2>1, <2>2, <2>3
<1>2. ASSUME NEW h \in Slots, Calls(h) PROVE want[m]' = "attached"
  <2>1. want' = want /\ kubelet' = kubelet
    BY <1>2 DEF Calls, CallStage, CallPublish, CallExpand, CallUnpublish, CallUnstage,
       Call, attachment, told
  <2>2. want[NodeOf[h]] = "attached"
    BY <1>2 DEF Calls, CallStage, CallPublish, CallExpand, CallUnpublish, CallUnstage,
       KubeletInv, Nothing
  <2>3. \A g \in Slots : g # h => hd'[g] = hd[g]
    BY <1>2 DEF Calls, CallStage, CallPublish, CallExpand, CallUnpublish, CallUnstage,
       Call, TypeOK, NodeTypeOK
  <2>4. Waiting(m)' => Waiting(m) \/ m = NodeOf[h]
    BY <2>3 DEF Waiting
  <2> QED
    BY <1>0, <2>1, <2>2, <2>4
<1>3. ASSUME NEW h \in Slots, GiveUp(h) PROVE want[m]' = "attached"
  <2>1. want' = want
    BY <1>3 DEF GiveUp, attachment
  <2>2. Waiting(m)' => Waiting(m)
    BY <1>3 DEF GiveUp, Waiting, TypeOK, NodeTypeOK
  <2>3. kubelet'[m] # kubelet[m] => Waiting(m)
    BY <1>3, BeliefOfTheCall DEF GiveUp, TypeOK, Waiting
  <2> QED
    BY <1>0, <2>1, <2>2, <2>3
<1>4. ASSUME NEW n \in Nodes, PluginKilled(n) \/ Reboot(n) PROVE want[m]' = "attached"
  <2>1. want' = want
    BY <1>4 DEF PluginKilled, Reboot, attachment
  <2>2. Waiting(m)' => Waiting(m)
    BY <1>4 DEF PluginKilled, Reboot, HandlersDie, Waiting, Idle, TypeOK, NodeTypeOK
  <2>3. kubelet'[m] = kubelet[m] \/ kubelet'[m] = Nothing \/ Waiting(m)
    <3>1. CASE PluginKilled(n)
      BY <3>1, KilledCall, BeliefOfTheCall DEF TypeOK, Waiting
    <3>2. CASE Reboot(n)
      BY <3>2 DEF Reboot, TypeOK, NodeTypeOK
    <3> QED
      BY <1>4, <3>1, <3>2
  <2> QED
    BY <1>0, <2>1, <2>2, <2>3
<1>5. ASSUME UNCHANGED <<hd, kubelet>>,
             UNCHANGED want \/ \E n \in Nodes : AttachStep(n) \/ ConfirmReleased(n)
      PROVE  want[m]' = "attached"
  <2>1. want[m] = "attached"
    BY <1>0, <1>5 DEF Waiting
  <2>2. ASSUME NEW n \in Nodes, AskBack(n) PROVE want[m]' = "attached"
    BY <1>5, <2>1, <2>2 DEF AskBack, Released, Waiting, Attachment!AskBack, TypeOK
  <2>3. ASSUME NEW n \in Nodes, \/ Ask(n) \/ Attachment!Attach(n)
                                \/ Attachment!ConfirmAttached(n) \/ Attachment!Detach(n)
                                \/ ConfirmReleased(n)
        PROVE  want[m]' = "attached"
    BY <2>1, <2>3 DEF Ask, Attachment!Ask, Attachment!Attach, Attachment!ConfirmAttached,
       Attachment!Detach, ConfirmReleased, Attachment!ConfirmReleased, TypeOK
  <2> QED
    BY <1>5, <2>1, <2>2, <2>3 DEF AttachStep
<1>6. CASE UNCHANGED vars
  BY <1>5, <1>6 DEF vars, attachment, node, told
<1>7. ASSUME NEW n \in Nodes,
             \/ PluginStep(n) \/ PluginFails(n) \/ Schedule(n) \/ Unschedule(n)
             \/ StartPod(n) \/ PodWrites(n) \/ AttachStep(n) \/ ConfirmReleased(n)
      PROVE  want[m]' = "attached"
  BY <1>5, <1>7 DEF PluginStep, PluginFails, Schedule, Unschedule, StartPod, PodWrites,
     AttachStep, ConfirmReleased, attachment, node, told
<1>8. CASE Grow \/ NodeExpansionRequired
  BY <1>5, <1>8 DEF Grow, Attachment!Grow, NodeExpansionRequired, attachment, node, told
<1> QED
  BY <1>1, <1>2, <1>3, <1>4, <1>6, <1>7, <1>8 DEF Next
LEMMA HandlerNext == TypeOK /\ HandlerInv /\ [Next]_vars => HandlerInv'
<1> SUFFICES ASSUME TypeOK, HandlerInv, [Next]_vars PROVE HandlerInv'
  OBVIOUS
<1> USE SlotNode
<1> HIDE DEF vars, attachment, process, pods, node, mounts, told
<1>0. ASSUME NEW h \in Slots, hd[h].awaited PROVE hd[h].pc # "idle"
  BY <1>0 DEF HandlerInv, Idle
<1>1. ASSUME NEW h \in Slots, Step(h) PROVE HandlerInv'
  <2>1. NodeStep(h) /\ proc' = proc
    BY <1>1 DEF Step, process
  <2>2. hd[h].pc # "idle"
    BY <2>1 DEF NodeStep, At, StagePath, StageBlkid, StageMkfs, StageFindmnt, StageMount,
       UnstageFindmnt, UnstageUmount, PublishMkdir, PublishFindmnt, PublishBind,
       UnpublishFindmnt, UnpublishRemoveAll, UnpublishUmount, UnpublishRmdir,
       ExpandGet, ExpandBlkid, ExpandResize, Reply
  <2> QED
    BY <2>1, <2>2, HandlerMoves DEF TypeOK, HandlerInv, Idle, Labels
<1>2. ASSUME NEW h \in Slots, Calls(h) PROVE HandlerInv'
  <2>1. PICK op \in Ops : Call(h, op)
    BY <1>2 DEF Ops, Calls, CallStage, CallPublish, CallExpand, CallUnpublish, CallUnstage
  <2>2. hd'[h] = [op |-> op, pc |-> "begin", awaited |-> TRUE]
    BY <2>1 DEF Call, TypeOK, NodeTypeOK
  <2>3. \A g \in Slots : g # h => hd'[g] = hd[g]
    BY <2>1 DEF Call, TypeOK, NodeTypeOK
  <2>4. proc' = proc /\ ~Waiting(NodeOf[h]) /\ proc[NodeOf[h]].pc = "serving"
    BY <2>1 DEF Call, process, Plugin!AcceptsCalls, Plugin!At
  <2> QED
    BY <2>2, <2>3, <2>4 DEF HandlerInv, Waiting
<1>3. ASSUME NEW h \in Slots, GiveUp(h) PROVE HandlerInv'
  <2>1. /\ \A g \in Slots : g # h => hd'[g] = hd[g]
        /\ hd'[h].pc = hd[h].pc /\ hd'[h].awaited = FALSE
        /\ hd[h].pc # "idle" /\ proc' = proc
    BY <1>0, <1>3 DEF GiveUp, TypeOK, NodeTypeOK, process
  <2> QED
    BY <2>1 DEF HandlerInv
<1>4. ASSUME NEW n \in Nodes, PluginKilled(n) \/ Reboot(n) PROVE HandlerInv'
  <2>1. /\ \A m \in Nodes : m # n => proc'[m] = proc[m]
        /\ \A h \in Slots : hd'[h] = IF NodeOf[h] = n THEN Idle ELSE hd[h]
    BY <1>4 DEF PluginKilled, Reboot, HandlersDie, Plugin!Kill, Plugin!Ends, TypeOK,
       Plugin!TypeInvariant
  <2> QED
    BY <2>1 DEF HandlerInv, Idle
<1>5. ASSUME NEW n \in Nodes, PluginStep(n) \/ PluginFails(n) PROVE HandlerInv'
  <2>1. hd' = hd
    BY <1>5 DEF PluginStep, PluginFails, node
  <2>2. \A m \in Nodes : proc[m].pc = "serving" /\ proc'[m].pc # "serving"
                         => \A h \in Slots : NodeOf[h] = m => hd[h].pc = "idle"
    <3> USE DEF Plugin!TypeInvariant, TypeOK, Plugin!At
    <3>1. CASE Plugin!Start(n) \/ Plugin!FailedStart(n) \/ Plugin!StartFails(n)
      BY <3>1, StartShown
    <3>2. CASE Plugin!Serve(n)
      BY <3>2 DEF Plugin!Serve
    <3>3. CASE Plugin!GracefulStop(n)
      BY <3>3 DEF Plugin!GracefulStop
    <3>4. CASE Plugin!Exit(n)
      BY <3>4 DEF Plugin!Exit, Plugin!ServeReturns, Plugin!Ends
    <3>6. CASE Plugin!Signal(n)
      BY <3>6 DEF Plugin!Signal
    <3> QED
      BY <1>5, <3>1, <3>2, <3>3, <3>4, <3>6 DEF PluginStep, PluginFails, Plugin!Step
  <2> QED
    BY <2>1, <2>2 DEF HandlerInv
<1>6. ASSUME UNCHANGED <<hd, proc>> PROVE HandlerInv'
  BY <1>6 DEF HandlerInv
<1>7. CASE UNCHANGED vars
  BY <1>6, <1>7 DEF vars, node, process
<1>8. ASSUME NEW n \in Nodes,
             \/ Schedule(n) \/ Unschedule(n) \/ StartPod(n) \/ PodWrites(n)
             \/ AttachStep(n) \/ ConfirmReleased(n)
      PROVE  HandlerInv'
  BY <1>6, <1>8 DEF Schedule, Unschedule, StartPod, PodWrites, AttachStep, ConfirmReleased,
     node, process
<1>9. CASE Grow \/ NodeExpansionRequired
  BY <1>6, <1>9 DEF Grow, NodeExpansionRequired, node, process
<1> QED
  BY <1>1, <1>2, <1>3, <1>4, <1>5, <1>7, <1>8, <1>9 DEF Next
\* Only a resize that was done gets NodeExpandVolume to its answer.
LEMMA ExpandDone ==
    ASSUME NodeTypeOK, NEW h \in Slots, NodeStep(h),
           hd'[h].op = "expand", hd'[h].pc = "reply"
    PROVE  disk'.fs = size
<1>1. CASE ExpandGet(h) \/ ExpandBlkid(h)
  BY <1>1 DEF ExpandGet, ExpandBlkid, LookFails, Goto, Error, Idle, NodeTypeOK
<1>2. CASE ExpandResize(h)
  BY <1>2 DEF ExpandResize, ResizeError, Error, Idle, NodeTypeOK
<1>3. CASE Reply(h)
  BY <1>3 DEF Reply, Idle, NodeTypeOK
<1>4. CASE hd[h].op # "expand"
  BY <1>4, HandlerMoves DEF Idle
<1> QED
  BY <1>1, <1>2, <1>3, <1>4
     DEF NodeStep, At, StagePath, StageBlkid, StageMkfs, StageFindmnt, StageMount,
     UnstageFindmnt, UnstageUmount, PublishMkdir, PublishFindmnt, PublishBind,
     UnpublishFindmnt, UnpublishRemoveAll, UnpublishUmount, UnpublishRmdir

LEMMA SizesAreNumbers ==
    ASSUME NodeTypeOK
    PROVE  size \in Nat \ {0} /\ disk.fs \in Nat /\ claim.spec \in Nat /\ claim.status \in Nat
<1>1. size \in Sizes /\ disk.fs \in Sizes \cup {0} /\ claim.spec \in Sizes /\ claim.status \in Sizes
  BY DEF NodeTypeOK
<1>2. \A s \in Sizes : s \in Nat \ {0}
  BY SizesAssumption
<1> QED
  BY <1>1, <1>2

LEMMA SizeNext ==
    TypeOK /\ AttachInv /\ KubeletInv /\ HandlerInv /\ SizeInv /\ [Next]_vars => SizeInv'
<1> SUFFICES ASSUME TypeOK, AttachInv, KubeletInv, HandlerInv, SizeInv, [Next]_vars
             PROVE  SizeInv'
  OBVIOUS
<1> HIDE DEF vars, attachment, process, pods, node, mounts, told
<1> USE SizesAreNumbers
<1>0. NodeTypeOK /\ TypeOK'
  BY TypeNext DEF TypeOK
<1>1. ASSUME NEW h \in Slots, Step(h) PROVE SizeInv'
  <2>1. NodeStep(h) /\ size' = size
    BY <1>1 DEF Step, attachment
  <2>2. disk'.fs = disk.fs \/ disk'.fs = size
    <3>1. disk \in [fs : Sizes \cup {0}, data : BOOLEAN]
      BY <1>0 DEF NodeTypeOK
    <3>2. disk' = [disk EXCEPT !.data = FALSE] => disk'.fs = disk.fs
      BY <3>1
    <3>3. disk' = [disk EXCEPT !.fs = size] => disk'.fs = size
      BY <3>1
    <3>4. disk' = [fs |-> size, data |-> FALSE] => disk'.fs = size
      OBVIOUS
    <3> QED
      BY <2>1, <3>2, <3>3, <3>4, NodeEffects
  <2>3. claim' = claim \/ (Reply(h) /\ claim' = Expanded(h))
    BY <2>1, NodeMoves DEF Goto, Error, Reply, told
  <2>4. \/ claim' = claim
        \/ /\ claim'.spec = claim.spec /\ claim'.status = claim.spec
           /\ disk.fs = size /\ disk' = disk
    BY <1>0, <2>3 DEF Reply, Expanded, SizeInv, NodeTypeOK
  <2>5. \A g \in Slots : hd'[g].op = "expand" /\ hd'[g].awaited /\ hd'[g].pc = "reply"
                         => disk'.fs = size
    BY <1>0, <2>1, <2>2, HandlerMoves, ExpandDone DEF SizeInv
  <2> QED
    BY <1>0, <2>1, <2>2, <2>4, <2>5 DEF SizeInv
<1>2. CASE Grow
  <2>1. holder = None /\ size' > size /\ UNCHANGED <<hd, disk, claim>>
    BY <1>2 DEF Grow, Attachment!Grow, node, told
  <2>2. \A g \in Slots : ~hd[g].awaited
    BY <2>1, SlotNode, NodesAssumption DEF KubeletInv, AttachInv, Waiting
  <2>3. claim'.status <= claim'.spec /\ claim'.spec <= size'
    <3>1. size' \in Nat
      BY <1>0, SizesAssumption DEF TypeOK, NodeTypeOK
    <3>2. /\ claim.status \in Nat /\ claim.spec \in Nat /\ size \in Nat
          /\ claim.status <= claim.spec /\ claim.spec <= size
      BY <1>0, SizesAreNumbers DEF SizeInv
    <3> QED
      BY <2>1, <3>1, <3>2
  <2>4. disk'.fs # 0 => disk'.fs >= claim'.status
    BY <2>1 DEF SizeInv
  <2>5. \A g \in Slots : ~hd'[g].awaited
    BY <2>1, <2>2
  <2> QED
    BY <2>3, <2>4, <2>5 DEF SizeInv
<1>3. CASE NodeExpansionRequired
  <2>1. /\ size' = size /\ UNCHANGED <<hd, disk>>
        /\ claim'.spec = size /\ claim'.status = claim.status
    BY <1>0, <1>3 DEF NodeExpansionRequired, attachment, NodeTypeOK
  <2> QED
    BY <1>0, <2>1 DEF SizeInv
<1>4. ASSUME UNCHANGED <<size, claim>>, disk'.fs = disk.fs,
             \A g \in Slots : hd'[g].awaited /\ hd'[g].pc = "reply" => hd'[g] = hd[g]
      PROVE  SizeInv'
  BY <1>4 DEF SizeInv
<1>5. ASSUME NEW h \in Slots, Calls(h) \/ GiveUp(h) PROVE SizeInv'
  <2>1. UNCHANGED <<size, claim, disk>>
    BY <1>5 DEF Calls, CallStage, CallPublish, CallExpand, CallUnpublish, CallUnstage,
       Call, GiveUp, attachment, told
  <2>2. \A g \in Slots : g # h => hd'[g] = hd[g]
    BY <1>0, <1>5 DEF Calls, CallStage, CallPublish, CallExpand, CallUnpublish,
       CallUnstage, Call, GiveUp, NodeTypeOK
  <2>3. hd'[h].pc = "begin" \/ ~hd'[h].awaited
    BY <1>0, <1>5 DEF Calls, CallStage, CallPublish, CallExpand, CallUnpublish,
       CallUnstage, Call, GiveUp, NodeTypeOK
  <2> QED
    BY <1>4, <2>1, <2>2, <2>3
<1>6. ASSUME NEW n \in Nodes, PluginKilled(n) \/ Reboot(n) PROVE SizeInv'
  <2>1. UNCHANGED <<size, claim, disk>>
    BY <1>6 DEF PluginKilled, Reboot, attachment
  <2>2. \A h \in Slots : hd'[h] = IF NodeOf[h] = n THEN Idle ELSE hd[h]
    BY <1>6 DEF PluginKilled, Reboot, HandlersDie
  <2> QED
    BY <1>4, <2>1, <2>2 DEF Idle
<1>7. CASE UNCHANGED vars
  BY <1>4, <1>7 DEF vars, attachment, node, told
<1>8. ASSUME NEW n \in Nodes,
             \/ PluginStep(n) \/ PluginFails(n) \/ Schedule(n) \/ Unschedule(n)
             \/ StartPod(n) \/ AttachStep(n) \/ ConfirmReleased(n)
      PROVE  SizeInv'
  BY <1>4, <1>8 DEF PluginStep, PluginFails, Schedule, Unschedule, StartPod, AttachStep,
     ConfirmReleased, Ask, AskBack, Attachment!Ask, Attachment!AskBack, Attachment!Attach,
     Attachment!ConfirmAttached, Attachment!Detach, Attachment!ConfirmReleased,
     attachment, node, told
<1>9. ASSUME NEW n \in Nodes, PodWrites(n) PROVE SizeInv'
  <2>1. disk'.fs = disk.fs
    BY <1>0, <1>9 DEF PodWrites, NodeTypeOK
  <2> QED
    BY <1>4, <1>9, <2>1 DEF PodWrites, attachment, told
<1> QED
  BY <1>1, <1>2, <1>3, <1>5, <1>6, <1>7, <1>8, <1>9 DEF Next

LEMMA PluginNext == TypeOK /\ PluginInv /\ [Next]_vars => PluginInv'
<1> SUFFICES ASSUME TypeOK, PluginInv, [Next]_vars PROVE PluginInv'
  OBVIOUS
<1> HIDE DEF vars, attachment, process, pods, node, mounts, told
<1> USE DEF PluginInv, TypeOK, Plugin!TypeInvariant, Plugin!Ends, Plugin!Starting
<1>1. ASSUME NEW n \in Nodes, PluginStep(n) PROVE PluginInv'
  <2>1. CASE Plugin!Start(n) \/ Plugin!FailedStart(n) \/ Plugin!StartFails(n)
    BY <2>1, StartShown
  <2>2. CASE Plugin!Serve(n)
    BY <2>2 DEF Plugin!Serve, Plugin!At
  <2>3. CASE Plugin!GracefulStop(n)
    BY <2>3 DEF Plugin!GracefulStop
  <2>4. CASE Plugin!Exit(n)
    BY <2>4 DEF Plugin!Exit
  <2> QED
    BY <1>1, <2>1, <2>2, <2>3, <2>4 DEF PluginStep, Plugin!Step
<1>2. ASSUME NEW n \in Nodes, PluginFails(n) PROVE PluginInv'
  <2>1. CASE Plugin!StartFails(n)
    BY <2>1, StartShown
  <2>2. CASE Plugin!Signal(n)
    BY <2>2 DEF Plugin!Signal
  <2> QED
    BY <1>2, <2>1, <2>2 DEF PluginFails
<1>3. ASSUME NEW n \in Nodes, PluginKilled(n) \/ Reboot(n) PROVE PluginInv'
  <2>1. Plugin!Ends(n)
    BY <1>3 DEF PluginKilled, Reboot, Plugin!Kill
  <2> QED
    BY <2>1
<1>4. CASE proc' = proc
  BY <1>4
<1> QED
  BY <1>1, <1>2, <1>3, <1>4
     DEF Next, Step, Calls, CallStage, CallPublish, CallExpand, CallUnpublish, CallUnstage,
     Call, GiveUp, Schedule, Unschedule, StartPod, PodWrites, AttachStep, ConfirmReleased,
     Grow, NodeExpansionRequired, vars, process

LEMMA CommonInit == Init => CommonInv
<1> SUFFICES ASSUME Init PROVE CommonInv
  OBVIOUS
<1>1. TypeOK
  BY TypeInit
<1>2. AttachInv /\ PluginInv
  BY NodesAssumption
     DEF Init, AttachInv, PluginInv, Attachment!Init, Plugin!Init, Plugin!Starting
<1>3. KubeletInv /\ HandlerInv
  BY SlotNode DEF Init, NodeInit, KubeletInv, HandlerInv, Waiting, Idle, Nothing
<1>4. SizeInv
  BY <1>1, SizesAreNumbers DEF Init, NodeInit, SizeInv, Idle, TypeOK
<1> QED
  BY <1>1, <1>2, <1>3, <1>4 DEF CommonInv

LEMMA CommonNext == CommonInv /\ [Next]_vars => CommonInv'
BY TypeNext, AttachNext, KubeletNext, HandlerNext, SizeNext, PluginNext DEF CommonInv

LEMMA CommonAlways == Spec => []CommonInv
BY CommonInit, CommonNext, PTL DEF Spec

\* The capacity that the claim reports is usable, also with kubelets that give up
\* on their calls and tools that fail: NodeExpandVolume passes on the error of
\* resize2fs, and the volume does not change while a node is working on it.
THEOREM CapacityReported == Spec => []CapacityIsUsable
<1>1. CommonInv => CapacityIsUsable
  BY DEF CommonInv, SizeInv, CapacityIsUsable
<1> QED
  BY <1>1, CommonAlways, PTL

\* A plugin that answers calls has its driver and its cluster, although main does not
\* exit when it has failed to get one of them: it panics before Run.
THEOREM StartedBeforeServing == Spec => []ServesOnlyConfigured
<1>1. CommonInv => ServesOnlyConfigured
  BY DEF CommonInv, PluginInv, ServesOnlyConfigured, Plugin!AcceptsCalls, Plugin!At
<1> QED
  BY <1>1, CommonAlways, PTL

\* Whoever calls, and however many publishes were abandoned: only a command that has
\* removed the target directory brings an unpublish to its answer, and it removes no
\* directory with something mounted on it.
THEOREM UnpublishEmpties == Spec => UnpublishLeavesNothing
<1>1. ASSUME TypeOK, NEW h \in Slots, NodeStep(h),
             hd[h].op = "unpublish", hd[h].pc # "reply", hd'[h].pc = "reply"
      PROVE  target'[NodeOf[h]] = << >> /\ ~dir'[NodeOf[h]]
  <2> DEFINE n == NodeOf[h]
  <2>1. n \in Nodes
    BY SlotNode
  <2>2. Remove(h) /\ target' = target
    <3> USE <1>1 DEF At, Goto, Error, LookFails, Idle, TypeOK, NodeTypeOK
    <3>1. ~Reply(h)
      BY DEF Reply
    <3>2. ~UnpublishFindmnt(h) /\ ~UnpublishUmount(h)
      BY DEF UnpublishFindmnt, UnpublishUmount
    <3>3. UnpublishRemoveAll(h) \/ UnpublishRmdir(h)
      BY <3>1, <3>2
         DEF NodeStep, StagePath, StageBlkid, StageMkfs, StageFindmnt, StageMount,
             UnstageFindmnt, UnstageUmount, PublishMkdir, PublishFindmnt, PublishBind,
             ExpandGet, ExpandBlkid, ExpandResize
    <3> QED
      BY <3>3 DEF UnpublishRemoveAll, UnpublishRmdir
  <2>3. CanRemove(n)
    BY <1>1, <2>2 DEF Remove, Error, Idle, TypeOK, NodeTypeOK
  <2> QED
    BY <1>1, <2>1, <2>2, <2>3 DEF Remove, CanRemove, Mounted, TypeOK, NodeTypeOK
<1>2. ASSUME TypeOK, [Next]_vars, NEW h \in Slots,
             hd[h].op = "unpublish", hd[h].pc # "reply", hd'[h].pc = "reply"
      PROVE  NodeStep(h)
  <2> HIDE DEF vars, attachment, process, pods, node, mounts, told
  <2>1. hd'[h] # hd[h] /\ hd'[h] # Idle
    BY <1>2 DEF Idle
  <2>2. ASSUME NEW g \in Slots, Calls(g) \/ GiveUp(g) PROVE hd'[h].pc # "reply"
    <3>1. DOMAIN hd = Slots
      BY <1>2 DEF TypeOK, NodeTypeOK
    <3>2. ASSUME NEW op, Call(g, op) PROVE hd'[h].pc # "reply"
      BY <1>2, <3>1, <3>2 DEF Call
    <3>3. CASE GiveUp(g)
      <4>1. DOMAIN hd[h] = {"op", "pc", "awaited"}
        BY <1>2 DEF TypeOK, NodeTypeOK
      <4> QED
        BY <1>2, <3>1, <3>3, <4>1 DEF GiveUp
    <3> QED
      BY <2>2, <3>2, <3>3
         DEF Calls, CallStage, CallPublish, CallExpand, CallUnpublish, CallUnstage
  <2>3. ASSUME NEW g \in Slots, Step(g) PROVE NodeStep(h)
    BY <1>2, <2>1, <2>3, HandlerMoves DEF Step, TypeOK
  <2>4. ASSUME NEW n \in Nodes, PluginKilled(n) \/ Reboot(n) PROVE hd'[h] \in {hd[h], Idle}
    BY <2>4 DEF PluginKilled, Reboot, HandlersDie
  <2>5. ASSUME NEW n \in Nodes,
               \/ PluginStep(n) \/ PluginFails(n) \/ Schedule(n) \/ Unschedule(n)
               \/ StartPod(n) \/ PodWrites(n) \/ AttachStep(n) \/ ConfirmReleased(n)
        PROVE  hd' = hd
    BY <2>5 DEF PluginStep, PluginFails, Schedule, Unschedule, StartPod, PodWrites, AttachStep,
       ConfirmReleased, node
  <2>6. ~Grow /\ ~NodeExpansionRequired /\ ~UNCHANGED vars
    BY <2>1 DEF Grow, NodeExpansionRequired, vars, node
  <2> QED
    BY <1>2, <2>1, <2>2, <2>3, <2>4, <2>5, <2>6 DEF Next
<1>3. TypeOK /\ [Next]_vars
      => [\A h \in Slots : hd[h].op = "unpublish" /\ hd[h].pc # "reply" /\ hd'[h].pc = "reply"
                         => target'[NodeOf[h]] = << >> /\ ~dir'[NodeOf[h]]]_vars
  BY <1>1, <1>2
<1> QED
  BY <1>3, TypeCorrect, PTL DEF Spec, UnpublishLeavesNothing

\* A plugin ends by itself only when its handlers have answered: whatever cuts a
\* handler off is a fault (a kill or a reboot), never a signal.
THEOREM CallsFinish == Spec => StopLetsCallsFinish
<1>1. ASSUME CommonInv, [Next]_vars, NEW h \in Slots,
             proc'[NodeOf[h]].pc = "starting", hd[h].pc # "idle"
      PROVE  faults' # faults
  <2> HIDE DEF vars, attachment, process, pods, node, mounts, told
  <2> DEFINE n == NodeOf[h]
  <2>1. n \in Nodes /\ proc[n].pc = "serving" /\ TypeOK
    BY <1>1, SlotNode DEF CommonInv, HandlerInv
  <2>2. proc' # proc
    BY <1>1, <2>1
  <2>3. Fault => faults' # faults
    BY <2>1, FaultsAssumption DEF Fault, TypeOK, NodeTypeOK
  <2>4. \A m \in Nodes : ~PluginStep(m)
    <3> SUFFICES ASSUME NEW m \in Nodes, PluginStep(m) PROVE FALSE
      OBVIOUS
    <3> USE <1>1, <2>1 DEF TypeOK, Plugin!TypeInvariant, Plugin!At
    <3>1. CASE Plugin!Start(m) \/ Plugin!FailedStart(m) \/ Plugin!StartFails(m)
      BY <3>1, StartShown
    <3>2. CASE Plugin!Serve(m)
      BY <3>2 DEF Plugin!Serve
    <3>3. CASE Plugin!GracefulStop(m)
      BY <3>3 DEF Plugin!GracefulStop
    <3>4. CASE Plugin!Exit(m)
      <4>1. m = n
        BY <3>4 DEF Plugin!Exit, Plugin!Ends
      <4> QED
        BY <3>4, <4>1 DEF Plugin!Exit, Plugin!ServeReturns
    <3> QED
      BY <3>1, <3>2, <3>3, <3>4 DEF PluginStep, Plugin!Step
  <2>5. \E m \in Nodes : PluginFails(m) \/ PluginKilled(m) \/ Reboot(m)
    BY <1>1, <2>2, <2>4
       DEF Next, Step, Calls, CallStage, CallPublish, CallExpand, CallUnpublish,
       CallUnstage, Call, GiveUp, Schedule, Unschedule, StartPod, PodWrites, AttachStep,
       ConfirmReleased, Grow, NodeExpansionRequired, vars, process
  <2> QED
    BY <2>3, <2>5 DEF PluginFails, PluginKilled, Reboot
<1>2. CommonInv /\ [Next]_vars
      => [\A h \in Slots : proc'[NodeOf[h]].pc = "starting" /\ hd[h].pc # "idle"
                           => faults' # faults]_vars
  BY <1>1
<1> QED
  BY <1>2, CommonAlways, PTL DEF Spec, StopLetsCallsFinish

---------------------------------------------------------------------------
(* Kubelets that wait for every answer: one handler works at a time.       *)

\* Only a handler at work takes a step.
LEMMA WorkingSteps == ASSUME NEW h \in Slots, NodeStep(h) PROVE hd[h].pc # "idle"
BY DEF NodeStep, At, StagePath, StageBlkid, StageMkfs, StageFindmnt, StageMount,
   UnstageFindmnt, UnstageUmount, PublishMkdir, PublishFindmnt, PublishBind,
   UnpublishFindmnt, UnpublishRemoveAll, UnpublishUmount, UnpublishRmdir,
   ExpandGet, ExpandBlkid, ExpandResize, Reply

\* A handler at work is the only one, on the node that has the volume: its
\* kubelet waits for it, so that the attachment is confirmed.
LEMMA OneHandler ==
    ASSUME CommonInv, SerialInv, NEW h \in Slots, hd[h].pc # "idle"
    PROVE  /\ holder = NodeOf[h]
           /\ hd[h].awaited /\ hd[h].op \in Ops
           /\ \A g \in Slots : g # h => hd[g] = Idle
<1>1. \A g \in Slots : hd[g].pc # "idle" => hd[g].awaited /\ hd[g].op # "none"
  BY DEF SerialInv, CallInv
<1>2. \A g \in Slots : hd[g].pc # "idle" => holder = NodeOf[g]
  BY <1>1, SlotNode DEF CommonInv, KubeletInv, AttachInv, Waiting
<1>3. \A g \in Slots : g # h => hd[g].pc = "idle"
  BY <1>1, <1>2 DEF CommonInv, HandlerInv
<1>4. hd[h].op \in Ops
  BY <1>1 DEF CommonInv, TypeOK, NodeTypeOK, Ops
<1> QED
  BY <1>1, <1>2, <1>3, <1>4 DEF CommonInv, HandlerInv

\* Who is busy when no other handler works.
LEMMA BusyAlone ==
    ASSUME NEW h \in Slots, \A g \in Slots : g # h => hd[g] = Idle,
           NEW op \in Ops, NEW n
    PROVE  /\ Busy(n, op) <=> n = NodeOf[h] /\ hd[h].op = op
           /\ Answering(n, op) <=> n = NodeOf[h] /\ hd[h].op = op /\ hd[h].pc = "reply"
BY DEF Busy, Answering, Idle, Ops

LEMMA BusyAloneThen ==
    ASSUME NEW h \in Slots, \A g \in Slots : g # h => hd'[g] = Idle,
           NEW op \in Ops, NEW n
    PROVE  /\ Busy(n, op)' <=> n = NodeOf[h] /\ hd'[h].op = op
           /\ Answering(n, op)' <=> n = NodeOf[h] /\ hd'[h].op = op /\ hd'[h].pc = "reply"
BY DEF Busy, Answering, Idle, Ops

\* The setting of a command.
LEMMA OneStep ==
    ASSUME CommonInv, SerialInv, NEW h \in Slots, Step(h)
    PROVE  LET n == NodeOf[h] IN
           /\ n \in Nodes /\ holder = n
           /\ hd[h].awaited /\ hd[h].op \in Ops
           /\ \A g \in Slots : g # h => hd[g] = Idle /\ hd'[g] = Idle
           /\ \A op \in Ops :
                /\ Busy(n, op) <=> hd[h].op = op
                /\ Busy(n, op)' <=> hd'[h].op = op
                /\ Answering(n, op) <=> hd[h].op = op /\ hd[h].pc = "reply"
                /\ Answering(n, op)' <=> hd'[h].op = op /\ hd'[h].pc = "reply"
           /\ UNCHANGED pods
           /\ \A label \in Labels : Goto(h, label) =>
                /\ hd'[h].op = hd[h].op /\ hd'[h].awaited /\ hd'[h].pc = label
                /\ kubelet' = kubelet
           /\ Error(h) => hd'[h] = Idle /\ kubelet' = kubelet
<1>1. NodeStep(h) /\ UNCHANGED pods /\ TypeOK
  BY DEF Step, CommonInv
<1>2. hd[h].pc # "idle"
  BY <1>1, WorkingSteps
<1>3. /\ NodeOf[h] \in Nodes /\ holder = NodeOf[h]
      /\ hd[h].awaited /\ hd[h].op \in Ops
      /\ \A g \in Slots : g # h => hd[g] = Idle
  BY <1>2, OneHandler, SlotNode
<1>4. \A g \in Slots : g # h => hd'[g] = Idle
  BY <1>1, <1>3, HandlerMoves DEF TypeOK
<1>5. \A op \in Ops :
        /\ Busy(NodeOf[h], op) <=> hd[h].op = op
        /\ Busy(NodeOf[h], op)' <=> hd'[h].op = op
        /\ Answering(NodeOf[h], op) <=> hd[h].op = op /\ hd[h].pc = "reply"
        /\ Answering(NodeOf[h], op)' <=> hd'[h].op = op /\ hd'[h].pc = "reply"
  BY <1>3, <1>4, BusyAlone, BusyAloneThen
<1>6. ASSUME NEW label \in Labels, Goto(h, label)
      PROVE  /\ hd'[h].op = hd[h].op /\ hd'[h].awaited /\ hd'[h].pc = label
             /\ kubelet' = kubelet
  BY <1>1, <1>3, <1>6 DEF Goto, told, TypeOK, NodeTypeOK
<1>7. Error(h) => hd'[h] = Idle /\ kubelet' = kubelet
  BY <1>1 DEF Error, told, TypeOK, NodeTypeOK
<1> QED
  BY <1>1, <1>3, <1>4, <1>5, <1>6, <1>7

\* What the kubelet of the node believes after an answer it waits for.
LEMMA AnswerMeans ==
    ASSUME TypeOK, NEW h \in Slots, hd[h].awaited, NEW answer \in {"no", "maybe", "yes"}
    PROVE  LET n == NodeOf[h]
               k == Believes(h, answer) IN
           /\ \A m \in Nodes : m # n => k[m] = kubelet[m]
           /\ hd[h].op = "expand" => k = kubelet
           /\ hd[h].op \in {"stage", "unstage"} =>
                k[n].staged = answer /\ k[n].published = kubelet[n].published
           /\ hd[h].op \in {"publish", "unpublish"} =>
                k[n].published = answer /\ k[n].staged = kubelet[n].staged
<1>1. kubelet \in [Nodes -> Beliefs] /\ NodeOf[h] \in Nodes
  BY SlotNode DEF TypeOK, NodeTypeOK, Beliefs
<1>2. CASE hd[h].op = "expand"
  BY <1>2 DEF Believes
<1>3. CASE hd[h].op \in {"stage", "unstage"}
  <2>1. Believes(h, answer) = [kubelet EXCEPT ![NodeOf[h]].staged = answer]
    BY <1>3 DEF Believes
  <2> QED
    BY <1>1, <1>3, <2>1 DEF Beliefs
<1>4. CASE hd[h].op \in {"publish", "unpublish"}
  <2>1. Believes(h, answer) = [kubelet EXCEPT ![NodeOf[h]].published = answer]
    BY <1>4 DEF Believes
  <2> QED
    BY <1>1, <1>4, <2>1 DEF Beliefs
<1>5. CASE hd[h].op \notin {"stage", "unstage", "publish", "unpublish", "expand"}
  <2>1. Believes(h, answer) = [kubelet EXCEPT ![NodeOf[h]].published = answer]
    BY <1>5 DEF Believes
  <2> QED
    BY <1>1, <1>5, <2>1 DEF Beliefs
<1> QED
  BY <1>2, <1>3, <1>4, <1>5

\* A command keeps what kubelets that wait rely on.
LEMMA SerialStep ==
    ASSUME CommonInv, SerialInv, NEW h \in Slots, Step(h)
    PROVE  SerialInv'
<1> DEFINE n == NodeOf[h]
<1> HIDE DEF vars, attachment, process, node, mounts, told
<1>1. NodeStep(h) /\ n \in Nodes /\ TypeOK /\ size # 0
  BY OneStep, SizesAreNumbers DEF Step, CommonInv, TypeOK
<1>2. /\ \A g \in Slots : g # h => hd[g] = Idle /\ hd'[g] = Idle
      /\ running' = running /\ wanted' = wanted
  BY OneStep
<1>3. holder = n /\ hd[h].awaited /\ hd[h].op # "none"
  BY OneStep DEF Ops
<1>4. \A label \in Labels : Goto(h, label) =>
        /\ hd'[h].op = hd[h].op /\ hd'[h].awaited /\ hd'[h].pc = label
        /\ kubelet' = kubelet
  BY OneStep
<1>5. Error(h) => hd'[h] = Idle /\ kubelet' = kubelet
  BY OneStep
<1>6. \A op \in Ops :
        /\ Busy(n, op) <=> hd[h].op = op
        /\ Busy(n, op)' <=> hd'[h].op = op
        /\ Answering(n, op) <=> hd[h].op = op /\ hd[h].pc = "reply"
        /\ Answering(n, op)' <=> hd'[h].op = op /\ hd'[h].pc = "reply"
  BY OneStep
<1>7. /\ staged \in [Nodes -> BOOLEAN] /\ target \in [Nodes -> Seq({"volume", "node"})]
      /\ disk \in [fs : Sizes \cup {0}, data : BOOLEAN]
  BY <1>1 DEF TypeOK, NodeTypeOK
<1>8. MountInv(n) /\ CallInv(h) /\ DataInv
  BY <1>1 DEF SerialInv
<1>9. DataInv' /\ MountInv(n)' /\ CallInv(h)'
  <2> USE <1>1, <1>3, <1>8 DEF At, OK, LookFails, Idle, mounts
  <2> DEFINE Kept == DataInv' /\ MountInv(n)' /\ CallInv(h)'
  <2> SUFFICES Kept
    OBVIOUS
  <2>0. /\ Answering(n, "stage") <=> hd[h].op = "stage" /\ hd[h].pc = "reply"
        /\ Answering(n, "publish") <=> hd[h].op = "publish" /\ hd[h].pc = "reply"
        /\ Busy(n, "unpublish") <=> hd[h].op = "unpublish"
        /\ Answering(n, "stage")' <=> hd'[h].op = "stage" /\ hd'[h].pc = "reply"
        /\ Answering(n, "publish")' <=> hd'[h].op = "publish" /\ hd'[h].pc = "reply"
        /\ Busy(n, "unpublish")' <=> hd'[h].op = "unpublish"
    BY <1>6 DEF Ops
  <2>1. CASE UNCHANGED <<disk, staged, target>> /\ Error(h) /\ hd[h].pc # "reply"
    BY <1>2, <1>5, <2>0, <2>1 DEF MountInv, CallInv, DataInv
  <2>2. ASSUME UNCHANGED <<disk, staged, target>>, NEW label \in Labels, Goto(h, label),
               hd[h].pc # "reply", hd[h].op = "stage" /\ label = "mkfs" => disk.fs = 0 \/ BlkidUnsure,
               hd[h].op = "unstage" /\ label = "reply" => ~staged[n],
               hd[h].op = "publish" /\ label = "bind" => target[n] = << >>,
               hd[h].op = "unpublish" /\ label \in {"removeall", "rmdir", "reply"}
                 => target[n] = << >>
        PROVE  Kept
    BY <1>2, <1>4, <2>0, <2>2 DEF MountInv, CallInv, DataInv
  <2> HIDE DEF Kept
  <2> USE DEF Labels
  <2>3. CASE StagePath(h)
    BY <2>1, <2>2, <2>3 DEF StagePath
  <2>4. CASE StageBlkid(h)
    <3>1. ~Formatted(n) => disk.fs = 0
      BY DEF Formatted, Device
    <3> QED
      BY <2>1, <2>2, <2>4, <3>1 DEF StageBlkid
  <2>5. CASE StageFindmnt(h)
    BY <2>1, <2>2, <2>5 DEF StageFindmnt, DeviceMounted
  <2>6. CASE UnstageFindmnt(h)
    BY <2>1, <2>2, <2>6 DEF UnstageFindmnt, StagingMounted
  <2>7. CASE PublishMkdir(h)
    BY <2>1, <2>2, <2>7 DEF PublishMkdir
  <2>8. CASE PublishFindmnt(h)
    BY <2>1, <2>2, <2>8 DEF PublishFindmnt, Mounted
  <2>9. CASE UnpublishFindmnt(h)
    BY <2>1, <2>2, <2>9 DEF UnpublishFindmnt, Mounted
  <2>10. CASE ExpandGet(h) \/ ExpandBlkid(h)
    BY <2>1, <2>2, <2>10 DEF ExpandGet, ExpandBlkid
  <2>11. CASE UnpublishRmdir(h)
    <3>1. hd[h].op = "unpublish" => target[n] = << >> \/ hd[h].pc # "rmdir"
      BY DEF CallInv
    <3> QED
      BY <2>1, <2>2, <2>11, <3>1 DEF UnpublishRmdir, Remove
  <2>12. CASE StageMkfs(h)
    <3>1. disk' = disk \/ (disk'.fs = size /\ disk'.data = FALSE)
      BY <2>12 DEF StageMkfs
    <3>2. /\ UNCHANGED <<staged, target>> /\ Goto(h, "findmnt")
          /\ hd[h].op = "stage" /\ hd[h].pc = "mkfs"
      BY <2>12 DEF StageMkfs
    <3>3. DataInv'
      BY <3>1 DEF DataInv
    <3>4. MountInv(n)'
      BY <1>2, <1>4, <2>0, <3>1, <3>2 DEF MountInv, CallInv
    <3>5. CallInv(h)'
      BY <1>4, <3>2 DEF CallInv
    <3> QED
      BY <3>3, <3>4, <3>5 DEF Kept
  <2>13. CASE StageMount(h)
    <3>1. UNCHANGED <<disk, target>> /\ Goto(h, "reply") /\ hd[h].op = "stage"
          /\ hd[h].pc = "mount"
      BY <2>13 DEF StageMount, StageReply
    <3>2. staged'[n] => staged[n] \/ disk.fs # 0
      BY <1>7, <2>13 DEF StageMount, CanMount, Formatted
    <3>3. staged[n] => staged'[n]
      BY <1>7, <2>13 DEF StageMount
    <3>4. DataInv'
      BY <3>1 DEF DataInv
    <3>5. MountInv(n)'
      BY <1>2, <1>4, <2>0, <3>1, <3>2, <3>3 DEF MountInv, CallInv
    <3>6. CallInv(h)'
      BY <1>4, <3>1 DEF CallInv
    <3> QED
      BY <3>4, <3>5, <3>6 DEF Kept
  <2>14. CASE UnstageUmount(h)
    <3>1. UNCHANGED <<disk, target>> /\ hd[h].op = "unstage" /\ hd[h].pc = "umount"
      BY <2>14 DEF UnstageUmount
    <3>2. \/ ~staged'[n] /\ Goto(h, "reply")
          \/ UNCHANGED staged /\ Error(h)
      BY <1>7, <2>14 DEF UnstageUmount
    <3> QED
      BY <1>2, <1>4, <1>5, <2>0, <3>1, <3>2 DEF Kept, MountInv, CallInv, DataInv
  <2>15. CASE PublishBind(h)
    <3>1. UNCHANGED <<disk, staged>> /\ Goto(h, "reply")
          /\ hd[h].op = "publish" /\ hd[h].pc = "bind"
      BY <2>15 DEF PublishBind
    <3>2. target'[n] = target[n] \/ target'[n] = <<BindSource(n)>>
      <4>1. target[n] = << >>
        BY <3>1 DEF CallInv
      <4> QED
        BY <1>7, <2>15, <4>1 DEF PublishBind
    <3>3. BindSource(n) = "node" \/ (BindSource(n) = "volume" /\ staged[n])
      BY DEF BindSource
    <3>4. DataInv'
      BY <3>1 DEF DataInv
    <3>5. target'[n] \in {<< >>, <<"volume">>, <<"node">>}
      BY <3>2, <3>3 DEF MountInv
    <3>6. target'[n] = <<"volume">> => disk'.fs # 0
      BY <3>1, <3>2, <3>3 DEF MountInv
    <3>7. MountInv(n)'
      BY <1>2, <1>4, <2>0, <3>1, <3>5, <3>6 DEF MountInv, CallInv
    <3>8. CallInv(h)'
      BY <1>4, <3>1 DEF CallInv
    <3> QED
      BY <3>4, <3>7, <3>8 DEF Kept
  <2>16. CASE UnpublishRemoveAll(h)
    <3>1. UNCHANGED <<staged, target>> /\ hd[h].op = "unpublish" /\ hd[h].pc = "removeall"
      BY <2>16 DEF UnpublishRemoveAll
    <3>2. target[n] = << >>
      BY <3>1 DEF CallInv
    <3>3. disk' = disk /\ Goto(h, "reply")
      BY <2>16, <3>2 DEF UnpublishRemoveAll, OnVolume, Mounted, Remove, CanRemove
    <3> QED
      BY <2>2, <3>1, <3>2, <3>3
  <2>17. CASE UnpublishUmount(h)
    <3>1. UNCHANGED <<disk, staged>> /\ hd[h].op = "unpublish" /\ hd[h].pc = "umount"
      BY <2>17 DEF UnpublishUmount
    <3>2. \/ target'[n] = << >> /\ Goto(h, "rmdir")
          \/ UNCHANGED target /\ Error(h)
      <4>1. ASSUME target[n] # << >> PROVE SubSeq(target[n], 1, Len(target[n]) - 1) = << >>
        <5>1. Len(target[n]) <= 1
          <6>1. Len(<<"volume">>) <= 1 /\ Len(<<"node">>) <= 1 /\ Len(<< >>) <= 1
            OBVIOUS
          <6>2. target[n] \in {<< >>, <<"volume">>, <<"node">>}
            BY DEF MountInv
          <6>3. target[n] = << >> => Len(target[n]) <= 1
            BY <6>1
          <6>4. target[n] = <<"volume">> => Len(target[n]) <= 1
            BY <6>1
          <6>5. target[n] = <<"node">> => Len(target[n]) <= 1
            BY <6>1
          <6> QED
            BY <6>2, <6>3, <6>4, <6>5
        <5>2. "node" \in {"volume", "node"}
          OBVIOUS
        <5> QED
          BY <1>7, <4>1, <5>1, <5>2, OneMount
      <4> QED
        BY <1>7, <2>17, <4>1 DEF UnpublishUmount, Mounted
    <3> QED
      BY <1>2, <1>4, <1>5, <2>0, <3>1, <3>2 DEF Kept, MountInv, CallInv, DataInv
  <2>18. CASE ExpandResize(h)
    <3>1. UNCHANGED <<staged, target>> /\ hd[h].op = "expand" /\ hd[h].pc = "resize2fs"
      BY <2>18 DEF ExpandResize
    <3>2. \/ disk'.fs = size /\ disk'.data = disk.data
          \/ disk' = disk
      BY <1>7, <2>18 DEF ExpandResize
    <3>3. Goto(h, "reply") \/ Error(h)
      BY <2>18 DEF ExpandResize, ResizeError
    <3> QED
      BY <1>2, <1>4, <1>5, <2>0, <3>1, <3>2, <3>3 DEF Kept, MountInv, CallInv, DataInv
  <2>19. CASE Reply(h)
    <3>1. UNCHANGED <<disk, staged, target>> /\ hd'[h] = Idle /\ hd[h].pc = "reply"
      BY <2>19 DEF Reply, TypeOK, NodeTypeOK
    <3>2. kubelet' = Believes(h, IF hd[h].op \in {"stage", "publish"} THEN "yes" ELSE "no")
      BY <2>19 DEF Reply
    <3>3. CASE hd[h].op \in {"stage", "publish"}
      BY <1>2, <2>0, <3>1, <3>2, <3>3, AnswerMeans DEF Kept, MountInv, CallInv, DataInv
    <3>4. CASE hd[h].op \notin {"stage", "publish"}
      BY <1>2, <1>6, <2>0, <3>1, <3>2, <3>4, AnswerMeans
         DEF Kept, MountInv, CallInv, DataInv, TypeOK, NodeTypeOK
    <3> QED
      BY <3>3, <3>4
  <2> QED
    BY <1>1, <2>3, <2>4, <2>5, <2>6, <2>7, <2>8, <2>9, <2>10, <2>11, <2>12, <2>13, <2>14,
       <2>15, <2>16, <2>17, <2>18, <2>19 DEF NodeStep, Kept
<1>10. ASSUME NEW m \in Nodes, m # n PROVE MountInv(m)'
  <2>1. staged'[m] = staged[m] /\ target'[m] = target[m]
    BY <1>1, <1>7, <1>10, NodeEffects
  <2>2. kubelet'[m] = kubelet[m]
    <3>1. kubelet' = kubelet \/ kubelet' = Believes(h, IF hd[h].op \in {"stage", "publish"} THEN "yes" ELSE "no")
      BY <1>1, <1>4, <1>5, NodeMoves DEF Reply
    <3> QED
      BY <1>1, <1>3, <1>10, <3>1, AnswerMeans
  <2>3. \A op \in Ops : /\ ~Busy(m, op) /\ ~Answering(m, op)
                        /\ ~Busy(m, op)' /\ ~Answering(m, op)'
    BY <1>2, <1>10, BusyAlone, BusyAloneThen
  <2>4. disk.fs # 0 => disk'.fs # 0
    <3>1. \/ disk' = disk
          \/ disk' = [fs |-> size, data |-> FALSE]
          \/ disk' = [disk EXCEPT !.data = FALSE]
          \/ disk' = [disk EXCEPT !.fs = size]
      BY <1>1, NodeEffects
    <3> QED
      BY <1>1, <1>7, <3>1
  <2>5. MountInv(m)
    BY <1>10 DEF SerialInv
  <2> QED
    BY <1>2, <2>1, <2>2, <2>3, <2>4, <2>5 DEF MountInv, Ops
<1>11. ASSUME NEW g \in Slots, g # h PROVE CallInv(g)'
  BY <1>2, <1>11 DEF CallInv, Idle
<1> QED
  BY <1>9, <1>10, <1>11 DEF SerialInv

\* What it depends on.
LEMMA SerialFrame ==
    ASSUME SerialInv, UNCHANGED <<staged, target, hd, kubelet, running, wanted, disk>>
    PROVE  SerialInv'
BY DEF SerialInv, DataInv, MountInv, CallInv, Busy, Answering

\* A call begins where the kubelet's beliefs and the pods allow it.
LEMMA SerialCall ==
    ASSUME CommonInv, SerialInv, NEW h \in Slots, Calls(h)
    PROVE  SerialInv'
<1> DEFINE n == NodeOf[h]
<1> HIDE DEF vars, attachment, process, node
<1>1. PICK op \in Ops : Call(h, op)
  BY DEF Ops, Calls, CallStage, CallPublish, CallExpand, CallUnpublish, CallUnstage
<1>2. /\ hd'[h] = [op |-> op, pc |-> "begin", awaited |-> TRUE]
      /\ \A g \in Slots : g # h => hd'[g] = hd[g]
      /\ hd[h].pc = "idle" /\ n \in Nodes
      /\ UNCHANGED <<staged, target, kubelet, running, wanted, disk>>
  BY <1>1, SlotNode DEF Call, CommonInv, TypeOK, NodeTypeOK
<1>3. /\ op = "stage" => kubelet[n].staged # "yes"
      /\ op = "publish" => kubelet[n].staged = "yes" /\ kubelet[n].published # "yes"
      /\ op = "expand" => kubelet[n].staged = "yes"
      /\ op = "unpublish" => ~wanted[n] /\ kubelet[n].published # "no"
      /\ op = "unstage" => kubelet[n].published = "no" /\ kubelet[n].staged # "no"
  <2>1. hd'[h].op = op
    BY <1>2
  <2>2. CASE CallStage(h)
    BY <1>2, <2>1, <2>2 DEF CallStage, Call, CommonInv, TypeOK, NodeTypeOK
  <2>3. CASE CallPublish(h)
    BY <1>2, <2>1, <2>3 DEF CallPublish, Call, CommonInv, TypeOK, NodeTypeOK
  <2>4. CASE CallExpand(h)
    BY <1>2, <2>1, <2>4 DEF CallExpand, Call, CommonInv, TypeOK, NodeTypeOK
  <2>5. CASE CallUnpublish(h)
    BY <1>2, <2>1, <2>5 DEF CallUnpublish, Call, CommonInv, TypeOK, NodeTypeOK
  <2>6. CASE CallUnstage(h)
    BY <1>2, <2>1, <2>6 DEF CallUnstage, Call, CommonInv, TypeOK, NodeTypeOK
  <2> QED
    BY <2>2, <2>3, <2>4, <2>5, <2>6 DEF Calls
<1>4. DataInv'
  BY <1>2 DEF SerialInv, DataInv
<1>5. ASSUME NEW m \in Nodes PROVE MountInv(m)'
  <2>1. \A o \in Ops : Answering(m, o)' <=> Answering(m, o)
    BY <1>2 DEF Answering
  <2>2. Busy(m, "unpublish")' => Busy(m, "unpublish") \/ (m = n /\ op = "unpublish")
    BY <1>2 DEF Busy
  <2>3. MountInv(m)
    BY DEF SerialInv
  <2> QED
    BY <1>2, <1>3, <2>1, <2>2, <2>3 DEF MountInv, Ops
<1>6. CallInv(h)'
  BY <1>2, <1>3 DEF CallInv, Ops
<1>7. ASSUME NEW g \in Slots, g # h PROVE CallInv(g)'
  BY <1>2, <1>7 DEF SerialInv, CallInv
<1> QED
  BY <1>4, <1>5, <1>6, <1>7 DEF SerialInv

\* A kubelet whose call is cut off is uncertain about what the call was to do.
LEMMA SerialKilled ==
    ASSUME CommonInv, SerialInv, NEW n \in Nodes, PluginKilled(n)
    PROVE  SerialInv'
<1> HIDE DEF vars, attachment, process, node
<1>1. /\ \A g \in Slots : hd'[g] = IF NodeOf[g] = n THEN Idle ELSE hd[g]
      /\ UNCHANGED <<staged, target, running, wanted, disk>>
      /\ TypeOK
  BY DEF PluginKilled, HandlersDie, CommonInv
<1>2. \A m \in Nodes : m # n =>
        /\ kubelet'[m] = kubelet[m]
        /\ \A op \in Ops : /\ Busy(m, op)' <=> Busy(m, op)
                           /\ Answering(m, op)' <=> Answering(m, op)
  <2>1. \A m \in Nodes : m # n => kubelet'[m] = kubelet[m]
    BY <1>1, KilledCall, AnswerMeans
  <2>2. ASSUME NEW m \in Nodes, m # n, NEW op \in Ops
        PROVE  /\ Busy(m, op)' <=> Busy(m, op)
               /\ Answering(m, op)' <=> Answering(m, op)
    BY <1>1, <2>2 DEF Busy, Answering
  <2> QED
    BY <2>1, <2>2
<1>3. \A op \in Ops : ~Busy(n, op)' /\ ~Answering(n, op)'
  BY <1>1 DEF Busy, Answering, Idle, Ops
<1>4. DataInv'
  BY <1>1 DEF SerialInv, DataInv
<1>5. MountInv(n)'
  <2>0. MountInv(n)
    BY DEF SerialInv
  <2>1. CASE ~Waiting(n) /\ kubelet' = kubelet
    <3>1. \A op \in Ops : ~Answering(n, op)
      BY <2>1 DEF SerialInv, CallInv, Answering, Waiting
    <3> QED
      BY <1>1, <1>3, <2>0, <2>1, <3>1 DEF MountInv, Ops
  <2>2. ASSUME NEW h \in Slots, NodeOf[h] = n, hd[h].awaited,
               kubelet' = Believes(h, "maybe")
        PROVE  MountInv(n)'
    <3>1. \A g \in Slots : NodeOf[g] = n /\ hd[g].pc # "idle" => g = h
      BY <2>2 DEF CommonInv, HandlerInv, SerialInv, CallInv
    <3>2. /\ hd[h].pc # "idle" /\ hd[h].op \in Ops /\ CallInv(h)
      BY <1>1, <2>2 DEF CommonInv, HandlerInv, SerialInv, CallInv, Idle, Ops, TypeOK, NodeTypeOK
    <3>3. \A op \in Ops : Answering(n, op) => hd[h].op = op
      BY <3>1 DEF Answering
    <3>4. Busy(n, "unpublish") <=> hd[h].op = "unpublish"
      BY <2>2, <3>1, <3>2 DEF Busy, CommonInv, HandlerInv, Idle
    <3>5. /\ hd[h].op = "expand" => kubelet'[n] = kubelet[n]
          /\ hd[h].op \in {"stage", "unstage"} =>
               kubelet'[n].staged = "maybe" /\ kubelet'[n].published = kubelet[n].published
          /\ hd[h].op \in {"publish", "unpublish"} =>
               kubelet'[n].published = "maybe" /\ kubelet'[n].staged = kubelet[n].staged
      BY <1>1, <2>2, AnswerMeans
    <3>6. /\ staged[n] => kubelet'[n].staged # "no"
          /\ target[n] # << >> => kubelet'[n].published # "no"
      BY <2>0, <3>2, <3>3, <3>5 DEF MountInv, Ops
    <3>7. kubelet'[n].published # "no" => kubelet'[n].staged = "yes"
      BY <2>0, <2>2, <3>2, <3>5 DEF MountInv, CallInv, Ops
    <3>8. running[n] => wanted[n] /\ kubelet'[n].published = "yes"
      BY <2>0, <2>2, <3>2, <3>4, <3>5 DEF MountInv, CallInv, Ops
    <3> QED
      BY <1>1, <1>3, <2>0, <3>6, <3>7, <3>8 DEF MountInv, Ops
  <2> QED
    BY <2>1, <2>2, KilledCall
<1>6. ASSUME NEW m \in Nodes, m # n PROVE MountInv(m)'
  <2>1. MountInv(m)
    BY DEF SerialInv
  <2> QED
    BY <1>1, <1>2, <1>6, <2>1 DEF MountInv, Ops
<1>7. ASSUME NEW g \in Slots PROVE CallInv(g)'
  <2>1. CASE NodeOf[g] = n
    BY <1>1, <2>1 DEF CallInv, Idle
  <2>2. CASE NodeOf[g] # n
    BY <1>1, <1>2, <2>2, SlotNode DEF CallInv, SerialInv
  <2> QED
    BY <2>1, <2>2
<1> QED
  BY <1>4, <1>5, <1>6, <1>7 DEF SerialInv

LEMMA SerialReboot ==
    ASSUME CommonInv, SerialInv, NEW n \in Nodes, Reboot(n)
    PROVE  SerialInv'
<1> HIDE DEF vars, attachment, process, node
<1>1. /\ \A g \in Slots : hd'[g] = IF NodeOf[g] = n THEN Idle ELSE hd[g]
      /\ ~staged'[n] /\ target'[n] = << >> /\ kubelet'[n] = Nothing /\ ~running'[n]
      /\ \A m \in Nodes : m # n => /\ staged'[m] = staged[m] /\ target'[m] = target[m]
                                   /\ kubelet'[m] = kubelet[m] /\ running'[m] = running[m]
      /\ UNCHANGED <<wanted, disk>>
  BY DEF Reboot, HandlersDie, CommonInv, TypeOK, NodeTypeOK
<1>2. ASSUME NEW m \in Nodes, m # n, NEW op \in Ops
      PROVE  /\ Busy(m, op)' <=> Busy(m, op)
             /\ Answering(m, op)' <=> Answering(m, op)
  BY <1>1, <1>2 DEF Busy, Answering
<1>3. DataInv'
  BY <1>1 DEF SerialInv, DataInv
<1>4. MountInv(n)'
  <2>1. target'[n] # <<"volume">>
    BY <1>1
  <2> QED
    BY <1>1, <2>1 DEF MountInv, Nothing
<1>5. ASSUME NEW m \in Nodes, m # n PROVE MountInv(m)'
  <2>1. MountInv(m)
    BY DEF SerialInv
  <2> QED
    BY <1>1, <1>2, <1>5, <2>1 DEF MountInv, Ops
<1>6. ASSUME NEW g \in Slots PROVE CallInv(g)'
  <2>1. CASE NodeOf[g] = n
    BY <1>1, <2>1 DEF CallInv, Idle
  <2>2. CASE NodeOf[g] # n
    BY <1>1, <2>2, SlotNode DEF CallInv, SerialInv
  <2> QED
    BY <2>1, <2>2
<1> QED
  BY <1>3, <1>4, <1>5, <1>6 DEF SerialInv

\* Pods come, start and go, and write.
LEMMA SerialPods ==
    ASSUME CommonInv, SerialInv, NEW n \in Nodes,
           Schedule(n) \/ Unschedule(n) \/ StartPod(n) \/ PodWrites(n)
    PROVE  SerialInv'
<1> HIDE DEF vars, attachment, process
<1>1. UNCHANGED <<staged, target, hd, kubelet>> /\ TypeOK
  BY DEF Schedule, Unschedule, StartPod, PodWrites, CommonInv
<1>2. disk'.fs = disk.fs /\ DataInv'
  <2>1. CASE PodWrites(n)
    <3>1. target[n] = <<"volume">>
      <4>1. target[n] \in {<< >>, <<"volume">>, <<"node">>} /\ target[n] # << >>
        BY <2>1 DEF PodWrites, OnVolume, Mounted, SerialInv, MountInv
      <4>2. target[n] = <<"node">> => target[n][Len(target[n])] = "node"
        OBVIOUS
      <4> QED
        BY <2>1, <4>1, <4>2 DEF PodWrites, OnVolume
    <3>2. disk.fs # 0
      BY <3>1 DEF SerialInv, MountInv
    <3>3. disk'.fs = disk.fs
      BY <1>1, <2>1 DEF PodWrites, TypeOK, NodeTypeOK
    <3> QED
      BY <3>2, <3>3 DEF DataInv
  <2>2. CASE UNCHANGED disk
    BY <2>2 DEF SerialInv, DataInv
  <2> QED
    BY <2>1, <2>2 DEF Schedule, Unschedule, StartPod
<1>3. \A m \in Nodes : running'[m] => /\ wanted'[m] /\ kubelet[m].published = "yes"
                                     /\ ~Busy(m, "unpublish")
  <2>1. \A m \in Nodes : running[m] => /\ wanted[m] /\ kubelet[m].published = "yes"
                                      /\ ~Busy(m, "unpublish")
    BY DEF SerialInv, MountInv
  <2>2. StartPod(n) => ~Busy(n, "unpublish")
    BY DEF StartPod, SerialInv, CallInv, Busy, Waiting, CommonInv, HandlerInv, Idle
  <2> QED
    BY <1>1, <2>1, <2>2 DEF Schedule, Unschedule, StartPod, PodWrites, pods, TypeOK
<1>4. ASSUME NEW m \in Nodes PROVE MountInv(m)'
  <2>1. MountInv(m)
    BY DEF SerialInv
  <2>2. \A op \in Ops : /\ Busy(m, op)' <=> Busy(m, op)
                        /\ Answering(m, op)' <=> Answering(m, op)
    BY <1>1 DEF Busy, Answering
  <2> QED
    BY <1>1, <1>2, <1>3, <2>1, <2>2 DEF MountInv, Ops
<1>5. ASSUME NEW g \in Slots PROVE CallInv(g)'
  BY <1>1, <1>2 DEF CallInv, SerialInv
<1> QED
  BY <1>2, <1>4, <1>5 DEF SerialInv

LEMMA SerialNext ==
    ASSUME ~Overlap, CommonInv, SerialInv, [Next]_vars
    PROVE  SerialInv'
<1>1. CASE UNCHANGED vars
  BY <1>1, SerialFrame
<1>2. ASSUME NEW h \in Slots, Step(h) \/ Calls(h) \/ GiveUp(h) PROVE SerialInv'
  BY <1>2, SerialStep, SerialCall DEF GiveUp
<1>3. ASSUME NEW n \in Nodes,
             \/ PluginStep(n) \/ PluginFails(n) \/ AttachStep(n) \/ ConfirmReleased(n)
      PROVE  SerialInv'
  BY <1>3, SerialFrame DEF PluginStep, PluginFails, AttachStep, ConfirmReleased
<1>4. CASE Grow \/ NodeExpansionRequired
  BY <1>4, SerialFrame DEF Grow, NodeExpansionRequired
<1>5. ASSUME NEW n \in Nodes,
             \/ PluginKilled(n) \/ Reboot(n)
             \/ Schedule(n) \/ Unschedule(n) \/ StartPod(n) \/ PodWrites(n)
      PROVE  SerialInv'
  BY <1>5, SerialKilled, SerialReboot, SerialPods
<1> QED
  BY <1>1, <1>2, <1>3, <1>4, <1>5 DEF Next

LEMMA SerialInit == Init => SerialInv
BY SlotNode DEF Init, NodeInit, SerialInv, DataInv, MountInv, CallInv, Busy, Answering,
   Idle, Nothing

LEMMA SerialAlways == ASSUME ~Overlap PROVE Spec => [](CommonInv /\ SerialInv)
<1>1. Init => CommonInv /\ SerialInv
  BY CommonInit, SerialInit
<1>2. CommonInv /\ SerialInv /\ [Next]_vars => (CommonInv /\ SerialInv)'
  BY CommonNext, SerialNext
<1> QED
  BY <1>1, <1>2, PTL DEF Spec

\* Without calls that overlap, the volume leaves a node only when nothing of it is
\* mounted there: a mount is always known to the kubelet, or about to be, and the
\* volume stays with a node whose kubelet has not finished with it.
THEOREM UnmountedBeforeDetached == ASSUME ~Overlap PROVE Spec => []DetachedIsUnmounted
<1>1. ASSUME CommonInv, SerialInv, NEW n \in Nodes, InUse(n)
      PROVE  holder = n /\ want[n] = "attached"
  <2>1. staged[n] \/ target[n] # << >>
    <3>1. Len(<< >>) = 0
      OBVIOUS
    <3> QED
      BY <1>1, <3>1 DEF InUse
  <2>2. \/ kubelet[n].staged # "no" \/ kubelet[n].published # "no"
        \/ Answering(n, "stage") \/ Answering(n, "publish")
    BY <1>1, <2>1 DEF SerialInv, MountInv
  <2>3. Answering(n, "stage") \/ Answering(n, "publish") => Waiting(n)
    BY <1>1 DEF SerialInv, CallInv, Answering, Waiting
  <2> QED
    BY <1>1, <2>2, <2>3 DEF CommonInv, KubeletInv, AttachInv, Nothing
<1>2. CommonInv /\ SerialInv => DetachedIsUnmounted
  BY <1>1 DEF DetachedIsUnmounted
<1> QED
  BY <1>2, SerialAlways, PTL

\* Without calls that overlap, a kubelet is right to believe that the volume is gone: a
\* mount that it does not know of has a handler that is about to answer, and no handler
\* runs on a node whose kubelet waits for none.
THEOREM ReleasedMeansGone == ASSUME ~Overlap PROVE Spec => []NothingLeftBehind
<1>1. ASSUME CommonInv, SerialInv, NEW n \in Nodes, Released(n)
      PROVE  ~staged[n] /\ target[n] = << >>
  <2>1. kubelet[n].staged = "no" /\ kubelet[n].published = "no" /\ ~Waiting(n)
    BY <1>1 DEF Released, Nothing
  <2>2. ~Answering(n, "stage") /\ ~Answering(n, "publish")
    BY <1>1, <2>1 DEF SerialInv, CallInv, Answering, Waiting
  <2> QED
    BY <1>1, <2>1, <2>2 DEF SerialInv, MountInv
<1>2. CommonInv /\ SerialInv => NothingLeftBehind
  BY <1>1 DEF NothingLeftBehind
<1> QED
  BY <1>2, SerialAlways, PTL

\* Without calls that overlap, and with a blkid that tells, what a pod has written stays: a
\* volume with data is formatted, so that no stage formats it, and os.RemoveAll is
\* called only on a path that has nothing mounted.
THEOREM DataStays == ASSUME ~Overlap, ~BlkidUnsure PROVE Spec => DataKept
<1>1. ASSUME ~BlkidUnsure, CommonInv, SerialInv, [Next]_vars, disk.data PROVE disk'.data
  <2> HIDE DEF vars, attachment, process, pods
  <2>1. disk \in [fs : Sizes \cup {0}, data : BOOLEAN] /\ disk.fs # 0
    BY <1>1 DEF CommonInv, TypeOK, NodeTypeOK, SerialInv, DataInv
  <2>2. ASSUME NEW h \in Slots, NodeStep(h) PROVE disk'.data
    <3>1. ~StageMkfs(h)
      BY <1>1, <2>1 DEF StageMkfs, At, SerialInv, CallInv
    <3>2. UnpublishRemoveAll(h) => disk' = disk
      BY <1>1 DEF UnpublishRemoveAll, At, SerialInv, CallInv, OnVolume, Mounted
    <3>3. ExpandResize(h) => disk'.data
      BY <1>1, <2>1 DEF ExpandResize
    <3> QED
      BY <1>1, <2>2, <3>1, <3>2, <3>3
         DEF NodeStep, StagePath, StageBlkid, StageFindmnt, StageMount, UnstageFindmnt,
         UnstageUmount, PublishMkdir, PublishFindmnt, PublishBind, UnpublishFindmnt,
         UnpublishUmount, UnpublishRmdir, ExpandGet, ExpandBlkid, Reply
  <2>3. ASSUME NEW n \in Nodes, PodWrites(n) PROVE disk'.data
    BY <2>1, <2>3 DEF PodWrites
  <2>4. CASE UNCHANGED disk
    BY <1>1, <2>4
  <2> QED
    BY <1>1, <2>2, <2>3, <2>4
       DEF Next, Step, Calls, CallStage, CallPublish, CallExpand, CallUnpublish, CallUnstage,
       Call, GiveUp, PluginStep, PluginFails, PluginKilled, Reboot, Schedule, Unschedule,
       StartPod, AttachStep, ConfirmReleased, Grow, NodeExpansionRequired, vars, node
<1>2. ~BlkidUnsure /\ CommonInv /\ SerialInv /\ [Next]_vars
      => [disk.data => disk'.data]_vars
  BY <1>1
<1> QED
  BY <1>2, SerialAlways, PTL DEF Spec, DataKept

---------------------------------------------------------------------------
(* Kubelets that wait, and tools that work.                                *)

\* A command does what its answer says.
LEMMA ToolsStep ==
    ASSUME ~ToolsFail, CommonInv, SerialInv, SerialInv', ToolsInv, NEW h \in Slots, Step(h)
    PROVE  ToolsInv'
<1> DEFINE n == NodeOf[h]
<1> HIDE DEF vars, attachment, process, node, mounts, told
<1>1. NodeStep(h) /\ n \in Nodes /\ TypeOK /\ size # 0
  BY OneStep, SizesAreNumbers DEF Step, CommonInv, TypeOK
<1>2. \A g \in Slots : g # h => hd[g] = Idle /\ hd'[g] = Idle
  BY OneStep
<1>3. holder = n /\ hd[h].awaited /\ hd[h].op # "none"
  BY OneStep DEF Ops
<1>4. \A label \in Labels : Goto(h, label) =>
        /\ hd'[h].op = hd[h].op /\ hd'[h].awaited /\ hd'[h].pc = label
        /\ kubelet' = kubelet
  BY OneStep
<1>5. Error(h) => hd'[h] = Idle /\ kubelet' = kubelet
  BY OneStep
<1>6. /\ Answering(n, "unstage") <=> hd[h].op = "unstage" /\ hd[h].pc = "reply"
      /\ Answering(n, "unstage")' <=> hd'[h].op = "unstage" /\ hd'[h].pc = "reply"
  BY OneStep DEF Ops
<1>7. /\ staged \in [Nodes -> BOOLEAN] /\ target \in [Nodes -> Seq({"volume", "node"})]
      /\ disk \in [fs : Sizes \cup {0}, data : BOOLEAN]
  BY <1>1 DEF TypeOK, NodeTypeOK
<1>8. MountInv(n) /\ CallInv(h) /\ DoneInv(n) /\ WorkInv(h) /\ MountInv(n)' /\ CallInv(h)'
  BY <1>1 DEF SerialInv, ToolsInv
<1> DEFINE Emptying == hd[h].op = "unpublish" /\ hd[h].pc \in {"rmdir", "reply"}
           Emptied == hd'[h].op = "unpublish" /\ hd'[h].pc \in {"rmdir", "reply"}
<1>9. /\ kubelet[n].staged = "yes" => staged[n] \/ (hd[h].op = "unstage" /\ hd[h].pc = "reply")
      /\ kubelet[n].published = "yes" => target[n] # << >> \/ Emptying
  BY <1>2, <1>6, <1>8 DEF DoneInv, Idle
<1>10. ASSUME /\ target'[n] # <<"node">>
              /\ kubelet'[n].staged = "yes" =>
                   staged'[n] \/ (hd'[h].op = "unstage" /\ hd'[h].pc = "reply")
              /\ kubelet'[n].published = "yes" => target'[n] # << >> \/ Emptied
       PROVE  DoneInv(n)'
  BY <1>6, <1>10 DEF DoneInv
<1> DEFINE Kept == DoneInv(n)' /\ WorkInv(h)'
<1>11. Kept
  <2> USE <1>1, <1>3, <1>8 DEF At, OK, LookFails, Idle, mounts
  <2>1. CASE UNCHANGED <<disk, staged, target>> /\ Error(h) /\ hd[h].pc # "reply" /\ ~Emptying
    <3>1. DoneInv(n)'
      BY <1>5, <1>9, <1>10, <2>1 DEF DoneInv
    <3>2. WorkInv(h)'
      BY <1>5, <2>1 DEF WorkInv
    <3> QED
      BY <3>1, <3>2
  <2>2. ASSUME UNCHANGED <<disk, staged, target>>, NEW label \in Labels, Goto(h, label),
               hd[h].pc # "reply", Emptying => label = "reply",
               hd[h].op = "stage" => label # "reply",
               hd[h].op = "stage" /\ label \in {"findmnt", "mount"} => disk.fs # 0,
               hd[h].op = "publish" /\ label = "reply" => target[n] # << >>
        PROVE  Kept
    <3>1. DoneInv(n)'
      BY <1>4, <1>9, <1>10, <2>2 DEF DoneInv
    <3>2. WorkInv(h)'
      BY <1>4, <2>2 DEF WorkInv
    <3> QED
      BY <3>1, <3>2
  <2> HIDE DEF Kept
  <2> SUFFICES Kept
    OBVIOUS
  <2> USE DEF Labels
  <2>3. CASE StagePath(h)
    BY <2>1, <2>2, <2>3 DEF StagePath
  <2>4. CASE StageBlkid(h)
    BY <2>1, <2>2, <2>4 DEF StageBlkid, Formatted
  <2>5. CASE StageFindmnt(h)
    BY <2>1, <2>2, <2>5 DEF StageFindmnt, DeviceMounted, WorkInv
  <2>6. CASE UnstageFindmnt(h)
    BY <2>1, <2>2, <2>6 DEF UnstageFindmnt
  <2>7. CASE PublishMkdir(h)
    BY <2>1, <2>2, <2>7 DEF PublishMkdir
  <2>8. CASE PublishFindmnt(h)
    BY <2>1, <2>2, <2>8 DEF PublishFindmnt, Mounted
  <2>9. CASE UnpublishFindmnt(h)
    BY <2>1, <2>2, <2>9 DEF UnpublishFindmnt
  <2>10. CASE ExpandGet(h) \/ ExpandBlkid(h)
    BY <2>1, <2>2, <2>10 DEF ExpandGet, ExpandBlkid
  <2>11. CASE UnpublishRmdir(h) \/ UnpublishRemoveAll(h)
    <3>1. target[n] = << >>
      BY <2>11 DEF UnpublishRmdir, UnpublishRemoveAll, CallInv
    <3>2. OK(h) /\ UNCHANGED <<disk, staged, target>>
      BY <2>11, <3>1 DEF UnpublishRmdir, UnpublishRemoveAll, Remove, CanRemove, Mounted, OnVolume
    <3>3. hd[h].op = "unpublish" /\ hd[h].pc # "reply"
      BY <2>11 DEF UnpublishRmdir, UnpublishRemoveAll
    <3> QED
      BY <2>2, <3>2, <3>3
  <2>12. CASE StageMkfs(h)
    <3>1. UNCHANGED <<staged, target>> /\ Goto(h, "findmnt")
          /\ hd[h].op = "stage" /\ hd[h].pc = "mkfs"
      BY <2>12 DEF StageMkfs
    <3>2. disk'.fs # 0
      <4>1. CASE CanFormat(n)
        BY <2>12, <4>1 DEF StageMkfs
      <4>2. CASE ~CanFormat(n)
        <5>1. staged[n] \/ target[n] # << >>
          BY <4>2 DEF CanFormat, Device, InUse
        <5>2. staged[n] \/ target[n] = <<"volume">>
          BY <5>1 DEF MountInv, DoneInv
        <5> QED
          BY <2>12, <4>2, <5>2 DEF StageMkfs, MountInv
      <4> QED
        BY <4>1, <4>2
    <3>3. DoneInv(n)'
      BY <1>4, <1>9, <1>10, <3>1 DEF DoneInv
    <3>4. WorkInv(h)'
      BY <1>4, <3>1, <3>2 DEF WorkInv
    <3> QED
      BY <3>3, <3>4 DEF Kept
  <2>13. CASE StageMount(h)
    <3>1. UNCHANGED <<disk, target>> /\ Goto(h, "reply")
          /\ hd[h].op = "stage" /\ hd[h].pc = "mount"
      BY <2>13 DEF StageMount, StageReply
    <3>2. disk.fs # 0
      BY <3>1 DEF WorkInv
    <3>3. staged'[n]
      BY <1>7, <2>13, <3>2 DEF StageMount, CanMount, Formatted, Device
    <3>4. DoneInv(n)'
      BY <1>4, <1>9, <1>10, <3>1, <3>3 DEF DoneInv
    <3>5. WorkInv(h)'
      BY <1>4, <3>1, <3>3 DEF WorkInv
    <3> QED
      BY <3>4, <3>5 DEF Kept
  <2>14. CASE UnstageUmount(h)
    <3>1. UNCHANGED <<disk, target>> /\ hd[h].op = "unstage" /\ hd[h].pc = "umount"
      BY <2>14 DEF UnstageUmount
    <3>2. Goto(h, "reply") \/ (UNCHANGED staged /\ Error(h))
      BY <2>14 DEF UnstageUmount
    <3>3. DoneInv(n)'
      BY <1>4, <1>5, <1>9, <1>10, <3>1, <3>2 DEF DoneInv
    <3>4. WorkInv(h)'
      BY <1>4, <1>5, <3>1, <3>2 DEF WorkInv
    <3> QED
      BY <3>3, <3>4 DEF Kept
  <2>15. CASE PublishBind(h)
    <3>1. UNCHANGED <<disk, staged>> /\ Goto(h, "reply")
          /\ hd[h].op = "publish" /\ hd[h].pc = "bind"
      BY <2>15 DEF PublishBind
    <3>2. target[n] = << >> /\ staged[n]
      BY <1>9, <3>1 DEF CallInv
    <3>3. target'[n] = <<"volume">>
      BY <1>7, <2>15, <3>2 DEF PublishBind, BindSource
    <3>4. target'[n] # << >> /\ target'[n] # <<"node">>
      BY <3>3
    <3>5. DoneInv(n)'
      BY <1>4, <1>9, <1>10, <3>1, <3>4 DEF DoneInv
    <3>6. WorkInv(h)'
      BY <1>4, <3>1, <3>4 DEF WorkInv
    <3> QED
      BY <3>5, <3>6 DEF Kept
  <2>16. CASE UnpublishUmount(h)
    <3>1. UNCHANGED <<disk, staged>> /\ hd[h].op = "unpublish" /\ hd[h].pc = "umount"
      BY <2>16 DEF UnpublishUmount
    <3>2. Goto(h, "rmdir") \/ (UNCHANGED target /\ Error(h))
      BY <2>16 DEF UnpublishUmount
    <3>3. target'[n] # <<"node">>
      <4>1. UNCHANGED target => target'[n] # <<"node">>
        BY DEF DoneInv
      <4>2. Goto(h, "rmdir") => target'[n] = << >>
        BY <1>4, <3>1 DEF CallInv
      <4>3. << >> # <<"node">>
        OBVIOUS
      <4> QED
        BY <3>2, <4>1, <4>2, <4>3
    <3>4. DoneInv(n)'
      BY <1>4, <1>5, <1>9, <1>10, <3>1, <3>2, <3>3 DEF DoneInv
    <3>5. WorkInv(h)'
      BY <1>4, <1>5, <3>1, <3>2 DEF WorkInv
    <3> QED
      BY <3>4, <3>5 DEF Kept
  <2>17. CASE ExpandResize(h)
    <3>1. UNCHANGED <<staged, target>> /\ hd[h].op = "expand"
      BY <2>17 DEF ExpandResize
    <3>2. Goto(h, "reply") \/ Error(h)
      BY <2>17 DEF ExpandResize, ResizeError
    <3>3. DoneInv(n)'
      BY <1>4, <1>5, <1>9, <1>10, <3>1, <3>2 DEF DoneInv
    <3>4. WorkInv(h)'
      BY <1>4, <1>5, <3>1, <3>2 DEF WorkInv
    <3> QED
      BY <3>3, <3>4 DEF Kept
  <2>18. CASE Reply(h)
    <3>1. UNCHANGED <<disk, staged, target>> /\ hd'[h] = Idle /\ hd[h].pc = "reply"
      BY <2>18 DEF Reply, TypeOK, NodeTypeOK
    <3>2. kubelet' = Believes(h, IF hd[h].op \in {"stage", "publish"} THEN "yes" ELSE "no")
      BY <2>18 DEF Reply
    <3>3. /\ hd[h].op = "expand" => kubelet' = kubelet
          /\ hd[h].op = "stage" => kubelet'[n].published = kubelet[n].published
          /\ hd[h].op = "unstage" => /\ kubelet'[n].staged = "no"
                                     /\ kubelet'[n].published = kubelet[n].published
          /\ hd[h].op = "publish" => kubelet'[n].staged = kubelet[n].staged
          /\ hd[h].op = "unpublish" => /\ kubelet'[n].published = "no"
                                       /\ kubelet'[n].staged = kubelet[n].staged
      BY <3>2, AnswerMeans
    <3>4. hd[h].op \in Ops
      BY DEF TypeOK, NodeTypeOK, Ops
    <3>5. kubelet'[n].staged = "yes" => staged'[n]
      BY <1>9, <3>1, <3>3, <3>4 DEF WorkInv, CallInv, Ops
    <3>6. kubelet'[n].published = "yes" => target'[n] # << >>
      BY <1>9, <3>1, <3>3, <3>4 DEF WorkInv, CallInv, Ops
    <3>7. DoneInv(n)'
      BY <1>10, <3>1, <3>5, <3>6 DEF DoneInv
    <3>8. WorkInv(h)'
      BY <3>1 DEF WorkInv
    <3> QED
      BY <3>7, <3>8 DEF Kept
  <2> QED
    BY <2>3, <2>4, <2>5, <2>6, <2>7, <2>8, <2>9, <2>10, <2>11, <2>12, <2>13, <2>14,
       <2>15, <2>16, <2>17, <2>18 DEF NodeStep
<1>12. ASSUME NEW m \in Nodes, m # n PROVE DoneInv(m)'
  <2>1. staged'[m] = staged[m] /\ target'[m] = target[m]
    BY <1>1, <1>7, <1>12, NodeEffects
  <2>2. kubelet'[m] = kubelet[m]
    <3>1. \/ kubelet' = kubelet
          \/ kubelet' = Believes(h, IF hd[h].op \in {"stage", "publish"} THEN "yes" ELSE "no")
      BY <1>1, <1>4, <1>5, NodeMoves DEF Reply
    <3> QED
      BY <1>1, <1>3, <1>12, <3>1, AnswerMeans
  <2>3. ~Answering(m, "unstage")
    BY <1>2, <1>12 DEF Answering, Idle
  <2>4. \A g \in Slots : NodeOf[g] = m => hd[g] = Idle
    BY <1>2, <1>12
  <2>5. DoneInv(m)
    BY <1>12 DEF ToolsInv
  <2> QED
    BY <2>1, <2>2, <2>3, <2>4, <2>5 DEF DoneInv, Idle
<1>13. ASSUME NEW g \in Slots, g # h PROVE WorkInv(g)'
  BY <1>2, <1>13 DEF WorkInv, Idle
<1> QED
  BY <1>11, <1>12, <1>13 DEF ToolsInv

LEMMA ToolsFrame ==
    ASSUME ToolsInv, UNCHANGED <<staged, target, hd, kubelet>>, disk.fs # 0 => disk'.fs # 0
    PROVE  ToolsInv'
BY DEF ToolsInv, DoneInv, WorkInv, Answering

LEMMA ToolsCall ==
    ASSUME CommonInv, ToolsInv, NEW h \in Slots, Calls(h)
    PROVE  ToolsInv'
<1>1. PICK op \in Ops : Call(h, op)
  BY DEF Ops, Calls, CallStage, CallPublish, CallExpand, CallUnpublish, CallUnstage
<1>2. /\ hd'[h] = [op |-> op, pc |-> "begin", awaited |-> TRUE]
      /\ \A g \in Slots : g # h => hd'[g] = hd[g]
      /\ hd[h].pc = "idle"
      /\ UNCHANGED <<staged, target, kubelet, disk>>
  BY <1>1 DEF Call, CommonInv, TypeOK, NodeTypeOK
<1>3. ASSUME NEW m \in Nodes PROVE DoneInv(m)'
  <2>1. Answering(m, "unstage")' <=> Answering(m, "unstage")
    BY <1>2 DEF Answering
  <2>2. DoneInv(m)
    BY DEF ToolsInv
  <2> QED
    BY <1>2, <2>1, <2>2 DEF DoneInv
<1>4. ASSUME NEW g \in Slots PROVE WorkInv(g)'
  BY <1>2 DEF ToolsInv, WorkInv
<1> QED
  BY <1>3, <1>4 DEF ToolsInv

\* What a handler that is killed had done, but not answered, is uncertain.
LEMMA ToolsKilled ==
    ASSUME CommonInv, SerialInv, ToolsInv, NEW n \in Nodes, PluginKilled(n) \/ Reboot(n)
    PROVE  ToolsInv'
<1> HIDE DEF vars, attachment, process, pods, node
<1>1. /\ \A g \in Slots : hd'[g] = IF NodeOf[g] = n THEN Idle ELSE hd[g]
      /\ disk' = disk /\ TypeOK
      /\ \A m \in Nodes : m # n => staged'[m] = staged[m] /\ target'[m] = target[m]
  BY DEF PluginKilled, Reboot, HandlersDie, CommonInv, TypeOK, NodeTypeOK
<1>2. DoneInv(n)'
  <2>1. CASE Reboot(n)
    <3>1. target'[n] # <<"node">> /\ kubelet'[n] = Nothing
      BY <1>1, <2>1 DEF Reboot, TypeOK, NodeTypeOK
    <3> QED
      BY <3>1 DEF DoneInv, Nothing
  <2>2. CASE PluginKilled(n)
    <3>1. UNCHANGED <<staged, target>> /\ DoneInv(n)
      BY <2>2 DEF PluginKilled, ToolsInv
    <3>2. CASE ~Waiting(n) /\ kubelet' = kubelet
      <4>1. \A g \in Slots : NodeOf[g] = n => hd[g] = Idle
        BY <3>2 DEF SerialInv, CallInv, Waiting, CommonInv, HandlerInv
      <4> QED
        BY <3>1, <3>2, <4>1 DEF DoneInv, Answering, Idle
    <3>3. ASSUME NEW h \in Slots, NodeOf[h] = n, hd[h].awaited,
                 kubelet' = Believes(h, "maybe")
          PROVE  DoneInv(n)'
      <4>1. \A g \in Slots : NodeOf[g] = n /\ hd[g].pc # "idle" => g = h
        BY <3>3 DEF CommonInv, HandlerInv, SerialInv, CallInv
      <4>2. /\ Answering(n, "unstage") => hd[h].op = "unstage"
            /\ (\E g \in Slots : /\ NodeOf[g] = n /\ hd[g].op = "unpublish"
                                 /\ hd[g].pc \in {"rmdir", "reply"})
                 => hd[h].op = "unpublish"
        BY <4>1 DEF Answering
      <4>3. hd[h].op \in Ops
        BY <1>1, <3>3 DEF CommonInv, HandlerInv, SerialInv, CallInv, Idle, Ops, TypeOK, NodeTypeOK
      <4>4. /\ hd[h].op = "expand" => kubelet'[n] = kubelet[n]
            /\ hd[h].op \in {"stage", "unstage"} =>
                 kubelet'[n].staged = "maybe" /\ kubelet'[n].published = kubelet[n].published
            /\ hd[h].op \in {"publish", "unpublish"} =>
                 kubelet'[n].published = "maybe" /\ kubelet'[n].staged = kubelet[n].staged
        BY <1>1, <3>3, AnswerMeans
      <4>5. kubelet'[n].staged = "yes" => staged[n]
        BY <3>1, <4>2, <4>3, <4>4 DEF DoneInv, Ops
      <4>6. kubelet'[n].published = "yes" => target[n] # << >>
        BY <3>1, <4>2, <4>3, <4>4 DEF DoneInv, Ops
      <4> QED
        BY <3>1, <4>5, <4>6 DEF DoneInv
    <3> QED
      BY <2>2, <3>2, <3>3, KilledCall
  <2> QED
    BY <2>1, <2>2
<1>3. ASSUME NEW m \in Nodes, m # n PROVE DoneInv(m)'
  <2>1. kubelet'[m] = kubelet[m]
    <3>1. CASE PluginKilled(n)
      BY <1>1, <1>3, <3>1, KilledCall, AnswerMeans
    <3>2. CASE Reboot(n)
      BY <1>1, <1>3, <3>2 DEF Reboot, TypeOK, NodeTypeOK
    <3> QED
      BY <3>1, <3>2
  <2>2. DoneInv(m) /\ \A g \in Slots : NodeOf[g] = m => hd'[g] = hd[g]
    BY <1>1, <1>3 DEF ToolsInv
  <2> QED
    BY <1>1, <1>3, <2>1, <2>2 DEF DoneInv, Answering
<1>4. ASSUME NEW g \in Slots PROVE WorkInv(g)'
  <2>1. CASE NodeOf[g] = n
    BY <1>1, <2>1 DEF WorkInv, Idle
  <2>2. CASE NodeOf[g] # n
    BY <1>1, <2>2, SlotNode DEF WorkInv, ToolsInv
  <2> QED
    BY <2>1, <2>2
<1> QED
  BY <1>2, <1>3, <1>4 DEF ToolsInv

LEMMA ToolsNext ==
    ASSUME ~Overlap, ~ToolsFail, CommonInv, SerialInv, SerialInv', ToolsInv, [Next]_vars
    PROVE  ToolsInv'
<1>1. CASE UNCHANGED vars
  BY <1>1, ToolsFrame
<1>2. ASSUME NEW h \in Slots, Step(h) \/ Calls(h) \/ GiveUp(h) PROVE ToolsInv'
  BY <1>2, ToolsStep, ToolsCall DEF GiveUp
<1>3. ASSUME NEW n \in Nodes,
             \/ PluginStep(n) \/ PluginFails(n) \/ AttachStep(n) \/ ConfirmReleased(n)
             \/ Schedule(n) \/ Unschedule(n) \/ StartPod(n)
      PROVE  ToolsInv'
  BY <1>3, ToolsFrame DEF PluginStep, PluginFails, AttachStep, ConfirmReleased, Schedule,
     Unschedule, StartPod
<1>4. CASE Grow \/ NodeExpansionRequired
  BY <1>4, ToolsFrame DEF Grow, NodeExpansionRequired
<1>5. ASSUME NEW n \in Nodes, PluginKilled(n) \/ Reboot(n) PROVE ToolsInv'
  BY <1>5, ToolsKilled
<1>6. ASSUME NEW n \in Nodes, PodWrites(n) PROVE ToolsInv'
  <2>1. disk'.fs = disk.fs
    BY <1>6 DEF PodWrites, CommonInv, TypeOK, NodeTypeOK
  <2> QED
    BY <1>6, <2>1, ToolsFrame DEF PodWrites
<1> QED
  BY <1>1, <1>2, <1>3, <1>4, <1>5, <1>6 DEF Next

LEMMA ToolsInit == Init => ToolsInv
<1>1. << >> # <<"node">>
  OBVIOUS
<1> QED
  BY <1>1, SlotNode DEF Init, NodeInit, ToolsInv, DoneInv, WorkInv, Answering, Idle, Nothing

\* Without calls that overlap, and with tools that work, a running pod sees the volume on
\* its path, whatever restarts, reboots and errors came before: a publish binds
\* only what a stage has mounted, and the errors that the handlers ignore do not occur.
THEOREM PodSeesVolume == ASSUME ~Overlap, ~ToolsFail PROVE Spec => []PodOnVolume
<1>1. ASSUME CommonInv, SerialInv, ToolsInv, NEW n \in Nodes, running[n] PROVE OnVolume(n)
  <2>1. kubelet[n].published = "yes" /\ ~Busy(n, "unpublish")
    BY <1>1 DEF SerialInv, MountInv
  <2>2. target[n] # << >> /\ target[n] # <<"node">>
    BY <1>1, <2>1 DEF ToolsInv, DoneInv, Busy
  <2>3. target[n] = <<"volume">>
    BY <1>1, <2>2 DEF SerialInv, MountInv
  <2>4. <<"volume">>[Len(<<"volume">>)] = "volume"
    OBVIOUS
  <2> QED
    BY <2>2, <2>3, <2>4 DEF OnVolume, Mounted
<1>2. CommonInv /\ SerialInv /\ ToolsInv => PodOnVolume
  BY <1>1 DEF PodOnVolume
<1>3. /\ Init => ToolsInv
      /\ CommonInv /\ SerialInv /\ SerialInv' /\ ToolsInv /\ [Next]_vars => ToolsInv'
  BY ToolsInit, ToolsNext
<1> QED
  BY <1>2, <1>3, SerialAlways, PTL DEF Spec
===========================================================================
