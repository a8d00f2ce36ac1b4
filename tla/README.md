# Verification of civo-csi

TLA+ models of the Civo CSI driver, translated from `pkg/driver` and
`pkg/driver/hook`, model-checked with TLC and, in part, proved with TLAPS.
`PROJECT.json` lists the components, the runs, the mutants that show each
property can fail, the source lines behind each definition, the findings, the
hazards and the theorems.

## 1. The system

| part | state it keeps | operations |
|---|---|---|
| controller service, `controller_server.go` | none but `volumeCreateGroup` (singleflight, keyed by `req.Name`); the truth is in the Civo API | CreateVolume, DeleteVolume, ControllerPublish/Unpublish/ExpandVolume, ListVolumes, GetCapacity, ValidateVolumeCapabilities |
| node service, `node_server.go` | none; the truth is the node's device directory, mount table and disk | NodeStage/Unstage/Publish/Unpublish/ExpandVolume, statistics, NodeGetInfo |
| disk hot-plugger, `hotplug_disk.go` | none; runs blkid, mkfs, findmnt, mount, umount, resize2fs | PathForVolume, IsFormatted, Format, IsMounted, Mount, Unmount, ExpandFilesystem |
| PreStop hook, `hook/prestop.go` | a channel shared by the hook, the informer and its handler goroutine | PreStop |
| bootstrap and shutdown, `main.go`, `driver.go` | the context that a signal cancels, the gRPC server, the socket's file | NewDriver, Run, GracefulStop |
| identity service, `identity_server.go` | none | capabilities, Probe |

Interactions: the provisioner, attacher and resizer sidecars call the controller
service over gRPC, each with its own timeout (`deploy/kubernetes/04_controller.yaml`:
30 s, 30 s, 10 min) and a retry after an error; the handlers ignore their context,
so that a call that was given up runs on beside its retry. The controller service
calls the Civo API and learns the outcome by polling. The kubelet calls the node
service, one operation per volume at a time, also with a timeout and a retry. The
two services never talk to each other: the volume, which is a device on the node
that has it, is the only thing they share, and the attach/detach controller alone
sees to it that it leaves a node after the kubelet has done with it. The PreStop hook reads nodes and VolumeAttachments (VAs) from the
Kubernetes API; in this repository nothing but its tests calls it.

What is hard: decisions on a volume that was read some time earlier; handlers that
overlap with their own retries; answers that are lost and requests that arrive
late; a restart between two steps; errors that are dropped; events that come
before anybody listens. `PROJECT.json` lists each of these with its line.

What makes each part correct:

* CreateVolume: one volume per name, an answer that fits the request, every call
  returns, no volume is leaked.
* Attach side: the volume changes hands only on request; a confirmed attachment or
  release is true; every request is served in the end.
* ControllerExpandVolume: the capacity told is one the volume has, and enough.
* Node side: a running pod is on its volume and sees all of it, its data is kept, the
  volume leaves a node only when it is unmounted there, the capacity that a claim
  reports is usable, and a pod that stays scheduled starts.
* Processes: only a plugin that has started well answers calls; a signal ends it,
  whenever it comes, and does not cut its handlers off.
* Sizes: an answer tells a capacity that covers the request, and GetCapacity agrees
  with the quota check of CreateVolume.
* PreStop: nil only for a reason, in time, and no waiting for what has happened.

## 2. The modules

**`CreateVolume`** - CreateVolume, createVolumeUnsynced, DeleteVolume. `group` is
`volumeCreateGroup`; a caller's `pc` is where its handler is (`joined`: it waits for
its flight's leader); `List`, `Quota`, `New`, `Relist`, `Get`, `Wait` are the API
round trips of createVolumeUnsynced in order. `Finish` is the return of the flight:
the key is forgotten and every caller in it gets the one answer. `vol` is the
account at the API, `known` what the provisioner has saved, `orphans` are create
requests that outlived their handler. `UniqueNames` says whether the API rejects a
second volume of a name: the code handles the rejection
(`controller_server.go:148`) and does not rely on it.

**`IdempotentCreate`** - the abstract specification of CreateVolume and DeleteVolume: per
name, what there is of its volume, who waits for an answer, the last answers, and the
names that the provisioner has been told of. A volume comes into being only while its
name is asked for, one at a time, is told of only when it is available, and to all who
wait, and goes only when its deletion is asked for. `CreateVolume` implements it
(`Promise`) with ids, flights, retries and requests on their way hidden.

**`VolumeAttach`** - ControllerPublishVolume, ControllerUnpublishVolume and
ControllerExpandVolume on one volume, in one module because they share its status.
`hd` are the gRPC handlers, each at the API round trip it makes next; `va` is the
attacher's VolumeAttachment per node; `told` the last capacity told to the resizer.
With `Overlap` a sidecar may give up on a call that is still running; with `LateRequests`
AttachVolume, DetachVolume and ResizeVolume may fail in the client alone, their request
staying on its way (a slot in `"late"`) until the API takes or drops it, past the end of the
handler and of its process. The five-second
sleeps are the freedom of the API to act between two steps, or not to.

**`ExclusiveAttachment`** - the abstract specification of the attach side: `want`, what
was asked for and confirmed, and `holder`, the node that has the volume.
`VolumeAttach` implements it with `want` mapped to `va` and `holder` to the instance
of an attached or detaching volume.

**`VolumeSize`** - getVolSizeInBytes, the rounding up to gigabytes and the way back to
bytes, with a gigabyte of `BytesInGigabyte` bytes and signed numbers up to
`MaxInt64`. `CreateVolume` and `VolumeAttach` extend it: their requests are capacity
ranges in bytes.

**`NodeVolume`** - the five handlers of the node service on one volume, on every node of
the cluster, one action per command. `holder` is the node that has the device,
`disk` the volume's content (the size of its file system, and whether a pod has
written), `staged` and `target` the mounts of each node (`target` a stack, as bind
mounts pile up; an entry is the volume or, when the staging path is not mounted, the
node's own disk), `dir` the target directory, `kubelet` what each kubelet was told,
`claim` the size that the claim asks of the nodes and the one it reports. The answer
is an action of its own: a crash may come between the last command and it.

**`DriverProcess`** - main, Run and their goroutines, for every node plugin: a process is
starting, past a call of the start that failed (`failed`: `log.Fatal().Err(err)` without
`Msg` has not ended it), listening (Run has its listener, Serve has not begun) or serving;
`driver` and `cluster` say which of main's pointers are not nil, and a start that failed goes
on like any other up to the read of `cluster.VolumeType` by way of the driver; `ctx` is
the context that a signal cancels, `stopped` says that GracefulStop was called,
`socket` that the socket's file exists.

**`VolumeLifecycle`** - the composition: `NodeVolume` in the processes of `DriverProcess`,
over `ExclusiveAttachment` for the attach side, with the kubelets, the scheduler, the
attach/detach controller and the resizer, which decide who calls what and when. What
binds the parts: `holder` and `size` are the abstract attach side's, and say which
node's device directory has the volume; a handler runs in a process that serves,
and dies with it; a kubelet stages after the attachment is confirmed, and the volume
is asked back when no kubelet reports it in use. `VolumeAttach` implements the
attach side used here; the implementation is checked (`attach_serial`) and proved.

**`Cluster`** - the two services together: `VolumeAttach` itself in the place where
`VolumeLifecycle` has its promise, a VA being created for a scheduled pod and deleted when
the kubelet has released the volume. It has no definitions of handlers and no run of its
own: its steps are those of `VolumeAttach` and of `VolumeLifecycle`, which the runs of these
fire, and what the two make together is proved.

**`PreStopHook`** - PreStop, the informer and the handler goroutine. `view` is what the
informer has seen of each VA, `events` what it has queued, `closed` the channel.

**`MC*`** - constants and definitions for TLC. **`*_proofs`** - theorems; `Sums_proofs` has
the lemmas about sums over finite sets, `IdempotentCreate_proofs` the refinement of
`IdempotentCreate` by `CreateVolume`.

## 3. The runs

| run | what it asks | result |
|---|---|---|
| `create_retry` | retries, lost answers, restarts, a delete, an API that ignores names | one volume per name, large enough; right answers; every call returns, nothing leaked; implements `IdempotentCreate` |
| `create_conflict` | two sizes for one name, an API that rejects duplicates, late requests, creates that overrun the quota | every call returns; a leader's success fits its own request, also after a second list; GetCapacity and the quota check agree also with a negative rest |
| `create_shared_reply` | does everybody in a flight get an answer to its own request? | no: the key is the name, sizes may differ |
| `attach_serial` | attach, detach, resize, with failures and restarts, sidecars that wait | implements `ExclusiveAttachment`, so that what a publish was told is attached is; requests are served, handlers return |
| `attach_overlap` | the same with abandoned handlers, two resizers, late requests and a client that leaves the node out | capacity told is true, detach served |
| `attach_wrong_node` | is a volume detached only from the node asked for (`controller_server_test.go:186`)? | no: the check is stale at the detach |
| `prestop_wait` | VAs of two nodes, a failed list or a broken watch, tombstones, cancelled contexts | nil only for a reason; ends with the context; the deletion of a stored VA ends the wait, and its wakeup is lost nowhere between the goroutines |
| `prestop_lost_wakeup` | does the wait end when the VAs are gone (`prestop.go:25-26`)? | no: the last one may go before the informer's first list |
| `node_serial` | pods that move between two nodes, a volume that grows, kubelets that wait for every answer, working tools; a failure, a restart or a reboot | pod on its volume and sees all of it, data kept, the volume leaves a node unmounted, nothing of it is mounted where a kubelet has released it, reported capacity usable, pod starts |
| `node_overlap` | abandoned handlers, failing tools, plugins that fail to start, are signalled or killed | a signal ends the plugin and no handler; a start that goes on without driver or cluster never serves; an unpublish is answered over an empty path; the calls for a gone pod come to success |
| `node_mount_error` | is a failed mount noticed (`README.md:35`)? | no: the pod runs on the node's disk |
| `node_data_loss` | is data kept (`README.md:41`)? | no: an abandoned stage takes a vanished device for an unformatted one |

Four more places where the code and its docs or comments part have no run that
expects a violation:

* `README.md:59` lists as a known issue that ControllerPublishVolume "immediately returns
  success if the API succeeded". It does not: after the attach it reads the volume again and
  answers with an error unless it is attached to the node (`controller_server.go:379-396`).
  `PublishedStaysAttached` and `ImplementsExclusiveAttachment` pass because of that; the line
  is out of date.
* The condition at `controller_server.go:355` is inverted against its comment at 354-357 (an
  attaching volume is asked to be attached again, one that is detaching from the node is
  waited for).
* An unpublish with an empty node id returns success at 431 without the detach its comment
  at 437-438 describes.
* `node_server.go:58` asks whether the device path is a mount point, which it never is, so
  that a repeated stage mounts again and only the kernel refuses.

Five assumptions of the passing runs were tried out by giving up one at a time. TLC then
finds a counterexample, so that the properties could not be stated without them:

| instance | property | what happens |
|---|---|---|
| `create_retry` with `LateRequests = TRUE` | `OneVolumePerName` | a create request that outlives its handler adds a second volume to the retry's, one replica or not (`driver.go:49-53`), unless the API rejects it |
| `attach_serial` with `LateRequests = TRUE` | `ReleasedIsFree` | an unpublish finds nothing to detach and succeeds; then the attach request of a handler that has failed arrives |
| `node_data_loss` | `DetachedIsUnmounted` | an abandoned stage mounts after the unstage has found nothing mounted, and the volume is detached (`README.md:38-39`) |
| `node_data_loss` | `DataKept`, for `UnpublishRemoveAll` alone | an abandoned publish binds the volume between findmnt and RemoveAll (`node_server.go:192-193`), which removes its content |
| `prestop_wait` | a wait that a new list tells of the last delete ends | it comes as a DeletedFinalStateUnknown and is dropped (`prestop.go:151-154`): the hook waits for the end of its context. With the tombstone accepted, it ends |

`log.Fatal().Err(err)` without `Msg` at `main.go:37`, `45` and `64` does not exit. After the
first two main goes on with a nil pointer; what keeps a half-started driver from serving is
that the very next use of each pointer panics (`VolumeTypeRead`, `ServesOnlyConfigured`):
were the volume type not read from the cluster, it would serve. After the third, main
returns and the process ends with exit status 0.

What the kubelet believes and what is mounted are two questions. `ReleaseServed` says that
with abandoned handlers, too, the kubelet gets its successes; that they are true is
`NothingLeftBehind`, for kubelets that wait (with abandoned handlers an old stage or publish
may mount later, as the table shows), and, for whoever calls, `UnpublishLeavesNothing` at the
moment of the answer: an unpublish that meets two stacked bind mounts takes one off and
fails, until the path is empty.

The pairs belong together: the passing run shows under which conditions the
driver keeps its promise (`attach_serial`, `node_serial`: no abandoned handlers and no late
requests), the failing one that the condition is needed.

**Bounds.** Two callers of one name and a third of another name or size: a leader, a
follower and an outsider. `Ids` are never used up: three volumes cannot arise in
`create_retry` beyond one per name and the one allowed delete. `Retries = 2`, so
that there is a poll that is not the last. A gigabyte of four bytes and numbers up to
31: requests with and without a remainder, in a range of its own or none, and a
difference that would wrap if it were unsigned. Two nodes and two attach handlers: one
abandoned, one current; one resizer, and in `attach_overlap` two. In `node_serial` two nodes with a handler each,
as a kubelet makes one call at a time, and two sizes: the volume grows once; in
`node_overlap` one node with two handlers: one abandoned, one current. `MaxFaults`
(failed calls, lost answers, timeouts, restarts) is two, and one where the runs are
largest (`create_conflict`, `attach_overlap`, `prestop_wait`, `node_serial`): a failure, and
mostly one during its repair; each counterexample above needs at most two. In
`NodeVolume` `Len(target)` stays finite because every bind follows a look at the path.
PreStop: two VAs of the node (one event must not end the wait for the other) and, in
the runs about events, one of another node.

**Deadlock** is checked in the runs of `VolumeLifecycle`, where a pod always can be
scheduled or removed. Elsewhere the system comes to rest: every claim is served, or the
hook has returned.

## 4. Fairness

* Handlers and goroutines run: weak fairness of each one's steps. API calls return;
  an error is a fault of its own, never a fair outcome.
* The Civo API completes what it accepted (`ApiBecomesAvailable`, `Api`): the driver's
  polling has no other hope.
* No request is on its way for ever: it reaches the API or is dropped (`ComesLate`).
* The sidecars and the kubelet retry after an error: their work queues re-add a failed
  key, and the kubelet's volume manager reconciles for ever.
* In `VolumeLifecycle` each handler has weak fairness of its own, and so have the
  kubelets' calls, the plugins, the starts of pods and the attach side, each together:
  that one of them can go on is enough for it to go on. The release of an attachment
  is asked for again and again, until it is confirmed: strong fairness, because an
  attach that comes late undoes and renews what it waits for. That `VolumeAttach`
  serves its requests under weak fairness is checked in `attach_serial`.
* Nobody has to delete a VA, schedule or remove a pod, ask for a resize, end a context:
  those steps have no fairness, nor has a signal or the growth of a volume.
* Faults are bounded, so that liveness is about what happens once they stop.

## 5. What is proved

For every value of the constants (any number of callers, names, VAs, any bound):

* `CreateVolume_proofs!TypeCorrect`: from `TypeInv`, which adds to `TypeOK` that a
  handler past the create has a volume id (`CurIsId`), without which the vol' of the
  polling steps cannot be typed.
* `FollowersNeverAbandoned`: from `FlightInv`. `FollowersHaveLeader` is not inductive:
  one has to know that a working handler is the one the group holds for its name,
  so that the end of another name's flight does not clear this name's key.
* `NoDuplicateVolumes` (assuming `UniqueNames \/ ~LateRequests`) and
  `LookHoldsUntilCreate` (assuming `~LateRequests`): from `NameInv`. Without the API's
  help the argument is: no request is on its way without a handler, one handler
  works on a name (`FlightInv`), so that nothing is created between its list and its
  create. With it, the API's check is enough.
* `RepliesAreRight` (assuming callers of one name ask for one size): from `WorkInv` and
  `ReplyInv`, what a handler works on and what a reply says, which stay true because
  a volume keeps its name and size and never leaves `available` but to be deleted
  (`VolumesStep`). `create_shared_reply` shows that the assumption is needed.
* `CapacityTold` (assuming the numbers fit the width): from `RepliesAreRight` and two lemmas of
  `VolumeSize_proofs`, `RoundingUp` and `NoWrap`.
* `RangeKept`: a volume lies within the range it was asked with when the limit is a whole
  number of gigabytes. Without that it may be larger: the code looks at one bound only.
* `CapacityIsWhatTheQuotaAllows` (assuming that `CountLimit` volumes of `DiskLimit` gigabytes fit
  the width): the usage is a sum over the account, which may be overrun by racing creates,
  so that the rest told may be negative and must not wrap. `SpaceInv` bounds it: no volume,
  and no request at the create or on its way, is larger than the whole space, because each
  has passed the quota check at some time. The sum's own laws (`SumExists`, `SumBounds`) are
  proved in `Sums_proofs` by a smallest counterexample, as induction theorems with an
  operator parameter are out of the provers' reach. Ids need not be finitely many.
* `CreateIsIdempotent` (assuming `~LateRequests`; the API need not know of names): `CreateVolume`
  implements `IdempotentCreate`, one lemma per kind of step (`FinishShown`, `CreatesShown`,
  `ErrorShown`, `SuccessShown`, `GotoShown`). `PromiseInv` adds to the invariants of
  flights and names that a handler works on a volume it asked for (`WorkInv`, here without
  the assumption on sizes) and that nobody asks for a name that was told of (`BoundInv`):
  otherwise a second id could be told for it. A late request would show as a volume that
  nobody waits for.
* `LeadersAnswersFit` (no assumption on callers, late requests or the API): a leader's success is
  about its own name and size, from `WorkInv` alone. It is what `RepliesAreRight` loses when a
  follower asks for another size.
* `HandlersRunOut`, here and in `VolumeAttach_proofs`: a handler makes at most `Retries + 4`
  (attach side: `Retries + 3`) round trips. With the fairness of section 4 this is the
  reason for `EveryCallReturns` and `EveryHandlerReturns`, which themselves stay with TLC.
* `PreStopHook_proofs!TypeCorrect` and `NilOnlyWhenCleaned`: from `NilInv`, which adds that
  the channel is closed under a waiting hook only when the VAs were gone
  (`ClosedMeansCleaned`), and that the history variable is not behind the present.
* `WakeupKept`: the safety half of `WatchedCleanupEndsWait`, for any number of VAs. An event
  that is looked at too early finds another VA of the node, which is still to come before
  the informer's eyes; that needs that the informer is not ahead of the API (`ViewInv`).
* `VolumeAttach_proofs!TypeCorrect` and `ExpandToldIsTrue`, with abandoned handlers and late
  requests too: a size
  is told by a handler that saw the volume large enough, and volumes do not shrink;
  the invariant adds what a handler past its resize may rely on.
* `AttachmentsStay`, `ReleasesAreTrue` and `AttachmentImplemented` (assuming no abandoned
  handlers and no late requests): from `SerialInv`. Its parts are `PlaceInv` (one node has a VA, and the volume is
  with that node or none) and what each handler may rely on at its next round trip.
  `attach_wrong_node`, and for late requests the table of section 3, show that the
  assumptions are needed. The refinement has one step
  per action, mapped to a step of `ExclusiveAttachment` or a stutter; the two API calls
  that finish an attach and a detach are the ones that move `holder`.
* `DetachesAreRight` (same assumptions): a detach hits the node it was asked for, which fails in
  `attach_wrong_node` without it.
* `VolumeLifecycle_proofs!TypeCorrect`, `CapacityReported`, `StartedBeforeServing` and
  `CallsFinish`, with abandoned handlers and failing tools: from `CommonInv`.
  `CapacityIsUsable` is not inductive: a volume must not grow between the resize of the
  file system and its answer. That needs the way from the handler to the attach side:
  an awaited handler means that the attachment is confirmed (`KubeletInv`), which means
  that the node has the volume (`AttachInv`), and the volume grows only while no node has
  it. `CallsFinish` needs that handlers run only in plugins that serve (`HandlerInv`).
  `StartedBeforeServing` rests on `PluginInv`: a process listens only with both pointers, which
  holds because the one step that leads on from a failed call reads through both of them.
* `UnpublishEmpties`, with abandoned handlers and failing tools: among the commands of an
  unpublish the two that end in its answer are the two that remove the directory, and they
  do so only when nothing is mounted on it.
* `UnmountedBeforeDetached`, `ReleasedMeansGone`, `DataStays` (also assuming a blkid that tells)
  and `PodSeesVolume` (also assuming tools that work), for kubelets that wait: from `CommonInv`
  and `SerialInv`. None of the four is inductive. The argument: whoever waits for a handler
  keeps the attachment, so one handler is at work in the whole cluster (`OneHandler`);
  what is mounted on a node is known to its kubelet or about to be answered
  (`MountInv`), what a handler finds at a command is what it was called for
  (`CallInv`), a volume with data is formatted (`DataInv`). `PodSeesVolume` adds
  `ToolsInv`: what was answered as done is done. `node_data_loss` and
  `node_mount_error` show that the assumptions are needed.
* `Cluster_proofs!ClusterImplementsLifecycle` (assuming sidecars that wait and requests that end
  with them): `Cluster`
  implements `VolumeLifecycle`, by `AttachmentImplemented` and what the controller side never
  touches. With it the theorems of both sides are put together: `MountedStaysAttached`
  (kubelets that wait, too), `PodsHaveVolume` (and tools that work), `DataSurvives` (and a
  blkid that tells) and `ClaimsAreTrue` (kubelets may give up) speak of what the Civo API
  holds and of what pods see, which neither side alone can say. An intermediate step of
  their proofs is that a kubelet with mounts has not been asked back for the volume, which
  is why `DetachedIsUnmounted` says so.

The assumptions about the constants are those the modules state (`ASSUME`); TLC
evaluates them in every run.

Model-checked only: every liveness property (fairness and `ENABLED` are out of the
prover's reach). Of the invariants and of the properties of steps that the passing runs
check, every one is proved.

## 6. What the models assume, and leave out

* ListVolumes shows every volume the API has accepted. If it lagged behind, two
  sequential creates could double a volume without any late request.
* The API attaches and resizes free volumes only, resizes to what was asked, and marks
  the volume at once; a second attach to the same node may be accepted or rejected.
* A restart kills every handler of the process. One command is atomic. The kernel refuses
  to mount a device a second time on the same directory, mkfs refuses a device in use.
* A request that comes late is a fault of its own, of the create, attach, detach and resize
  calls. That its volume is meanwhile deleted
  and its id taken by another one is left out: ids are never used again.
* Requests that fail validation, log output, and codes of errors beyond those the
  properties tell apart.
* Corrupted mounts and read-only publishing are not modelled (`IsMounted` returns no
  error that `node_server.go:179-184` recognises).
* One pod at a time uses the volume on a node, so that a node has one target path.
* The attach/detach controller waits until the kubelet has released the volume; its
  forced detach after six minutes is left out, and breaks `DetachedIsUnmounted` by itself.
* `VolumeLifecycle` and `Cluster` use the attach side's promise, which `VolumeAttach` keeps
  without abandoned handlers and late requests only: `node_overlap` is about abandoned calls of
  the kubelets.
* A grown volume is grown while it is detached (`ControllerExpandVolume` is offline
  expansion), and a device shows its size as soon as it is attached.

### Not modelled

* Calls that only read: ListVolumes, ValidateVolumeCapabilities, NodeGetVolumeStats,
  NodeGetInfo, the capabilities. A hazard of theirs is listed in `PROJECT.json`.
* The identity service: constants and one ping. Snapshots: unimplemented in the code.
* The construction of the hook and its options: run once, before the hook, to make a client.
* Flags, environment and the record that NewDriver fills with them, the registration of the services, the test
  doubles (`FakeDiskHotPlugger`, `NewTestDriver`), the tests and the manifests.

## 7. Plan

Done: `CreateVolume` with `IdempotentCreate`, `VolumeSize`, `VolumeAttach` with
`ExclusiveAttachment`, `NodeVolume` and `DriverProcess` composed in `VolumeLifecycle`,
`Cluster`, `PreStopHook`; every safety property of the passing runs is proved.

Next: the bounds on the steps of the node service's handlers and the safety half of
`SignalStops`, as `HandlersRunOut` and `WakeupKept` are for theirs; what the abstract
specifications imply by themselves, such as that a name that was told of is never
given a second volume.
