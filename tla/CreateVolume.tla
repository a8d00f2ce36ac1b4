--------------------------- MODULE CreateVolume ---------------------------
(***************************************************************************)
(* Driver.CreateVolume and Driver.DeleteVolume of                          *)
(* pkg/driver/controller_server.go against the Civo API.                   *)
(*                                                                         *)
(* A caller is one retrying client of CreateVolume: a worker of the        *)
(* external-provisioner, or its retry after its own timeout while the      *)
(* handler of the first try still runs (the handler ignores its context).  *)
(* Handlers of one name are coalesced by a singleflight group; the leader  *)
(* runs createVolumeUnsynced, one action per API round trip, so that other *)
(* names, the API, a failed answer or a restart of the pod come between    *)
(* any two of its steps.  Requests that fail validation change no state    *)
(* and are left out.                                                       *)
(***************************************************************************)
EXTENDS VolumeSize, FiniteSets, FiniteSetsExt

CONSTANTS
    Callers,        \* clients of CreateVolume
    Names,          \* values of req.Name
    NameOf,         \* the name a caller asks for
    RangeOf,        \* the capacity range it asks for
    Ids,            \* volume ids the API may hand out (a bound, never used up)
    None,           \* no caller, no name, no id
    Retries,        \* CivoVolumeAvailableRetries
    DiskLimit,      \* quota.DiskGigabytesLimit
    CountLimit,     \* quota.DiskVolumeCountLimit
    UniqueNames,    \* the API rejects a second volume of a name
    LateRequests,   \* a create request may outlive the handler that sent it
    MaxFaults,      \* bound on failed calls, lost answers and restarts
    MaxDeletes      \* bound on deleted volumes

ASSUME NamesAssumption == None \notin Callers \cup Names \cup Ids
ASSUME RequestsAssumption == /\ NameOf \in [Callers -> Names]
                             /\ RangeOf \in [Callers -> CapacityRanges]
ASSUME RetriesAssumption == Retries \in Nat \ {0}
ASSUME FlagsAssumption == UniqueNames \in BOOLEAN /\ LateRequests \in BOOLEAN
ASSUME BoundsAssumption == /\ DiskLimit \in Nat /\ CountLimit \in Nat
                           /\ MaxFaults \in Nat /\ MaxDeletes \in Nat

VARIABLES
    vol,        \* the account's volumes: id -> status, name, size
    orphans,    \* callers with a create request still on its way to the API
    group,      \* volumeCreateGroup: name -> the caller that leads its flight
    pc,         \* where each caller's handler is
    cur,        \* the volume id the handler works on
    tries,      \* polls made by waitForVolumeStatus
    reply,      \* the last reply to each caller
    known,      \* ids the provisioner has recorded in a PersistentVolume
    faults      \* faults so far

vars == <<vol, orphans, group, pc, cur, tries, reply, known, faults>>

Codes == {"none", "OK", "AlreadyExists", "OutOfRange", "Unknown"}
Working == {"list", "quota", "new", "relist", "get", "wait"}

\* The bytes, and the size in GB, that each request asks for.
BytesOf == [c \in Callers |-> getVolSizeInBytes(RangeOf[c])]
SizeOf == [c \in Callers |-> DesiredSize(BytesOf[c])]

Err(code) == [code |-> code, id |-> None, bytes |-> 0]

Init ==
    /\ vol = [i \in Ids |-> [status |-> "unused", name |-> None, size |-> 0]]
    /\ orphans = {}
    /\ group = [n \in Names |-> None]
    /\ pc = [c \in Callers |-> "idle"]
    /\ cur = [c \in Callers |-> None]
    /\ tries = [c \in Callers |-> 0]
    /\ reply = [c \in Callers |-> Err("none")]
    /\ known = {}
    /\ faults = 0

---------------------------------------------------------------------------
(* The Civo API, as the driver uses it.                                    *)

Live(i) == vol[i].status \in {"creating", "available"}
Named(n) == {i \in Ids : Live(i) /\ vol[i].name = n}
Unused == {i \in Ids : vol[i].status = "unused"}
Usage == MapThenSumSet(LAMBDA i : vol[i].size, {i \in Ids : Live(i)})

ApiAccepts(n) == Unused # {} /\ (UniqueNames => Named(n) = {})

ApiCreate(c, i) ==
    /\ ApiAccepts(NameOf[c])
    /\ i \in Unused
    /\ vol' = [vol EXCEPT ![i] = [status |-> "creating", name |-> NameOf[c],
                                  size |-> SizeOf[c]]]

Fault == faults < MaxFaults /\ faults' = faults + 1

---------------------------------------------------------------------------
(* The singleflight group.                                                 *)

LeadsAlways(c) == TRUE
\* No handler of the name is in flight: this one leads.
Leads(c) == group[NameOf[c]] = None

FlightAlone(c) == {c}
\* The callers that get the leader's answer.
Flight(c) == {c} \cup {d \in Callers : pc[d] = "joined" /\ NameOf[d] = NameOf[c]}

\* The provisioner's worker has no PersistentVolume for its name yet.
Wants(c) == \A i \in known : vol[i].name # NameOf[c]

\* Caller c's request enters CreateVolume: it leads a flight or joins one.
Call(c) ==
    /\ pc[c] = "idle" /\ Wants(c)
    /\ IF Leads(c)
       THEN /\ group' = [group EXCEPT ![NameOf[c]] = c]
            /\ pc' = [pc EXCEPT ![c] = "list"]
       ELSE /\ pc' = [pc EXCEPT ![c] = "joined"]
            /\ UNCHANGED group
    /\ reply' = [reply EXCEPT ![c] = Err("none")]
    /\ UNCHANGED <<vol, orphans, cur, tries, known, faults>>

\* The leader's function returns: the key is forgotten, everybody in the
\* flight gets the answer, and a success is recorded by the provisioner.
Finish(c, r) ==
    /\ group' = [group EXCEPT ![NameOf[c]] = None]
    /\ pc' = [d \in Callers |-> IF d \in Flight(c) THEN "idle" ELSE pc[d]]
    /\ reply' = [d \in Callers |-> IF d \in Flight(c) THEN r ELSE reply[d]]
    /\ known' = IF r.code = "OK" THEN known \cup {r.id} ELSE known
    /\ cur' = [cur EXCEPT ![c] = None]
    /\ tries' = [tries EXCEPT ![c] = 0]

\* The leader goes on with volume i.
Goto(c, label, i) ==
    /\ pc' = [pc EXCEPT ![c] = label]
    /\ cur' = [cur EXCEPT ![c] = i]
    /\ UNCHANGED <<group, tries, reply, known>>

---------------------------------------------------------------------------
(* createVolumeUnsynced, one action per API call.                          *)

SizeIgnored(c, i) == TRUE
SizeMatchesInMB(c, i) == vol[i].size = SizeOf[c] * 1024
SizeMatches(c, i) == vol[i].size = SizeOf[c]

\* lookupExistingByName before a create.
List(c) ==
    /\ pc[c] = "list"
    /\ \/ /\ \E i \in Named(NameOf[c]) :
                IF SizeMatches(c, i) THEN Goto(c, "wait", i)
                                     ELSE Finish(c, Err("AlreadyExists"))
          /\ UNCHANGED faults
       \/ /\ Named(NameOf[c]) = {}
          /\ Goto(c, "quota", None)
          /\ UNCHANGED faults
       \/ Fault /\ Finish(c, Err("Unknown"))
    /\ UNCHANGED <<vol, orphans>>

Count == Cardinality({i \in Ids : Live(i)})

QuotaAllows(size) == Usage + size <= DiskLimit /\ Count < CountLimit

\* What GetCapacity answers: nothing at the count limit, else what is left of
\* the space, which is negative when it is overrun.
AvailableCapacity ==
    IF Count >= CountLimit THEN 0 ELSE CapacityBytes(DiskLimit - Usage)

Quota(c) ==
    /\ pc[c] = "quota"
    /\ \/ /\ IF QuotaAllows(SizeOf[c]) THEN Goto(c, "new", None)
                                       ELSE Finish(c, Err("OutOfRange"))
          /\ UNCHANGED faults
       \/ Fault /\ Finish(c, Err("Unknown"))
    /\ UNCHANGED <<vol, orphans>>

\* NewVolume: accepted; rejected for its name; rejected otherwise; accepted
\* but the answer lost; or given up on by the client and still on its way.
New(c) ==
    /\ pc[c] = "new"
    /\ \/ /\ \E i \in Ids : ApiCreate(c, i) /\ Goto(c, "get", i)
          /\ UNCHANGED <<orphans, faults>>
       \/ /\ UniqueNames /\ Named(NameOf[c]) # {}
          /\ Goto(c, "relist", None)
          /\ UNCHANGED <<vol, orphans, faults>>
       \/ /\ Fault /\ Finish(c, Err("Unknown"))
          /\ UNCHANGED <<vol, orphans>>
       \/ /\ Fault /\ Finish(c, Err("Unknown"))
          /\ \E i \in Ids : ApiCreate(c, i)
          /\ UNCHANGED orphans
       \/ /\ LateRequests
          /\ Fault /\ Finish(c, Err("Unknown"))
          /\ orphans' = orphans \cup {c}
          /\ UNCHANGED vol

\* The lookup after a duplicate-name error: whatever goes wrong in it, the
\* caller gets the original error.
Relist(c) ==
    /\ pc[c] = "relist"
    /\ \/ /\ \E i \in Named(NameOf[c]) :
                SizeMatches(c, i) /\ Goto(c, "wait", i)
          /\ UNCHANGED faults
       \/ /\ \A i \in Named(NameOf[c]) : ~SizeMatches(c, i)
          /\ Finish(c, Err("Unknown"))
          /\ UNCHANGED faults
       \/ Fault /\ Finish(c, Err("Unknown"))
    /\ UNCHANGED <<vol, orphans>>

\* GetVolume of the volume just created.
Get(c) ==
    /\ pc[c] = "get"
    /\ \/ /\ IF Live(cur[c]) THEN Goto(c, "wait", cur[c])
                             ELSE Finish(c, Err("Unknown"))
          /\ UNCHANGED faults
       \/ Fault /\ Finish(c, Err("Unknown"))
    /\ UNCHANGED <<vol, orphans>>

NotDeleted(i) == vol[i].status # "deleted"
Available(i) == vol[i].status = "available"
OneTryMore(c) == tries[c] = Retries
LastTry(c) == tries[c] + 1 = Retries

\* One poll of waitForVolumeStatus.
Wait(c) ==
    /\ pc[c] = "wait"
    /\ \/ /\ Available(cur[c])
          /\ Finish(c, [code |-> "OK", id |-> cur[c],
                        bytes |-> CapacityBytes(SizeOf[c])])
          /\ UNCHANGED faults
       \/ /\ ~Available(cur[c]) /\ (LastTry(c) \/ ~Live(cur[c]))
          /\ Finish(c, Err("Unknown"))
          /\ UNCHANGED faults
       \/ /\ ~Available(cur[c]) /\ Live(cur[c]) /\ ~LastTry(c)
          /\ tries' = [tries EXCEPT ![c] = @ + 1]
          /\ UNCHANGED <<group, pc, cur, reply, known, faults>>
       \/ Fault /\ Finish(c, Err("Unknown"))
    /\ UNCHANGED <<vol, orphans>>

---------------------------------------------------------------------------
(* DeleteVolume, the API's own steps, restarts.                            *)

Deleted == {i \in Ids : vol[i].status = "deleted"}

\* DeleteVolume of a volume whose PersistentVolume is released: one API call;
\* an already deleted volume is a success and changes nothing.
DeleteVolume(i) ==
    /\ i \in known /\ Live(i)
    /\ Cardinality(Deleted) < MaxDeletes
    /\ vol' = [vol EXCEPT ![i].status = "deleted"]
    /\ UNCHANGED <<orphans, group, pc, cur, tries, reply, known, faults>>

ApiBecomesAvailable(i) ==
    /\ vol[i].status = "creating"
    /\ vol' = [vol EXCEPT ![i].status = "available"]
    /\ UNCHANGED <<orphans, group, pc, cur, tries, reply, known, faults>>

\* A create request that outlived its handler reaches the API, or is dropped.
LateCreate(c) ==
    /\ c \in orphans
    /\ orphans' = orphans \ {c}
    /\ (\E i \in Ids : ApiCreate(c, i)) \/ UNCHANGED vol
    /\ UNCHANGED <<group, pc, cur, tries, reply, known, faults>>

\* The controller pod restarts: handlers and the singleflight group are gone;
\* a create request being sent may be left on its way.
Restart ==
    /\ \E c \in Callers : pc[c] # "idle"
    /\ Fault
    /\ group' = [n \in Names |-> None]
    /\ pc' = [c \in Callers |-> "idle"]
    /\ cur' = [c \in Callers |-> None]
    /\ tries' = [c \in Callers |-> 0]
    /\ reply' = [c \in Callers |-> Err("none")]
    /\ \E sent \in SUBSET {c \in Callers : LateRequests /\ pc[c] = "new"} :
          orphans' = orphans \cup sent
    /\ UNCHANGED <<vol, known>>

\* The provisioner restarts before it has saved the PersistentVolume.
Forget(i) ==
    /\ i \in known /\ Live(i)
    /\ Fault
    /\ known' = known \ {i}
    /\ UNCHANGED <<vol, orphans, group, pc, cur, tries, reply>>

---------------------------------------------------------------------------

Step(c) == List(c) \/ Quota(c) \/ New(c) \/ Relist(c) \/ Get(c) \/ Wait(c)

Next ==
    \/ \E c \in Callers : Call(c) \/ Step(c) \/ LateCreate(c)
    \/ \E i \in Ids : DeleteVolume(i) \/ ApiBecomesAvailable(i) \/ Forget(i)
    \/ Restart

Spec == Init /\ [][Next]_vars

\* A running handler goes on, the provisioner retries what it has no volume
\* for, and a volume being created becomes available.
Fairness ==
    /\ \A c \in Callers : WF_vars(Call(c)) /\ WF_vars(Step(c))
    /\ \A i \in Ids : WF_vars(ApiBecomesAvailable(i))

FairSpec == Spec /\ Fairness

---------------------------------------------------------------------------
(* Properties.                                                             *)

TypeOK ==
    /\ vol \in [Ids -> [status : {"unused", "creating", "available", "deleted"},
                        name : Names \cup {None}, size : Nat]]
    /\ orphans \subseteq Callers
    /\ group \in [Names -> Callers \cup {None}]
    /\ pc \in [Callers -> Working \cup {"idle", "joined"}]
    /\ cur \in [Callers -> Ids \cup {None}]
    /\ tries \in [Callers -> 0 .. Retries - 1]
    /\ reply \in [Callers -> [code : Codes, id : Ids \cup {None}, bytes : Int]]
    /\ known \subseteq Ids
    /\ faults \in 0 .. MaxFaults

\* The account never holds two live volumes of one name, whatever retries,
\* lost answers and restarts come between the list and the create
\* (the purpose of volumeCreateGroup, driver.go:47-54).
OneVolumePerName ==
    \A i, j \in Ids : Live(i) /\ Live(j) /\ vol[i].name = vol[j].name => i = j

\* A handler that joined a flight waits for a leader that is at work on the
\* same name: nobody waits for a flight that has landed or died.
FollowersHaveLeader ==
    \A c \in Callers : pc[c] = "joined" =>
        /\ group[NameOf[c]] \in Callers
        /\ pc[group[NameOf[c]]] \in Working
        /\ NameOf[group[NameOf[c]]] = NameOf[c]

\* A successful reply is about a volume of the requested name and size that
\* has been available, also when another caller's handler computed it
\* (CreateVolume's idempotency promise, controller_server.go:29-35, and the
\* size check of resolveExistingVolume, 190-198).
ReplyMatchesRequest ==
    \A c \in Callers : reply[c].code = "OK" =>
        LET v == vol[reply[c].id] IN
        /\ v.status \in {"available", "deleted"}
        /\ v.name = NameOf[c]
        /\ v.size = SizeOf[c] /\ reply[c].bytes = CapacityBytes(SizeOf[c])

\* A leader's own success is about an available volume of its name and size, whether it
\* created it, found it in the first list, or found it in the second one, which follows a
\* duplicate-name error and may show a volume that somebody else has made with another
\* size, or none (createVolumeUnsynced, controller_server.go:142-160).
LeaderReplyMatches ==
    [][\A c \in Callers :
          pc[c] \in Working /\ reply'[c] # reply[c] /\ reply'[c].code = "OK" =>
              LET v == vol[reply'[c].id] IN
              v.status = "available" /\ v.name = NameOf[c] /\ v.size = SizeOf[c]]_vars

\* The capacity told to a client is what it asked for, rounded up by less than
\* a gigabyte, also when the request was shared with one for other bytes that
\* round to the same size (getVolSizeInBytes, controller_server.go:64-70).
CapacityCoversRequest ==
    \A c \in Callers : reply[c].code = "OK" =>
        /\ BytesOf[c] <= reply[c].bytes
        /\ reply[c].bytes < BytesOf[c] + BytesInGigabyte

\* GetCapacity promises no space that CreateVolume's quota check refuses, and
\* all that it allows, also when racing creates have overrun the quota
\* (controller_server.go:115-128 and 615-644).
CapacityPredictsQuota ==
    \A size \in 1 .. DiskLimit :
        QuotaAllows(size) <=> size * BytesInGigabyte <= AvailableCapacity

\* A handler that has looked and is about to create is the only one that can
\* create: no volume of its name appears behind its back.
FreshBeforeCreate ==
    \A c \in Callers : pc[c] \in {"quota", "new"} => Named(NameOf[c]) = {}

\* Every call of CreateVolume returns: polling is bounded and followers are
\* released with their leader.
EveryCallReturns == \A c \in Callers : pc[c] # "idle" ~> pc[c] = "idle"

\* Every wanted name gets a volume that the provisioner knows of, once faults
\* stop and it keeps retrying.
EventuallyProvisioned ==
    \A c \in Callers : <>(\E i \in known : vol[i].name = NameOf[c])

\* No volume is leaked: one that exists at the API, also one whose create
\* answer was lost, ends up known to the provisioner or deleted.
NoVolumeLeaked == \A i \in Ids : Live(i) ~> (i \in known \/ ~Live(i))

\* The account, seen by name, is what the provisioner relies on: what happens to
\* ids, duplicates, retries and shared flights in between does not show
\* (CreateVolume's idempotency, controller_server.go:29-35).
VolumeOf(n) ==
    IF \E i \in Named(n) : vol[i].status = "available" THEN "available"
    ELSE IF Named(n) # {} THEN "creating" ELSE "none"

Answer(r) == IF r.code \in {"none", "OK"} THEN r.code ELSE "failed"

Promise == INSTANCE IdempotentCreate WITH
    volume <- [n \in Names |-> VolumeOf(n)],
    pending <- {c \in Callers : pc[c] # "idle"},
    answer <- [c \in Callers |-> Answer(reply[c])],
    bound <- {vol[i].name : i \in known}

ImplementsIdempotentCreate == Promise!Spec
===========================================================================
