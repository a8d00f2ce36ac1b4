------------------------ MODULE CreateVolume_proofs ------------------------
(***************************************************************************)
(* Theorems about CreateVolume, for every set of callers, names and ids,   *)
(* every request and every bound.                                          *)
(***************************************************************************)
EXTENDS CreateVolume, VolumeSize_proofs, Sums_proofs, TLAPS

Replies == [code : Codes, id : Ids \cup {None}, bytes : Int]

\* A handler past the create works on a volume id, not on None.
CurIsId == \A c \in Callers : pc[c] \in {"get", "wait"} => cur[c] \in Ids

TypeInv == TypeOK /\ CurIsId

---------------------------------------------------------------------------
(* Types.                                                                  *)

\* Every request is for a name and for a natural number of gigabytes.
LEMMA RequestsTyped ==
    /\ NameOf \in [Callers -> Names]
    /\ BytesOf \in [Callers -> Nat] /\ SizeOf \in [Callers -> Nat]
<1>1. ASSUME NEW c \in Callers
      PROVE  getVolSizeInBytes(RangeOf[c]) \in Nat
  <2>1. RangeOf[c] = NoRange \/ RangeOf[c] \in [required : Bytes, limit : Bytes]
    BY RequestsAssumption DEF CapacityRanges
  <2> QED
    BY <2>1, WidthAssumption, DefaultAssumption DEF getVolSizeInBytes, Bytes
<1>2. BytesOf \in [Callers -> Nat]
  BY <1>1 DEF BytesOf
<1>3. ASSUME NEW c \in Callers PROVE DesiredSize(BytesOf[c]) \in Nat
  BY <1>2, RoundingUp
<1> QED
  BY <1>2, <1>3, RequestsAssumption DEF SizeOf

\* What is told in bytes is a number of them.
LEMMA CapacityTyped ==
    ASSUME NEW gb \in Nat
    PROVE  CapacityBytes(gb) \in Int
<1>1. gb * BytesInGigabyte \in Nat
  BY WidthAssumption
<1>2. (gb * BytesInGigabyte + MaxInt64 + 1) % (2 * (MaxInt64 + 1)) \in Nat
  BY <1>1, WidthAssumption, Division
<1> QED
  BY <1>2, WidthAssumption DEF CapacityBytes, Int64

\* The error replies are replies.
LEMMA ErrIsReply ==
    ASSUME NEW code \in Codes
    PROVE  Err(code) \in Replies /\ (Err(code).code = "OK" => code = "OK")
BY DEF Err, Replies

\* What the end of a flight leaves is well typed.
LEMMA FinishTypes ==
    ASSUME TypeInv, NEW c \in Callers, NEW r \in Replies,
           r.code = "OK" => r.id \in Ids, Finish(c, r)
    PROVE  /\ group' \in [Names -> Callers \cup {None}]
           /\ pc' \in [Callers -> Working \cup {"idle", "joined"}]
           /\ reply' \in [Callers -> Replies]
           /\ known' \subseteq Ids
           /\ cur' \in [Callers -> Ids \cup {None}]
           /\ tries' \in [Callers -> 0 .. Retries - 1]
           /\ \A d \in Callers : pc'[d] \in {"get", "wait"} => cur'[d] \in Ids
<1> USE DEF TypeInv, TypeOK
<1>1. group' \in [Names -> Callers \cup {None}]
  BY DEF Finish
<1>2. pc' \in [Callers -> Working \cup {"idle", "joined"}]
  BY DEF Finish
<1>3. reply' \in [Callers -> Replies]
  BY DEF Finish, Replies
<1>4. known' \subseteq Ids
  BY DEF Finish
<1>5. cur' \in [Callers -> Ids \cup {None}]
  BY DEF Finish
<1>6. tries' \in [Callers -> 0 .. Retries - 1]
  BY RetriesAssumption DEF Finish
<1>7. \A d \in Callers : pc'[d] \in {"get", "wait"} => cur'[d] \in Ids
  BY DEF Finish, Flight, CurIsId
<1> QED
  BY <1>1, <1>2, <1>3, <1>4, <1>5, <1>6, <1>7

\* So is what a step to another label leaves.
LEMMA GotoTypes ==
    ASSUME TypeInv, NEW c \in Callers, NEW label \in Working,
           NEW i \in Ids \cup {None},
           label \in {"get", "wait"} => i \in Ids, Goto(c, label, i)
    PROVE  /\ group' \in [Names -> Callers \cup {None}]
           /\ pc' \in [Callers -> Working \cup {"idle", "joined"}]
           /\ reply' \in [Callers -> Replies]
           /\ known' \subseteq Ids
           /\ cur' \in [Callers -> Ids \cup {None}]
           /\ tries' \in [Callers -> 0 .. Retries - 1]
           /\ \A d \in Callers : pc'[d] \in {"get", "wait"} => cur'[d] \in Ids
BY DEF TypeInv, TypeOK, Goto, CurIsId, Replies

\* The API creates well-typed volumes.
LEMMA ApiCreateTypes ==
    ASSUME TypeOK, NEW c \in Callers, NEW i \in Ids, ApiCreate(c, i)
    PROVE  vol' \in [Ids -> [status : {"unused", "creating", "available", "deleted"},
                             name : Names \cup {None}, size : Nat]]
BY RequestsTyped DEF TypeOK, ApiCreate

LEMMA FaultTypes ==
    ASSUME TypeOK, Fault
    PROVE  faults' \in 0 .. MaxFaults
BY BoundsAssumption DEF TypeOK, Fault

LEMMA TypeInit == Init => TypeInv
BY RequestsTyped, RetriesAssumption, BoundsAssumption, NamesAssumption
   DEF Init, TypeInv, TypeOK, CurIsId, Err, Codes, Working

LEMMA StepTypes ==
    ASSUME TypeInv, NEW c \in Callers, Step(c)
    PROVE  TypeInv'
<1> USE DEF TypeInv
<1>1. Err("Unknown") \in Replies /\ Err("Unknown").code # "OK"
  BY DEF Err, Replies, Codes
<1>2. Err("AlreadyExists") \in Replies /\ Err("AlreadyExists").code # "OK"
  BY DEF Err, Replies, Codes
<1>3. Err("OutOfRange") \in Replies /\ Err("OutOfRange").code # "OK"
  BY DEF Err, Replies, Codes
<1>4. \A i \in Ids : vol[i].status \in {"creating", "available", "unused", "deleted"}
  BY DEF TypeOK
<1>a. CASE List(c)
  <2>0. UNCHANGED <<vol, orphans>> /\ faults' \in 0 .. MaxFaults
    BY <1>a, FaultTypes DEF List, TypeOK
  <2>1. CASE \E i \in Named(NameOf[c]) : Goto(c, "wait", i)
    <3>1. PICK i \in Ids : Goto(c, "wait", i)
      BY <2>1 DEF Named
    <3> QED
      BY <2>0, <3>1, GotoTypes DEF Working, TypeOK, CurIsId, Replies
  <2>2. CASE Goto(c, "quota", None)
    BY <2>2, <1>a, GotoTypes, FaultTypes DEF List, Working, TypeOK, CurIsId, Replies
  <2>3. CASE \E code \in {"AlreadyExists", "Unknown"} : Finish(c, Err(code))
    BY <2>3, <1>a, <1>1, <1>2, FinishTypes, FaultTypes DEF List, TypeOK, CurIsId, Replies
  <2> QED
    BY <1>a, <2>1, <2>2, <2>3 DEF List
<1>b. CASE Quota(c)
  <2>1. CASE Goto(c, "new", None)
    BY <2>1, <1>b, GotoTypes, FaultTypes DEF Quota, Working, TypeOK, CurIsId, Replies
  <2>2. CASE \E code \in {"OutOfRange", "Unknown"} : Finish(c, Err(code))
    BY <2>2, <1>b, <1>1, <1>3, FinishTypes, FaultTypes DEF Quota, TypeOK, CurIsId, Replies
  <2> QED
    BY <1>b, <2>1, <2>2 DEF Quota
<1>c. CASE New(c)
  <2>1. vol' \in [Ids -> [status : {"unused", "creating", "available", "deleted"},
                          name : Names \cup {None}, size : Nat]]
    BY <1>c, ApiCreateTypes DEF New, TypeOK
  <2>2. orphans' \subseteq Callers /\ faults' \in 0 .. MaxFaults
    BY <1>c, FaultTypes DEF New, TypeOK
  <2>3. CASE \E i \in Ids : Goto(c, "get", i)
    BY <2>3, <2>1, <2>2, GotoTypes DEF Working, TypeOK, CurIsId, Replies
  <2>4. CASE Goto(c, "relist", None)
    BY <2>4, <2>1, <2>2, GotoTypes DEF Working, TypeOK, CurIsId, Replies
  <2>5. CASE Finish(c, Err("Unknown"))
    BY <2>5, <2>1, <2>2, <1>1, FinishTypes DEF TypeOK, CurIsId, Replies
  <2> QED
    BY <1>c, <2>3, <2>4, <2>5 DEF New
<1>d. CASE Relist(c)
  <2>1. CASE \E i \in Named(NameOf[c]) : Goto(c, "wait", i)
    BY <2>1, <1>d, GotoTypes, FaultTypes DEF Relist, Named, Working, TypeOK, CurIsId, Replies
  <2>2. CASE Finish(c, Err("Unknown"))
    BY <2>2, <1>d, <1>1, FinishTypes, FaultTypes DEF Relist, TypeOK, CurIsId, Replies
  <2> QED
    BY <1>d, <2>1, <2>2 DEF Relist
<1>e. CASE Get(c)
  <2>1. cur[c] \in Ids
    BY <1>e DEF Get, CurIsId
  <2>2. CASE Goto(c, "wait", cur[c])
    BY <2>1, <2>2, <1>e, GotoTypes, FaultTypes DEF Get, Working, TypeOK, CurIsId, Replies
  <2>3. CASE Finish(c, Err("Unknown"))
    BY <2>3, <1>e, <1>1, FinishTypes, FaultTypes DEF Get, TypeOK, CurIsId, Replies
  <2> QED
    BY <1>e, <2>2, <2>3 DEF Get
<1>f. CASE Wait(c)
  <2> DEFINE ok == [code |-> "OK", id |-> cur[c],
                        bytes |-> CapacityBytes(SizeOf[c])]
  <2>1. cur[c] \in Ids
    BY <1>f DEF Wait, CurIsId
  <2>2. ok \in Replies /\ (ok.code = "OK" => ok.id \in Ids)
    BY <2>1, RequestsTyped, CapacityTyped DEF Replies, Codes
  <2>3. CASE Finish(c, ok)
    <3> HIDE DEF ok
    <3> QED
      BY <2>2, <2>3, <1>f, FinishTypes, FaultTypes DEF Wait, TypeOK, CurIsId, Replies
  <2>4. CASE Finish(c, Err("Unknown"))
    BY <2>4, <1>f, <1>1, FinishTypes, FaultTypes DEF Wait, TypeOK, CurIsId, Replies
  <2>5. CASE /\ ~LastTry(c)
             /\ tries' = [tries EXCEPT ![c] = @ + 1]
             /\ UNCHANGED <<group, pc, cur, reply, known, faults>>
    <3>1. tries[c] \in 0 .. Retries - 1 /\ tries[c] + 1 # Retries
      BY <2>5 DEF TypeOK, LastTry
    <3>2. tries[c] + 1 \in 0 .. Retries - 1
      BY <3>1, RetriesAssumption
    <3>3. tries' \in [Callers -> 0 .. Retries - 1]
      BY <2>5, <3>2 DEF TypeOK
    <3> QED
      BY <3>3, <2>5, <1>f DEF Wait, TypeOK, CurIsId
  <2> QED
    BY <1>f, <2>3, <2>4, <2>5 DEF Wait
<1> QED
  BY <1>a, <1>b, <1>c, <1>d, <1>e, <1>f DEF Step

\* Every step, of the driver or of its surroundings, keeps the types.
LEMMA TypeNext == TypeInv /\ [Next]_vars => TypeInv'
<1> SUFFICES ASSUME TypeInv, [Next]_vars PROVE TypeInv'
  OBVIOUS
<1> USE DEF TypeInv
<1>1. ASSUME NEW c \in Callers, Call(c) PROVE TypeInv'
  <2>1. Err("none") \in Replies
    BY DEF Err, Replies, Codes
  <2>2. reply' \in [Callers -> Replies]
    BY <1>1, <2>1 DEF Call, TypeOK, Replies
  <2> QED
    BY <1>1, <2>2 DEF Call, TypeOK, CurIsId, Working, Replies
<1>2. ASSUME NEW c \in Callers, Step(c) PROVE TypeInv'
  BY <1>2, StepTypes
<1>3. ASSUME NEW c \in Callers, LateCreate(c) PROVE TypeInv'
  BY <1>3, ApiCreateTypes DEF LateCreate, TypeOK, CurIsId
<1>4. ASSUME NEW i \in Ids, DeleteVolume(i) PROVE TypeInv'
  BY <1>4 DEF DeleteVolume, TypeOK, CurIsId
<1>5. ASSUME NEW i \in Ids, ApiBecomesAvailable(i) PROVE TypeInv'
  BY <1>5 DEF ApiBecomesAvailable, TypeOK, CurIsId
<1>6. ASSUME NEW i \in Ids, Forget(i) PROVE TypeInv'
  BY <1>6, FaultTypes DEF Forget, TypeOK, CurIsId
<1>7. CASE Restart
  BY <1>7, FaultTypes, RetriesAssumption DEF Restart, TypeOK, CurIsId, Working, Err, Codes
<1>8. CASE UNCHANGED vars
  BY <1>8 DEF vars, TypeOK, CurIsId
<1> QED
  BY <1>1, <1>2, <1>3, <1>4, <1>5, <1>6, <1>7, <1>8 DEF Next

\* Every reachable state is well typed; in particular no handler polls more
\* often than it may, whatever faults and restarts come between its polls.
THEOREM TypeCorrect == Spec => []TypeOK
<1>1. TypeInv => TypeOK
  BY DEF TypeInv
<1> QED
  BY <1>1, TypeInit, TypeNext, PTL DEF Spec

---------------------------------------------------------------------------
(* The singleflight group: one handler at work per name, and nobody waits  *)
(* for a flight without a leader.                                          *)

\* The handler at work on a name is the one the group holds for it.
FlightInv ==
    /\ \A c \in Callers : pc[c] \in Working => group[NameOf[c]] = c
    /\ \A n \in Names : group[n] # None =>
           NameOf[group[n]] = n /\ pc[group[n]] \in Working
    /\ \A c \in Callers : pc[c] = "joined" => group[NameOf[c]] # None

LEMMA FinishFlight ==
    ASSUME TypeInv, FlightInv, NEW c \in Callers, pc[c] \in Working,
           NEW r, Finish(c, r)
    PROVE  FlightInv'
<1> USE RequestsTyped, NamesAssumption DEF TypeInv, TypeOK
<1>1. group[NameOf[c]] = c
  BY DEF FlightInv
<1>2. group' = [group EXCEPT ![NameOf[c]] = None]
  BY DEF Finish
<1>3. \A d \in Callers : pc'[d] = IF d \in Flight(c) THEN "idle" ELSE pc[d]
  BY DEF Finish
<1>4. \A d \in Callers : pc'[d] \in Working => group'[NameOf[d]] = d
  <2> SUFFICES ASSUME NEW d \in Callers, pc'[d] \in Working
               PROVE  group'[NameOf[d]] = d
    OBVIOUS
  <2>1. d \notin Flight(c) /\ pc[d] \in Working
    BY <1>3 DEF Working
  <2>2. group[NameOf[d]] = d /\ d # c
    BY <2>1 DEF FlightInv, Flight
  <2> QED
    BY <1>1, <1>2, <2>2
<1>5. \A n \in Names : group'[n] # None =>
         NameOf[group'[n]] = n /\ pc'[group'[n]] \in Working
  <2> SUFFICES ASSUME NEW n \in Names, group'[n] # None
               PROVE  NameOf[group'[n]] = n /\ pc'[group'[n]] \in Working
    OBVIOUS
  <2>1. n # NameOf[c] /\ group'[n] = group[n] /\ group[n] \in Callers
    BY <1>2
  <2>2. NameOf[group[n]] = n /\ pc[group[n]] \in Working
    BY <2>1 DEF FlightInv
  <2>3. group[n] \notin Flight(c)
    BY <2>1, <2>2 DEF Flight
  <2> QED
    BY <1>3, <2>1, <2>2, <2>3
<1>6. \A d \in Callers : pc'[d] = "joined" => group'[NameOf[d]] # None
  BY <1>2, <1>3 DEF FlightInv, Flight
<1> QED
  BY <1>4, <1>5, <1>6 DEF FlightInv

LEMMA GotoFlight ==
    ASSUME TypeInv, FlightInv, NEW c \in Callers, pc[c] \in Working,
           NEW label \in Working, NEW i, Goto(c, label, i)
    PROVE  FlightInv'
<1>1. label # "joined"
  BY DEF Working
<1> QED
  BY <1>1, RequestsTyped, NamesAssumption
     DEF TypeInv, TypeOK, FlightInv, Goto

\* A step of a handler moves it to another label, ends its flight, or polls
\* again; the handler was at work.
LEMMA StepMoves ==
    ASSUME NEW c \in Callers, Step(c)
    PROVE  /\ pc[c] \in Working
           /\ \/ \E label \in Working : \E i : Goto(c, label, i)
              \/ \E r : Finish(c, r)
              \/ UNCHANGED <<group, pc>>
<1>1. CASE List(c)
  BY <1>1 DEF List, Working
<1>2. CASE Quota(c)
  BY <1>2 DEF Quota, Working
<1>3. CASE New(c)
  BY <1>3 DEF New, Working
<1>4. CASE Relist(c)
  BY <1>4 DEF Relist, Working
<1>5. CASE Get(c)
  BY <1>5 DEF Get, Working
<1>6. CASE Wait(c)
  BY <1>6 DEF Wait, Working
<1> QED
  BY <1>1, <1>2, <1>3, <1>4, <1>5, <1>6 DEF Step

LEMMA FlightNext == TypeInv /\ FlightInv /\ [Next]_vars => FlightInv'
<1> SUFFICES ASSUME TypeInv, FlightInv, [Next]_vars PROVE FlightInv'
  OBVIOUS
<1>1. ASSUME NEW c \in Callers, Call(c) PROVE FlightInv'
  <2> USE RequestsTyped, NamesAssumption DEF TypeInv, TypeOK
  <2>1. pc[c] = "idle" /\ c # None
    BY <1>1 DEF Call
  <2>2. CASE /\ group[NameOf[c]] = None
             /\ group' = [group EXCEPT ![NameOf[c]] = c]
             /\ pc' = [pc EXCEPT ![c] = "list"]
    <3>1. \A d \in Callers : pc'[d] \in Working => group'[NameOf[d]] = d
      BY <2>1, <2>2 DEF FlightInv
    <3>2. \A n \in Names : group'[n] # None =>
             NameOf[group'[n]] = n /\ pc'[group'[n]] \in Working
      BY <2>1, <2>2 DEF FlightInv, Working
    <3>3. \A d \in Callers : pc'[d] = "joined" => group'[NameOf[d]] # None
      BY <2>1, <2>2 DEF FlightInv
    <3> QED
      BY <3>1, <3>2, <3>3 DEF FlightInv
  <2>3. CASE /\ group[NameOf[c]] # None
             /\ group' = group
             /\ pc' = [pc EXCEPT ![c] = "joined"]
    BY <2>1, <2>3 DEF FlightInv, Working
  <2> QED
    BY <1>1, <2>2, <2>3 DEF Call, Leads
<1>2. ASSUME NEW c \in Callers, Step(c) PROVE FlightInv'
  <2>1. CASE UNCHANGED <<group, pc>>
    BY <2>1 DEF FlightInv
  <2> QED
    BY <1>2, <2>1, StepMoves, FinishFlight, GotoFlight
<1>3. CASE Restart
  BY <1>3, RequestsTyped DEF Restart, FlightInv, Working
<1>4. CASE UNCHANGED <<group, pc>>
  BY <1>4 DEF FlightInv
<1> QED
  BY <1>1, <1>2, <1>3, <1>4
     DEF Next, vars, LateCreate, DeleteVolume, ApiBecomesAvailable, Forget

LEMMA FlightInit == Init => FlightInv
BY RequestsTyped DEF Init, FlightInv, Working

\* Callers that share a flight always have a leader at work on their name:
\* a restart, an error or a success never leaves a follower behind.
THEOREM FollowersNeverAbandoned == Spec => []FollowersHaveLeader
<1>1. TypeInv /\ FlightInv => FollowersHaveLeader
  BY RequestsTyped
     DEF TypeInv, TypeOK, FlightInv, FollowersHaveLeader
<1> QED
  BY <1>1, TypeInit, TypeNext, FlightInit, FlightNext, PTL DEF Spec

---------------------------------------------------------------------------
(* One volume per name.                                                    *)

\* The API may not need to know about names (UniqueNames is FALSE) when no
\* create request outlives its handler: then nothing is in flight without a
\* handler, and a handler about to create has seen no volume of its name
\* since it looked.
NameInv ==
    /\ UniqueNames \/ ~LateRequests => OneVolumePerName
    /\ ~LateRequests => orphans = {} /\ FreshBeforeCreate

\* A volume created under a free name is the only one of that name, and it
\* adds nothing to the volumes of other names.
LEMMA CreateUnderFreeName ==
    ASSUME TypeInv, NEW c \in Callers, NEW i \in Ids, ApiCreate(c, i)
    PROVE  /\ OneVolumePerName /\ Named(NameOf[c]) = {} => OneVolumePerName'
           /\ \A n \in Names \ {NameOf[c]} : Named(n)' = Named(n)
<1> USE DEF TypeInv, TypeOK
<1>1. vol[i].status = "unused"
  BY DEF ApiCreate, Unused
<1>2. \A j \in Ids \ {i} : vol'[j] = vol[j]
  BY DEF ApiCreate
<1>3. vol'[i].status = "creating" /\ vol'[i].name = NameOf[c]
  BY DEF ApiCreate
<1>4. ASSUME OneVolumePerName, Named(NameOf[c]) = {}
      PROVE  OneVolumePerName'
  <2> SUFFICES ASSUME NEW j \in Ids, NEW k \in Ids, Live(j)', Live(k)',
                      vol'[j].name = vol'[k].name
               PROVE  j = k
    BY DEF OneVolumePerName
  <2>1. CASE j # i /\ k # i
    BY <1>2, <1>4, <2>1 DEF OneVolumePerName, Live
  <2>2. CASE j = i /\ k # i
    BY <1>2, <1>3, <1>4, <2>2 DEF Named, Live
  <2>3. CASE j # i /\ k = i
    BY <1>2, <1>3, <1>4, <2>3 DEF Named, Live
  <2> QED
    BY <2>1, <2>2, <2>3
<1>5. ASSUME NEW n \in Names \ {NameOf[c]}
      PROVE  Named(n)' = Named(n)
  <2>1. \A j \in Ids : (Live(j) /\ vol[j].name = n)' <=> (Live(j) /\ vol[j].name = n)
    BY <1>1, <1>2, <1>3 DEF Live
  <2> QED
    BY <2>1 DEF Named
<1> QED
  BY <1>4, <1>5

\* Losing a volume, or a change of a live volume's status, frees names at most.
LEMMA FewerVolumes ==
    ASSUME \A i \in Ids : Live(i)' => Live(i) /\ vol'[i].name = vol[i].name
    PROVE  /\ OneVolumePerName => OneVolumePerName'
           /\ \A n \in Names : Named(n)' \subseteq Named(n)
<1>1. OneVolumePerName => OneVolumePerName'
  BY DEF OneVolumePerName
<1>2. ASSUME NEW n \in Names PROVE Named(n)' \subseteq Named(n)
  BY DEF Named
<1> QED
  BY <1>1, <1>2

\* A handler comes to "quota" or "new" only from a look that found no volume.
LEMMA FreshStep ==
    ASSUME TypeInv, FlightInv, FreshBeforeCreate, NEW c \in Callers, Step(c)
    PROVE  FreshBeforeCreate'
<1> USE RequestsTyped DEF TypeInv, TypeOK
<1> DEFINE Looked(d) == pc[d] \in {"quota", "new"}
<1>1. \A d \in Callers \ {c} : Looked(d)' => Looked(d)
  BY DEF Step, List, Quota, New, Relist, Get, Wait, Goto, Finish
<1>2. CASE New(c)
  <2>1. ~Looked(c)'
    BY <1>2 DEF New, Goto, Finish, Flight
  <2>2. ASSUME NEW d \in Callers, Looked(d)'
        PROVE  d # c /\ Looked(d) /\ NameOf[d] # NameOf[c]
    <3>1. d # c /\ Looked(d)
      BY <1>1, <2>1, <2>2
    <3>2. pc[c] \in Working /\ pc[d] \in Working
      BY <1>2, <3>1 DEF New, Working
    <3> QED
      BY <3>1, <3>2 DEF FlightInv
  <2>3. CASE vol' = vol
    BY <2>2, <2>3 DEF FreshBeforeCreate, Named, Live
  <2>4. CASE \E i \in Ids : ApiCreate(c, i)
    <3>1. \A n \in Names \ {NameOf[c]} : Named(n)' = Named(n)
      BY <2>4, CreateUnderFreeName
    <3> QED
      BY <2>2, <3>1 DEF FreshBeforeCreate
  <2> QED
    BY <1>2, <2>3, <2>4 DEF New
<1>3. CASE ~New(c)
  <2>1. vol' = vol
    BY <1>3 DEF Step, List, Quota, Relist, Get, Wait
  <2>2. \A n : Named(n)' = Named(n)
    BY <2>1 DEF Named, Live
  <2>3. Looked(c)' => Named(NameOf[c]) = {}
    BY <1>3 DEF Step, List, Quota, Relist, Get, Wait, Goto, Finish, Flight, FreshBeforeCreate
  <2> QED
    BY <1>1, <2>2, <2>3 DEF FreshBeforeCreate
<1> QED
  BY <1>2, <1>3

LEMMA NameStep ==
    ASSUME TypeInv, FlightInv, NameInv, NEW c \in Callers, Step(c)
    PROVE  NameInv'
<1>1. ~LateRequests => orphans' = {} /\ FreshBeforeCreate'
  <2>1. ~LateRequests => orphans' = orphans
    BY DEF Step, List, Quota, New, Relist, Get, Wait
  <2> QED
    BY <2>1, FreshStep DEF NameInv
<1>2. CASE vol' = vol
  <2>1. OneVolumePerName' <=> OneVolumePerName
    BY <1>2 DEF OneVolumePerName, Live
  <2> QED
    BY <1>1, <2>1 DEF NameInv
<1>3. CASE vol' # vol
  <2>1. PICK i \in Ids : pc[c] = "new" /\ ApiCreate(c, i)
    BY <1>3 DEF Step, List, Quota, New, Relist, Get, Wait
  <2>2. UniqueNames \/ ~LateRequests => Named(NameOf[c]) = {}
    BY <2>1 DEF NameInv, FreshBeforeCreate, ApiCreate, ApiAccepts
  <2>3. UniqueNames \/ ~LateRequests => OneVolumePerName'
    BY <2>1, <2>2, CreateUnderFreeName DEF NameInv
  <2> QED
    BY <1>1, <2>3 DEF NameInv
<1> QED
  BY <1>2, <1>3

LEMMA NameNext == TypeInv /\ FlightInv /\ NameInv /\ [Next]_vars => NameInv'
<1> SUFFICES ASSUME TypeInv, FlightInv, NameInv, [Next]_vars PROVE NameInv'
  OBVIOUS
<1> USE RequestsTyped DEF TypeInv, TypeOK
<1>1. ASSUME NEW c \in Callers, Call(c) PROVE NameInv'
  <2>1. \A d \in Callers : pc'[d] \in {"quota", "new"} => pc[d] = pc'[d]
    BY <1>1 DEF Call
  <2>2. vol' = vol /\ orphans' = orphans
    BY <1>1 DEF Call
  <2> QED
    BY <2>1, <2>2 DEF NameInv, OneVolumePerName, FreshBeforeCreate, Named, Live
<1>2. ASSUME NEW c \in Callers, Step(c) PROVE NameInv'
  BY <1>2, NameStep
<1>3. ASSUME NEW c \in Callers, LateCreate(c) PROVE NameInv'
  <2>1. LateRequests
    BY <1>3 DEF LateCreate, NameInv
  <2>2. CASE vol' = vol
    BY <2>1, <2>2 DEF NameInv, OneVolumePerName, Live
  <2>3. CASE \E i \in Ids : ApiCreate(c, i)
    <3>1. UniqueNames => Named(NameOf[c]) = {}
      BY <2>3 DEF ApiCreate, ApiAccepts
    <3> QED
      BY <2>1, <2>3, <3>1, CreateUnderFreeName DEF NameInv
  <2> QED
    BY <1>3, <2>2, <2>3 DEF LateCreate
<1>4. ASSUME NEW i \in Ids, DeleteVolume(i) \/ ApiBecomesAvailable(i)
      PROVE  NameInv'
  <2>1. \A j \in Ids : Live(j)' => Live(j) /\ vol'[j].name = vol[j].name
    <3>1. \A j \in Ids \ {i} : vol'[j] = vol[j]
      BY <1>4 DEF DeleteVolume, ApiBecomesAvailable
    <3>2. Live(i) /\ vol'[i].name = vol[i].name
      BY <1>4 DEF DeleteVolume, ApiBecomesAvailable, Live
    <3> QED
      BY <3>1, <3>2 DEF Live
  <2>2. pc' = pc /\ orphans' = orphans
    BY <1>4 DEF DeleteVolume, ApiBecomesAvailable
  <2>3. OneVolumePerName => OneVolumePerName'
    BY <2>1, FewerVolumes
  <2>4. FreshBeforeCreate => FreshBeforeCreate'
    BY <2>1, <2>2, FewerVolumes DEF FreshBeforeCreate
  <2> QED
    BY <2>2, <2>3, <2>4 DEF NameInv
<1>5. CASE Restart
  <2>1. ~LateRequests => orphans' = orphans
    BY <1>5 DEF Restart
  <2> QED
    BY <1>5, <2>1 DEF Restart, NameInv, OneVolumePerName, FreshBeforeCreate, Live
<1>6. CASE UNCHANGED <<vol, orphans, pc>>
  BY <1>6 DEF NameInv, OneVolumePerName, FreshBeforeCreate, Named, Live
<1> QED
  BY <1>1, <1>2, <1>3, <1>4, <1>5, <1>6 DEF Next, vars, Forget

LEMMA NameInit == Init => NameInv
BY DEF Init, NameInv, OneVolumePerName, FreshBeforeCreate, Live

\* The account never holds two volumes of one name, for every number of
\* callers, retries, faults and restarts, if the API rejects duplicate names
\* or no create request outlives the handler that sent it: under the second
\* condition the singleflight group and the look before the create are enough.
THEOREM NoDuplicateVolumes ==
    ASSUME UniqueNames \/ ~LateRequests
    PROVE  Spec => []OneVolumePerName
<1>1. NameInv => OneVolumePerName
  BY DEF NameInv
<1> QED
  BY <1>1, TypeInit, TypeNext, FlightInit, FlightNext, NameInit, NameNext, PTL
     DEF Spec

\* With no late create requests, a handler that has looked still sees no
\* volume of its name when it creates one.
THEOREM LookHoldsUntilCreate ==
    ASSUME ~LateRequests
    PROVE  Spec => []FreshBeforeCreate
<1>1. NameInv => FreshBeforeCreate
  BY DEF NameInv
<1> QED
  BY <1>1, TypeInit, TypeNext, FlightInit, FlightNext, NameInit, NameNext, PTL
     DEF Spec
---------------------------------------------------------------------------
(* The reply is what was asked for.                                        *)

\* Among the volumes v, i is or was one that caller c asked for.
Asked(v, c, i) ==
    /\ i \in Ids /\ v[i].status # "unused"
    /\ v[i].name = NameOf[c] /\ v[i].size = SizeOf[c]

\* A handler works on a volume of its own request.
WorkInv == \A c \in Callers : pc[c] \in {"get", "wait"} => Asked(vol, c, cur[c])

\* A success is about such a volume, which has been available.
Answers(v, c, r) ==
    /\ Asked(v, c, r.id) /\ v[r.id].status \in {"available", "deleted"}
    /\ r.bytes = CapacityBytes(SizeOf[c])

ReplyInv == \A c \in Callers : reply[c].code = "OK" => Answers(vol, c, reply[c])

\* Callers of one name ask for one size.
OneSizePerName ==
    \A c, d \in Callers : NameOf[c] = NameOf[d] => SizeOf[c] = SizeOf[d]

\* A volume keeps its name and its size, and what has become available never
\* goes back to being created.
VolumesKept ==
    \A i \in Ids : vol[i].status # "unused" =>
        /\ vol'[i].status # "unused"
        /\ vol'[i].name = vol[i].name /\ vol'[i].size = vol[i].size
        /\ vol[i].status \in {"available", "deleted"} =>
               vol'[i].status \in {"available", "deleted"}

LEMMA VolumesStep == TypeInv /\ [Next]_vars => VolumesKept
<1> SUFFICES ASSUME TypeInv, [Next]_vars PROVE VolumesKept
  OBVIOUS
<1> USE DEF TypeInv, TypeOK, VolumesKept
<1>1. ASSUME vol' = vol PROVE VolumesKept
  BY <1>1
<1>2. ASSUME NEW c \in Callers, NEW i \in Ids, ApiCreate(c, i)
      PROVE  VolumesKept
  BY <1>2 DEF ApiCreate, Unused
<1>3. ASSUME NEW c \in Callers, Step(c) PROVE VolumesKept
  <2>1. vol' = vol \/ \E i \in Ids : ApiCreate(c, i)
    BY <1>3 DEF Step, List, Quota, New, Relist, Get, Wait
  <2> QED
    BY <2>1, <1>1, <1>2
<1>4. ASSUME NEW c \in Callers, LateCreate(c) PROVE VolumesKept
  BY <1>4, <1>1, <1>2 DEF LateCreate
<1>5. ASSUME NEW i \in Ids, DeleteVolume(i) \/ ApiBecomesAvailable(i)
      PROVE  VolumesKept
  BY <1>5 DEF DeleteVolume, ApiBecomesAvailable, Live
<1>6. ASSUME \/ \E c \in Callers : Call(c)
             \/ \E i \in Ids : Forget(i)
             \/ Restart
             \/ UNCHANGED vars
      PROVE  VolumesKept
  BY <1>6, <1>1 DEF Call, Forget, Restart, vars
<1> QED
  BY <1>3, <1>4, <1>5, <1>6 DEF Next

\* What a handler works on and what a reply says stays true of the volumes.
LEMMA AnswersKept ==
    ASSUME TypeInv, VolumesKept, WorkInv, ReplyInv
    PROVE  /\ \A c \in Callers :
                  pc[c] \in {"get", "wait"} => Asked(vol', c, cur[c])
           /\ \A c \in Callers :
                  reply[c].code = "OK" => Answers(vol', c, reply[c])
<1>1. ASSUME NEW c, NEW i, Asked(vol, c, i)
      PROVE  Asked(vol', c, i)
  BY <1>1 DEF Asked, VolumesKept
<1>2. ASSUME NEW c \in Callers, reply[c].code = "OK"
      PROVE  Answers(vol', c, reply[c])
  <2>1. Answers(vol, c, reply[c])
    BY <1>2 DEF ReplyInv
  <2> QED
    BY <2>1, <1>1 DEF Answers, Asked, VolumesKept
<1> QED
  BY <1>1, <1>2 DEF WorkInv

\* A handler that goes on with a volume of its request.
LEMMA GotoAnswers ==
    ASSUME TypeInv, VolumesKept, WorkInv, ReplyInv,
           NEW c \in Callers, NEW label, NEW i, Goto(c, label, i),
           label \in {"get", "wait"} => Asked(vol', c, i)
    PROVE  WorkInv' /\ ReplyInv'
<1> USE DEF TypeInv, TypeOK
<1>1. ASSUME NEW d \in Callers, pc'[d] \in {"get", "wait"}
      PROVE  Asked(vol', d, cur'[d])
  BY <1>1, AnswersKept DEF Goto
<1>2. ReplyInv'
  BY AnswersKept DEF ReplyInv, Goto
<1> QED
  BY <1>1, <1>2 DEF WorkInv

\* A flight that ends: everybody in it asked for the leader's volume.
LEMMA FinishAnswers ==
    ASSUME OneSizePerName, TypeInv, VolumesKept, WorkInv, ReplyInv,
           NEW c \in Callers, NEW r, Finish(c, r),
           r.code = "OK" => Answers(vol', c, r)
    PROVE  WorkInv' /\ ReplyInv'
<1> USE DEF TypeInv, TypeOK
<1>1. ASSUME NEW d \in Callers, pc'[d] \in {"get", "wait"}
      PROVE  Asked(vol', d, cur'[d])
  <2>1. d \notin Flight(c) /\ pc'[d] = pc[d] /\ d # c
    BY <1>1 DEF Finish, Flight
  <2> QED
    BY <1>1, <2>1, AnswersKept DEF Finish
<1>2. ASSUME NEW d \in Callers, reply'[d].code = "OK"
      PROVE  Answers(vol', d, reply'[d])
  <2>1. CASE d \in Flight(c)
    <3>1. NameOf[d] = NameOf[c] /\ SizeOf[d] = SizeOf[c]
      BY <2>1 DEF Flight, OneSizePerName
    <3>2. reply'[d] = r
      BY <2>1 DEF Finish
    <3> QED
      BY <1>2, <3>1, <3>2 DEF Answers, Asked
  <2>2. CASE d \notin Flight(c)
    BY <1>2, <2>2, AnswersKept DEF Finish
  <2> QED
    BY <2>1, <2>2
<1> QED
  BY <1>1, <1>2 DEF WorkInv, ReplyInv

LEMMA StepAnswers ==
    ASSUME OneSizePerName, TypeInv, VolumesKept, WorkInv, ReplyInv,
           NEW c \in Callers, Step(c)
    PROVE  WorkInv' /\ ReplyInv'
<1> USE RequestsTyped DEF TypeInv, TypeOK
<1> DEFINE Goal == WorkInv' /\ ReplyInv'
<1>1. ASSUME Finish(c, Err("Unknown")) \/ Finish(c, Err("AlreadyExists"))
                 \/ Finish(c, Err("OutOfRange"))
      PROVE  Goal
  BY <1>1, FinishAnswers DEF Err
<1>2. ASSUME NEW i \in Named(NameOf[c]), vol' = vol, SizeMatches(c, i),
             Goto(c, "wait", i)
      PROVE  Goal
  BY <1>2, GotoAnswers DEF Named, Live, SizeMatches, Asked
<1>3. ASSUME NEW label \in {"quota", "new", "relist"}, Goto(c, label, None)
      PROVE  Goal
  BY <1>3, GotoAnswers
<1>4. CASE List(c)
  BY <1>4, <1>1, <1>2, <1>3 DEF List
<1>5. CASE Quota(c)
  BY <1>5, <1>1, <1>3 DEF Quota
<1>6. CASE New(c)
  <2>1. ASSUME NEW i \in Ids, ApiCreate(c, i), Goto(c, "get", i)
        PROVE  Goal
    <3>1. Asked(vol', c, i)
      BY <2>1 DEF ApiCreate, Asked
    <3> QED
      BY <2>1, <3>1, GotoAnswers
  <2> QED
    BY <1>6, <2>1, <1>1, <1>3 DEF New
<1>7. CASE Relist(c)
  BY <1>7, <1>1, <1>2 DEF Relist
<1>8. CASE Get(c)
  <2>1. ASSUME Goto(c, "wait", cur[c]) PROVE Goal
    BY <1>8, <2>1, AnswersKept, GotoAnswers DEF Get
  <2> QED
    BY <1>8, <2>1, <1>1 DEF Get
<1>9. CASE Wait(c)
  <2>1. Asked(vol', c, cur[c]) /\ Asked(vol, c, cur[c])
    BY <1>9, AnswersKept DEF Wait, WorkInv
  <2>2. ASSUME Available(cur[c]), vol' = vol,
               Finish(c, [code |-> "OK", id |-> cur[c],
                        bytes |-> CapacityBytes(SizeOf[c])])
        PROVE  Goal
    BY <2>1, <2>2, FinishAnswers DEF Available, Answers
  <2>3. ASSUME pc' = pc, cur' = cur, reply' = reply PROVE Goal
    BY <2>3, AnswersKept DEF WorkInv, ReplyInv
  <2> QED
    BY <1>9, <2>2, <2>3, <1>1 DEF Wait
<1> QED
  BY <1>4, <1>5, <1>6, <1>7, <1>8, <1>9 DEF Step

LEMMA AnswersNext ==
    ASSUME OneSizePerName
    PROVE  TypeInv /\ WorkInv /\ ReplyInv /\ [Next]_vars => WorkInv' /\ ReplyInv'
<1> SUFFICES ASSUME TypeInv, WorkInv, ReplyInv, [Next]_vars
             PROVE  WorkInv' /\ ReplyInv'
  OBVIOUS
<1> USE DEF TypeInv, TypeOK
<1>1. VolumesKept
  BY VolumesStep
<1>2. ASSUME NEW c \in Callers, Call(c) PROVE WorkInv' /\ ReplyInv'
  <2>1. \A d \in Callers : pc'[d] \in {"get", "wait"} =>
            pc[d] \in {"get", "wait"} /\ cur'[d] = cur[d]
    BY <1>2 DEF Call
  <2>2. \A d \in Callers : reply'[d].code = "OK" => reply'[d] = reply[d]
    BY <1>2 DEF Call, Err
  <2> QED
    BY <1>1, <2>1, <2>2, AnswersKept DEF WorkInv, ReplyInv
<1>3. ASSUME NEW c \in Callers, Step(c) PROVE WorkInv' /\ ReplyInv'
  BY <1>1, <1>3, StepAnswers
<1>4. CASE Restart
  BY <1>4 DEF Restart, WorkInv, ReplyInv, Err
<1>5. ASSUME pc' = pc, cur' = cur, reply' = reply PROVE WorkInv' /\ ReplyInv'
  BY <1>1, <1>5, AnswersKept DEF WorkInv, ReplyInv
<1> QED
  BY <1>2, <1>3, <1>4, <1>5
     DEF Next, vars, LateCreate, DeleteVolume, ApiBecomesAvailable, Forget

LEMMA AnswersInit == Init => WorkInv /\ ReplyInv
BY DEF Init, WorkInv, ReplyInv, Err

\* When the callers of one name ask for one size, every success is about a
\* volume of the requested name and size that has become available, also for a
\* caller that only joined a flight; the assumption is what create_shared_reply
\* shows to be needed.
THEOREM RepliesAreRight ==
    ASSUME OneSizePerName
    PROVE  Spec => []ReplyMatchesRequest
<1>1. ReplyInv => ReplyMatchesRequest
  BY DEF ReplyInv, ReplyMatchesRequest, Answers, Asked
<1> QED
  BY <1>1, TypeInit, TypeNext, AnswersInit, AnswersNext, PTL DEF Spec

\* Every success tells the client what it asked for, rounded up by less than a
\* gigabyte, when the sizes asked for fit the width; callers of one name may
\* ask for different bytes as long as these round to one size.
THEOREM CapacityTold ==
    ASSUME OneSizePerName,
           \A c \in Callers : SizeOf[c] * BytesInGigabyte <= MaxInt64
    PROVE  Spec => []CapacityCoversRequest
<1>1. ASSUME ReplyMatchesRequest PROVE CapacityCoversRequest
  <2> SUFFICES ASSUME NEW c \in Callers, reply[c].code = "OK"
               PROVE  /\ BytesOf[c] <= reply[c].bytes
                      /\ reply[c].bytes < BytesOf[c] + BytesInGigabyte
    BY DEF CapacityCoversRequest
  <2>1. reply[c].bytes = CapacityBytes(SizeOf[c])
    BY <1>1 DEF ReplyMatchesRequest
  <2>2. SizeOf[c] * BytesInGigabyte \in Nat
    BY RequestsTyped, WidthAssumption
  <2>3. reply[c].bytes = SizeOf[c] * BytesInGigabyte
    BY <2>1, <2>2, NoWrap, WidthAssumption DEF CapacityBytes
  <2>4. BytesOf[c] \in Nat /\ SizeOf[c] = DesiredSize(BytesOf[c])
    BY RequestsTyped DEF SizeOf
  <2> QED
    BY <2>3, <2>4, RoundingUp
<1>2. ReplyMatchesRequest => CapacityCoversRequest
  BY <1>1
<1> QED
  BY <1>2, RepliesAreRight, PTL

---------------------------------------------------------------------------
(* GetCapacity and the quota check agree.                                  *)

LiveIds == {i \in Ids : Live(i)}
Taken == {i \in Ids : vol[i].status # "unused"}

\* No volume is larger than the account's space: every create request, also
\* one that outlived its handler, has passed the quota check.  Only finitely
\* many ids have been handed out.
SpaceInv ==
    /\ IsFiniteSet(Taken)
    /\ \A i \in Taken : vol[i].size <= DiskLimit
    /\ \A c \in Callers : pc[c] = "new" \/ c \in orphans => SizeOf[c] <= DiskLimit

\* The account's usage is a number of gigabytes, at most the whole space for
\* each of its volumes.
LEMMA UsageBounds ==
    ASSUME TypeInv, SpaceInv
    PROVE  /\ IsFiniteSet(LiveIds) /\ Count \in Nat
           /\ Usage \in Nat /\ Usage <= Count * DiskLimit
<1> USE DEF TypeInv, TypeOK
<1> DEFINE w == [i \in Ids |-> vol[i].size]
<1>1. LiveIds \in SUBSET Taken
  BY DEF LiveIds, Taken, Live
<1>2. IsFiniteSet(LiveIds)
  BY <1>1, FS_Subset DEF SpaceInv
<1>3. Cardinality(LiveIds) \in Nat /\ Count = Cardinality(LiveIds)
  BY <1>2, FS_CardinalityType DEF Count, LiveIds
<1>4. \A i \in LiveIds : w[i] \in Nat /\ w[i] <= DiskLimit
  BY <1>1 DEF SpaceInv, Taken
<1>5. PICK f : Usage = f[LiveIds] /\ SumsOn(f, w, SUBSET LiveIds)
  <2> DEFINE Sums(f) == f = [s \in SUBSET LiveIds |->
                               IF s = {} THEN 0
                               ELSE LET i == CHOOSE x \in s : TRUE
                                    IN  vol[i].size + f[s \ {i}]]
  <2>1. Usage = (CHOOSE f : Sums(f))[LiveIds]
    BY DEF Usage, MapThenSumSet, MapThenFoldSet, LiveIds
  <2>2. ASSUME NEW f PROVE Sums(f) <=> SumsOn(f, w, SUBSET LiveIds)
    <3>1. ASSUME NEW s \in SUBSET LiveIds, s # {}
          PROVE  w[Pick(s)] = vol[CHOOSE x \in s : TRUE].size
      BY <1>1, <3>1 DEF Pick, Taken
    <3> DEFINE a(s) == IF s = {} THEN 0
                       ELSE LET i == CHOOSE x \in s : TRUE
                            IN  vol[i].size + f[s \ {i}]
               b(s) == IF s = {} THEN 0 ELSE w[Pick(s)] + f[s \ {Pick(s)}]
    <3>2. \A s \in SUBSET LiveIds : a(s) = b(s)
      BY <3>1 DEF Pick
    <3>3. [s \in SUBSET LiveIds |-> a(s)] = [s \in SUBSET LiveIds |-> b(s)]
      <4> HIDE DEF a, b
      <4> QED
        BY <3>2
    <3> QED
      BY <3>3 DEF SumsOn
  <2>3. PICK g : SumsOn(g, w, SUBSET LiveIds)
    BY <1>2, SumExists
  <2> HIDE DEF Sums
  <2>4. Sums(CHOOSE f : Sums(f))
    BY <2>2, <2>3
  <2> QED
    BY <2>1, <2>2, <2>4
<1> HIDE DEF w
<1>6. f[LiveIds] \in Nat /\ f[LiveIds] <= Cardinality(LiveIds) * DiskLimit
  BY <1>2, <1>4, <1>5, SumBounds, BoundsAssumption
<1> QED
  BY <1>2, <1>3, <1>5, <1>6

\* A request that the quota allows fits the account.
LEMMA AllowedFits ==
    ASSUME TypeInv, SpaceInv, NEW size \in Nat, QuotaAllows(size)
    PROVE  size <= DiskLimit
BY UsageBounds, BoundsAssumption DEF QuotaAllows

LEMMA SpaceInit == Init => SpaceInv
<1> SUFFICES ASSUME Init PROVE SpaceInv
  OBVIOUS
<1>1. Taken = {}
  BY DEF Init, Taken
<1> QED
  BY <1>1, FS_EmptySet DEF Init, SpaceInv

\* The volumes stay within the space when a request that fits is accepted.
LEMMA CreateFits ==
    ASSUME TypeInv, SpaceInv, NEW c \in Callers, NEW i \in Ids,
           ApiCreate(c, i), SizeOf[c] <= DiskLimit
    PROVE  IsFiniteSet(Taken') /\ \A j \in Taken' : vol'[j].size <= DiskLimit
<1>1. \A j \in Ids \ {i} : vol'[j] = vol[j]
  BY DEF ApiCreate, TypeInv, TypeOK
<1>2. vol'[i].size = SizeOf[c]
  BY DEF ApiCreate, TypeInv, TypeOK
<1>3. Taken' \subseteq Taken \cup {i}
  BY <1>1 DEF Taken
<1>4. IsFiniteSet(Taken')
  <2>1. IsFiniteSet(Taken \cup {i})
    BY FS_AddElement DEF SpaceInv
  <2> QED
    BY <2>1, <1>3, FS_Subset
<1>5. ASSUME NEW j \in Taken' PROVE vol'[j].size <= DiskLimit
  <2>1. CASE j = i
    BY <2>1, <1>2
  <2>2. CASE j # i
    BY <2>2, <1>1, <1>3 DEF SpaceInv, Taken
  <2> QED
    BY <2>1, <2>2
<1> QED
  BY <1>4, <1>5

\* So they do when none is added.
LEMMA KeptFits ==
    ASSUME SpaceInv,
           \A j \in Ids : vol'[j].size = vol[j].size
                          /\ (vol'[j].status # "unused" => vol[j].status # "unused")
    PROVE  IsFiniteSet(Taken') /\ \A j \in Taken' : vol'[j].size <= DiskLimit
<1>1. Taken' \in SUBSET Taken
  BY DEF Taken
<1> QED
  BY <1>1, FS_Subset DEF SpaceInv, Taken

\* A handler comes to the create by the quota check, and a request left on its
\* way is that of a handler at the create.
LEMMA SpaceStep ==
    ASSUME TypeInv, SpaceInv, NEW c \in Callers, Step(c)
    PROVE  SpaceInv'
<1> USE RequestsTyped DEF TypeInv, TypeOK
<1>1. IsFiniteSet(Taken') /\ \A j \in Taken' : vol'[j].size <= DiskLimit
  <2>1. CASE vol' = vol
    BY <2>1, KeptFits
  <2>2. CASE \E i \in Ids : pc[c] = "new" /\ ApiCreate(c, i)
    BY <2>2, CreateFits DEF SpaceInv
  <2> QED
    BY <2>1, <2>2 DEF Step, List, Quota, New, Relist, Get, Wait
<1>2. ASSUME NEW d \in Callers, pc'[d] = "new" PROVE SizeOf[d] <= DiskLimit
  <2>1. CASE pc[d] = "new"
    BY <2>1 DEF SpaceInv
  <2>2. CASE pc[d] # "new"
    <3>1. d = c /\ Quota(c) /\ QuotaAllows(SizeOf[c])
      BY <1>2, <2>2 DEF Step, List, Quota, New, Relist, Get, Wait, Goto, Finish
    <3> QED
      BY <3>1, AllowedFits
  <2> QED
    BY <2>1, <2>2
<1>3. orphans' = orphans \/ (pc[c] = "new" /\ orphans' = orphans \cup {c})
  BY DEF Step, List, Quota, New, Relist, Get, Wait
<1> QED
  BY <1>1, <1>2, <1>3 DEF SpaceInv

LEMMA SpaceNext == TypeInv /\ SpaceInv /\ [Next]_vars => SpaceInv'
<1> SUFFICES ASSUME TypeInv, SpaceInv, [Next]_vars PROVE SpaceInv'
  OBVIOUS
<1> USE RequestsTyped DEF TypeInv, TypeOK
<1>1. ASSUME NEW c \in Callers, Call(c) PROVE SpaceInv'
  <2>1. UNCHANGED <<vol, orphans>>
    BY <1>1 DEF Call
  <2>2. \A d \in Callers : pc'[d] = "new" => pc[d] = "new"
    BY <1>1 DEF Call
  <2> QED
    BY <2>1, <2>2, KeptFits DEF SpaceInv
<1>2. ASSUME NEW c \in Callers, Step(c) PROVE SpaceInv'
  BY <1>2, SpaceStep
<1>3. ASSUME NEW c \in Callers, LateCreate(c) PROVE SpaceInv'
  <2>1. c \in orphans /\ orphans' \subseteq orphans /\ pc' = pc
    BY <1>3 DEF LateCreate
  <2>2. CASE vol' = vol
    BY <2>1, <2>2, KeptFits DEF SpaceInv
  <2>3. CASE \E i \in Ids : ApiCreate(c, i)
    BY <2>1, <2>3, CreateFits DEF SpaceInv
  <2> QED
    BY <1>3, <2>2, <2>3 DEF LateCreate
<1>4. ASSUME NEW i \in Ids, DeleteVolume(i) \/ ApiBecomesAvailable(i)
      PROVE  SpaceInv'
  <2>1. UNCHANGED <<orphans, pc>>
    BY <1>4 DEF DeleteVolume, ApiBecomesAvailable
  <2>2. \A j \in Ids : vol'[j].size = vol[j].size
                       /\ (vol'[j].status # "unused" => vol[j].status # "unused")
    BY <1>4 DEF DeleteVolume, ApiBecomesAvailable, Live
  <2> QED
    BY <2>1, <2>2, KeptFits DEF SpaceInv
<1>5. ASSUME NEW i \in Ids, Forget(i) PROVE SpaceInv'
  BY <1>5, KeptFits DEF Forget, SpaceInv
<1>6. ASSUME Restart PROVE SpaceInv'
  <2>1. vol' = vol /\ \A d \in Callers : pc'[d] # "new"
    BY <1>6 DEF Restart
  <2>2. \A d \in orphans' : d \in orphans \/ (d \in Callers /\ pc[d] = "new")
    BY <1>6 DEF Restart
  <2> QED
    BY <2>1, <2>2, KeptFits DEF SpaceInv
<1>7. ASSUME UNCHANGED vars PROVE SpaceInv'
  BY <1>7, KeptFits DEF vars, SpaceInv
<1> QED
  BY <1>1, <1>2, <1>3, <1>4, <1>5, <1>6, <1>7 DEF Next

\* GetCapacity promises exactly the space that the quota check of CreateVolume
\* grants, whatever races and late requests have done to the usage, when the
\* largest account that the limits allow fits the width.
THEOREM CapacityIsWhatTheQuotaAllows ==
    ASSUME CountLimit * DiskLimit * BytesInGigabyte <= MaxInt64
    PROVE  Spec => []CapacityPredictsQuota
<1>1. ASSUME TypeInv, SpaceInv PROVE CapacityPredictsQuota
  <2> SUFFICES ASSUME NEW size \in 1 .. DiskLimit
               PROVE  QuotaAllows(size) <=> size * BytesInGigabyte <= AvailableCapacity
    BY DEF CapacityPredictsQuota
  <2> DEFINE G == BytesInGigabyte
             D == DiskLimit
             room == D - Usage
  <2>1. Usage \in Nat /\ Count \in Nat /\ Usage <= Count * D
    BY <1>1, UsageBounds
  <2>2. G \in Nat \ {0} /\ D \in Nat /\ CountLimit \in Nat /\ MaxInt64 \in Nat
    BY WidthAssumption, BoundsAssumption
  <2>3. CASE Count >= CountLimit
    <3>1. AvailableCapacity = 0
      BY <2>3 DEF AvailableCapacity
    <3>2. size * G > 0
      BY <2>2
    <3>3. ~QuotaAllows(size)
      BY <2>1, <2>2, <2>3 DEF QuotaAllows
    <3> QED
      BY <2>2, <3>1, <3>2, <3>3
  <2>4. CASE Count < CountLimit
    <3>1. Count * D <= CountLimit * D /\ D <= CountLimit * D
      BY <2>1, <2>2, <2>4
    <3>2. Usage <= CountLimit * D /\ CountLimit * D \in Nat
      BY <2>1, <2>2, <3>1
    <3>3. room \in Int /\ room <= CountLimit * D /\ -(CountLimit * D) <= room
      BY <2>1, <2>2, <3>1, <3>2
    <3>4. -MaxInt64 <= room * G /\ room * G <= MaxInt64 /\ room * G \in Int
      <4> DEFINE B == CountLimit * D
      <4>1. B \in Nat /\ B * G <= MaxInt64
        BY <2>2, <3>2
      <4> HIDE DEF B, room, G
      <4>2. -B <= room /\ room <= B /\ room \in Int
        BY <3>3 DEF B
      <4>3. room * G <= B * G /\ -(B * G) <= room * G /\ room * G \in Int
        BY <2>2, <4>1, <4>2
      <4> QED
        BY <2>2, <4>1, <4>3
    <3>5. AvailableCapacity = room * G
      BY <2>1, <2>2, <2>4, <3>4, NoWrap DEF AvailableCapacity, CapacityBytes
    <3>6. size <= room <=> size * G <= room * G
      BY <2>2, <3>3
    <3>7. QuotaAllows(size) <=> size <= room
      BY <2>1, <2>2, <2>4 DEF QuotaAllows
    <3> QED
      BY <3>5, <3>6, <3>7
  <2> QED
    BY <2>1, <2>2, <2>3, <2>4
<1>2. TypeInv /\ SpaceInv => CapacityPredictsQuota
  BY <1>1
<1> QED
  BY <1>2, TypeInit, TypeNext, SpaceInit, SpaceNext, PTL DEF Spec

---------------------------------------------------------------------------
(* A handler runs out of steps.                                            *)

\* The API round trips that caller c's handler can still make before it returns.
RoundTripsLeft(c) ==
    CASE pc[c] = "list"              -> Retries + 4
      [] pc[c] = "quota"             -> Retries + 3
      [] pc[c] = "new"               -> Retries + 2
      [] pc[c] \in {"relist", "get"} -> Retries + 1
      [] pc[c] = "wait"              -> Retries - tries[c]
      [] OTHER                       -> 0

\* Each round trip uses one up, and only a new call gives a handler any.
RoundTripsBounded ==
    [][\A c \in Callers :
          /\ Step(c) => RoundTripsLeft(c)' < RoundTripsLeft(c)
          /\ RoundTripsLeft(c)' > RoundTripsLeft(c) => Call(c)]_vars

\* The polls are counted from the first one.
PollInv == \A c \in Callers : pc[c] # "wait" => tries[c] = 0

LEMMA PollNext == TypeInv /\ PollInv /\ [Next]_vars => PollInv'
<1> SUFFICES ASSUME TypeInv, PollInv, [Next]_vars PROVE PollInv'
  OBVIOUS
<1> USE DEF TypeInv, TypeOK, PollInv
<1>1. ASSUME NEW c \in Callers, Step(c) PROVE PollInv'
  <2>1. CASE \E r : Finish(c, r)
    BY <2>1 DEF Finish, Flight
  <2>2. CASE pc[c] # "wait" /\ \E label, i : Goto(c, label, i)
    BY <2>2 DEF Goto
  <2>3. CASE pc[c] = "wait" /\ tries' = [tries EXCEPT ![c] = @ + 1] /\ pc' = pc
    BY <2>3
  <2> QED
    BY <1>1, <2>1, <2>2, <2>3 DEF Step, List, Quota, New, Relist, Get, Wait
<1>2. ASSUME NEW c \in Callers, Call(c) PROVE PollInv'
  BY <1>2 DEF Call
<1>3. CASE Restart
  BY <1>3 DEF Restart
<1>4. CASE UNCHANGED <<pc, tries>>
  BY <1>4
<1> QED
  BY <1>1, <1>2, <1>3, <1>4
     DEF Next, vars, LateCreate, DeleteVolume, ApiBecomesAvailable, Forget

\* A round trip brings the handler nearer to its return.
LEMMA StepUsesOne ==
    ASSUME TypeInv, PollInv, NEW c \in Callers, Step(c)
    PROVE  RoundTripsLeft(c)' < RoundTripsLeft(c)
<1> USE RetriesAssumption DEF TypeInv, TypeOK, RoundTripsLeft
<1>1. pc[c] \in Working /\ tries[c] \in 0 .. Retries - 1
  BY StepMoves
<1>2. CASE \E r : Finish(c, r)
  <2>1. pc'[c] = "idle"
    BY <1>2 DEF Finish, Flight
  <2>2. RoundTripsLeft(c)' = 0
    BY <2>1
  <2>3. RoundTripsLeft(c) > 0
    BY <1>1 DEF Working
  <2> QED
    BY <2>2, <2>3
<1>3. CASE pc[c] = "wait" /\ tries' = [tries EXCEPT ![c] = @ + 1] /\ pc' = pc
  BY <1>1, <1>3
<1>4. CASE \/ pc[c] = "list" /\ \E i : Goto(c, "wait", i) \/ Goto(c, "quota", i)
           \/ pc[c] = "quota" /\ \E i : Goto(c, "new", i)
           \/ pc[c] = "new" /\ \E i : Goto(c, "get", i) \/ Goto(c, "relist", i)
           \/ pc[c] \in {"relist", "get"} /\ \E i : Goto(c, "wait", i)
  BY <1>1, <1>4 DEF Goto, PollInv
<1> QED
  BY <1>2, <1>3, <1>4 DEF Step, List, Quota, New, Relist, Get, Wait

\* Nobody else gives it a round trip more.
LEMMA OthersKeepThem ==
    ASSUME TypeInv, NEW c \in Callers, [Next]_vars, ~Step(c), ~Call(c)
    PROVE  RoundTripsLeft(c)' <= RoundTripsLeft(c)
<1> USE RetriesAssumption DEF TypeInv, TypeOK
<1>1. RoundTripsLeft(c) \in Nat
  <2>1. pc[c] \in Working \cup {"idle", "joined"} /\ tries[c] \in 0 .. Retries - 1
    OBVIOUS
  <2> QED
    BY <2>1 DEF RoundTripsLeft, Working
<1>2. CASE pc'[c] = "idle"
  <2>1. RoundTripsLeft(c)' = 0
    BY <1>2 DEF RoundTripsLeft
  <2> QED
    BY <1>1, <2>1
<1>3. CASE pc'[c] = pc[c] /\ tries'[c] = tries[c]
  <2>1. RoundTripsLeft(c)' = RoundTripsLeft(c)
    BY <1>3 DEF RoundTripsLeft
  <2> QED
    BY <1>1, <2>1
<1>4. ASSUME NEW d \in Callers, d # c, Step(d)
      PROVE  pc'[c] = "idle" \/ (pc'[c] = pc[c] /\ tries'[c] = tries[c])
  BY <1>4 DEF Step, List, Quota, New, Relist, Get, Wait, Goto, Finish
<1>5. ASSUME NEW d \in Callers, d # c, Call(d)
      PROVE  pc'[c] = pc[c] /\ tries'[c] = tries[c]
  BY <1>5 DEF Call
<1> QED
  BY <1>2, <1>3, <1>4, <1>5 DEF Next, vars, Restart, LateCreate, DeleteVolume,
                                ApiBecomesAvailable, Forget

\* A handler makes at most Retries + 4 round trips, whatever the API answers and
\* whatever others do meanwhile: with the fairness that a handler goes on, this is
\* why every call returns (waitForVolumeStatus, controller_server.go:256-270).
THEOREM HandlersRunOut == Spec => RoundTripsBounded
<1>1. ASSUME TypeInv, TypeInv', PollInv, [Next]_vars
      PROVE  [\A c \in Callers :
                 /\ Step(c) => RoundTripsLeft(c)' < RoundTripsLeft(c)
                 /\ RoundTripsLeft(c)' > RoundTripsLeft(c) => Call(c)]_vars
  <2> SUFFICES ASSUME NEW c \in Callers
               PROVE  /\ Step(c) => RoundTripsLeft(c)' < RoundTripsLeft(c)
                      /\ RoundTripsLeft(c)' > RoundTripsLeft(c) => Call(c)
    OBVIOUS
  <2>1. RoundTripsLeft(c) \in Int /\ RoundTripsLeft(c)' \in Int
    <3> USE RetriesAssumption DEF TypeInv, TypeOK, RoundTripsLeft
    <3>1. pc[c] \in Working \cup {"idle", "joined"} /\ tries[c] \in 0 .. Retries - 1
      BY <1>1
    <3>2. pc'[c] \in Working \cup {"idle", "joined"} /\ tries'[c] \in 0 .. Retries - 1
      BY <1>1
    <3>3. RoundTripsLeft(c) \in Int
      BY <3>1 DEF Working
    <3>4. RoundTripsLeft(c)' \in Int
      BY <3>2 DEF Working
    <3> QED
      BY <3>3, <3>4
  <2> QED
    BY <1>1, <2>1, StepUsesOne, OthersKeepThem
<1>2. Init => PollInv
  BY DEF Init, PollInv
<1> QED
  BY <1>1, <1>2, TypeInit, TypeNext, PollNext, PTL DEF Spec, RoundTripsBounded
===========================================================================
