---------------------- MODULE IdempotentCreate_proofs ----------------------
(***************************************************************************)
(* CreateVolume implements IdempotentCreate when no create request         *)
(* outlives the handler that sent it, for every set of callers, names and  *)
(* ids, whether or not the API knows of names.                             *)
(***************************************************************************)
EXTENDS CreateVolume_proofs

\* What the refinement rests on besides types and the invariants of flights
\* and names: every volume has a name, a name that the provisioner has been
\* told of is asked for by nobody, and it has been told of one volume for it.
BoundInv ==
    /\ \A i \in Ids : vol[i].status # "unused" => vol[i].name \in Names
    /\ \A i \in known : /\ vol[i].status # "unused"
                        /\ \A c \in Callers : NameOf[c] = vol[i].name => pc[c] = "idle"
    /\ \A i, j \in known : vol[i].name = vol[j].name => i = j

PromiseInv == TypeInv /\ FlightInv /\ NameInv /\ WorkInv /\ BoundInv

---------------------------------------------------------------------------
(* The invariant.                                                          *)

LEMMA AskedKept ==
    ASSUME VolumesKept, NEW c, NEW i, Asked(vol, c, i)
    PROVE  Asked(vol', c, i)
BY DEF Asked, VolumesKept

\* A handler comes to a volume by finding or creating one it asked for.
LEMMA WorkStep ==
    ASSUME TypeInv, VolumesKept, WorkInv, NEW c \in Callers, Step(c),
           NEW d \in Callers, pc'[d] \in {"get", "wait"}
    PROVE  Asked(vol', d, cur'[d])
<1> USE RequestsTyped DEF TypeInv, TypeOK
<1>1. CASE pc[d] \in {"get", "wait"} /\ cur'[d] = cur[d]
  BY <1>1, AskedKept DEF WorkInv
<1>2. CASE ~(pc[d] \in {"get", "wait"} /\ cur'[d] = cur[d])
  <2>1. \/ List(c) /\ vol' = vol /\ \E i \in Named(NameOf[c]) :
                SizeMatches(c, i) /\ Goto(c, "wait", i)
        \/ \E i \in Ids : ApiCreate(c, i) /\ Goto(c, "get", i)
        \/ Relist(c) /\ vol' = vol /\ \E i \in Named(NameOf[c]) :
                SizeMatches(c, i) /\ Goto(c, "wait", i)
    BY <1>2 DEF Step, List, Quota, New, Relist, Get, Wait, Goto, Finish, Flight
  <2>2. d = c
    BY <1>2, <2>1 DEF Goto
  <2>3. CASE \E i \in Named(NameOf[c]) :
                 vol' = vol /\ SizeMatches(c, i) /\ Goto(c, "wait", i)
    BY <2>2, <2>3 DEF Named, Live, SizeMatches, Goto, Asked
  <2>4. CASE \E i \in Ids : ApiCreate(c, i) /\ Goto(c, "get", i)
    BY <2>2, <2>4 DEF ApiCreate, Goto, Asked
  <2> QED
    BY <2>1, <2>3, <2>4
<1> QED
  BY <1>1, <1>2

LEMMA WorkNext == TypeInv /\ WorkInv /\ [Next]_vars => WorkInv'
<1> SUFFICES ASSUME TypeInv, WorkInv, [Next]_vars,
                    NEW d \in Callers, pc'[d] \in {"get", "wait"}
             PROVE  Asked(vol', d, cur'[d])
  BY DEF WorkInv
<1> USE DEF TypeInv, TypeOK
<1>1. VolumesKept
  BY VolumesStep
<1>2. CASE \E c \in Callers : Step(c)
  BY <1>1, <1>2, WorkStep
<1>3. CASE pc[d] \in {"get", "wait"} /\ cur'[d] = cur[d]
  BY <1>1, <1>3, AskedKept DEF WorkInv
<1> QED
  BY <1>2, <1>3 DEF Next, vars, Call, LateCreate, DeleteVolume,
                    ApiBecomesAvailable, Forget, Restart

\* The names of the volumes, and those of what the provisioner knows, last.
LEMMA BoundKept ==
    ASSUME TypeInv, BoundInv, VolumesKept, known' \subseteq known,
           \A c \in Callers : pc[c] = "idle" =>
               pc'[c] = "idle" \/ \A i \in known : vol[i].name # NameOf[c],
           \A i \in Ids : vol[i].status = "unused" =>
               vol'[i] = vol[i] \/ vol'[i].name \in Names
    PROVE  BoundInv'
<1>1. \A i \in known' : i \in known /\ vol'[i].name = vol[i].name
                        /\ vol'[i].status # "unused"
  BY DEF BoundInv, VolumesKept, TypeInv, TypeOK
<1>2. \A i \in Ids : vol'[i].status # "unused" => vol'[i].name \in Names
  BY DEF BoundInv, VolumesKept
<1> QED
  BY <1>1, <1>2 DEF BoundInv

\* A success is told under a name nobody was told a volume for, and all who
\* asked for it are answered.
LEMMA BoundSuccess ==
    ASSUME TypeInv, FlightInv, WorkInv, BoundInv, NEW c \in Callers,
           pc[c] = "wait", vol' = vol, NEW r, r.id = cur[c],
           r.code = "OK", Finish(c, r)
    PROVE  BoundInv'
<1> USE RequestsTyped DEF TypeInv, TypeOK
<1>1. \A d \in Callers : pc'[d] = IF d \in Flight(c) THEN "idle" ELSE pc[d]
  BY DEF Finish
<1>2. ASSUME NEW d \in Callers, NameOf[d] = NameOf[c] PROVE pc'[d] = "idle"
  BY <1>1, <1>2 DEF Flight, FlightInv, Working
<1>3. \A i \in known : vol[i].name # NameOf[c]
  BY DEF BoundInv
<1>4. cur[c] \in Ids /\ vol[cur[c]].name = NameOf[c] /\ vol[cur[c]].status # "unused"
  BY DEF WorkInv, Asked
<1>5. known' = known \cup {cur[c]}
  BY DEF Finish
<1> QED
  BY <1>1, <1>2, <1>3, <1>4, <1>5 DEF BoundInv

\* New volumes have names.
LEMMA NewVolumesNamed ==
    ASSUME TypeInv, [Next]_vars, NEW i \in Ids, vol[i].status = "unused"
    PROVE  vol'[i] = vol[i] \/ vol'[i].name \in Names
<1> USE RequestsTyped DEF TypeInv, TypeOK
<1>1. ASSUME NEW c \in Callers, NEW j \in Ids, ApiCreate(c, j)
      PROVE  vol'[i] = vol[i] \/ vol'[i].name \in Names
  BY <1>1 DEF ApiCreate
<1>2. CASE \E c \in Callers : Step(c) \/ LateCreate(c)
  BY <1>1, <1>2 DEF Step, List, Quota, New, Relist, Get, Wait, LateCreate
<1>3. CASE \E j \in Ids : DeleteVolume(j) \/ ApiBecomesAvailable(j)
  BY <1>3 DEF DeleteVolume, ApiBecomesAvailable, Live
<1>4. CASE vol' = vol
  BY <1>4
<1> QED
  BY <1>2, <1>3, <1>4 DEF Next, vars, Call, Forget, Restart

LEMMA BoundNext ==
    TypeInv /\ FlightInv /\ WorkInv /\ BoundInv /\ [Next]_vars => BoundInv'
<1> SUFFICES ASSUME TypeInv, FlightInv, WorkInv, BoundInv, [Next]_vars
             PROVE  BoundInv'
  OBVIOUS
<1> USE DEF TypeInv, TypeOK
<1>1. VolumesKept
  BY VolumesStep
<1>2. \A i \in Ids : vol[i].status = "unused" =>
          vol'[i] = vol[i] \/ vol'[i].name \in Names
  BY NewVolumesNamed
<1>3. ASSUME NEW c \in Callers, Call(c) PROVE BoundInv'
  <2>1. known' = known /\ \A d \in Callers : d # c => pc'[d] = pc[d]
    BY <1>3 DEF Call
  <2>2. \A i \in known : vol[i].name # NameOf[c]
    BY <1>3 DEF Call, Wants
  <2> QED
    BY <1>1, <1>2, <2>1, <2>2, BoundKept
<1>4. ASSUME NEW c \in Callers, Step(c) PROVE BoundInv'
  <2>1. \/ pc[c] = "wait" /\ vol' = vol /\ Finish(c, [code |-> "OK", id |-> cur[c],
                        bytes |-> CapacityBytes(SizeOf[c])])
        \/ known' = known /\ \A d \in Callers : pc[d] = "idle" => pc'[d] = "idle"
    BY <1>4 DEF Step, List, Quota, New, Relist, Get, Wait, Finish, Goto, Err
  <2>2. CASE known' = known /\ \A d \in Callers : pc[d] = "idle" => pc'[d] = "idle"
    BY <1>1, <1>2, <2>2, BoundKept
  <2> QED
    BY <2>1, <2>2, BoundSuccess
<1>5. CASE Restart
  <2>1. known' = known /\ \A d \in Callers : pc'[d] = "idle"
    BY <1>5 DEF Restart
  <2> QED
    BY <1>1, <1>2, <2>1, BoundKept
<1>6. CASE pc' = pc /\ known' \subseteq known
  BY <1>1, <1>2, <1>6, BoundKept
<1> QED
  BY <1>3, <1>4, <1>5, <1>6
     DEF Next, vars, LateCreate, DeleteVolume, ApiBecomesAvailable, Forget

LEMMA PromiseInvInit == Init => PromiseInv
<1> SUFFICES ASSUME Init PROVE PromiseInv
  OBVIOUS
<1>1. WorkInv /\ BoundInv
  BY DEF Init, WorkInv, BoundInv
<1> QED
  BY <1>1, TypeInit, FlightInit, NameInit DEF PromiseInv

LEMMA PromiseInvNext == PromiseInv /\ [Next]_vars => PromiseInv'
BY TypeNext, FlightNext, NameNext, WorkNext, BoundNext DEF PromiseInv

---------------------------------------------------------------------------
(* The refinement mapping.                                                 *)

Volumes == [n \in Names |-> VolumeOf(n)]
Pending == {c \in Callers : pc[c] # "idle"}
LastAnswer == [c \in Callers |-> Answer(reply[c])]
Bound == {vol[i].name : i \in known}

\* What is known of the account by name changes only where a volume changes.
LEMMA VolumesSame ==
    ASSUME NEW n \in Names,
           \A i \in Ids : /\ (Live(i) /\ vol[i].name = n)' <=> (Live(i) /\ vol[i].name = n)
                          /\ Live(i) /\ vol[i].name = n => vol'[i].status = vol[i].status
    PROVE  Volumes'[n] = Volumes[n]
<1>1. Named(n)' = Named(n)
  BY DEF Named
<1>2. (\E i \in Named(n) : vol[i].status = "available")'
          <=> \E i \in Named(n) : vol[i].status = "available"
  BY <1>1 DEF Named
<1> QED
  BY <1>1, <1>2 DEF Volumes, VolumeOf

LEMMA VolumesUnchanged ==
    ASSUME vol' = vol
    PROVE  Volumes' = Volumes
BY DEF Volumes, VolumeOf, Named, Live

\* A change of one volume shows under its name alone.
LEMMA VolumesChange ==
    ASSUME TypeInv, NEW i \in Ids, NEW m \in Names, OneVolumePerName',
           \A j \in Ids : j # i => vol'[j] = vol[j],
           vol'[i].name = m, vol[i].status # "unused" => vol[i].name = m
    PROVE  /\ Live(i)' => Volumes' = [Volumes EXCEPT ![m] = vol'[i].status]
           /\ Live(i) /\ ~Live(i)' /\ OneVolumePerName
                  => Volumes' = [Volumes EXCEPT ![m] = "none"]
<1> USE DEF TypeInv, TypeOK
<1>1. ASSUME NEW n \in Names, n # m PROVE Volumes'[n] = Volumes[n]
  <2>1. \A j \in Ids : /\ (Live(j) /\ vol[j].name = n)' <=> (Live(j) /\ vol[j].name = n)
                       /\ Live(j) /\ vol[j].name = n => vol'[j].status = vol[j].status
    BY <1>1 DEF Live
  <2> QED
    BY <2>1, VolumesSame
<1>2. ASSUME Live(i)' PROVE Volumes'[m] = vol'[i].status
  <2>1. Named(m)' = {i}
    BY <1>2 DEF Named, OneVolumePerName
  <2> QED
    BY <1>2, <2>1 DEF Volumes, VolumeOf, Live
<1>3. ASSUME Live(i), ~Live(i)', OneVolumePerName PROVE Volumes'[m] = "none"
  <2>1. Named(m)' = {}
    BY <1>3 DEF Named, OneVolumePerName, Live
  <2> QED
    BY <2>1 DEF Volumes, VolumeOf
<1>4. Volumes = [n \in Names |-> Volumes[n]] /\ Volumes' = [n \in Names |-> Volumes'[n]]
  BY DEF Volumes
<1> QED
  BY <1>1, <1>2, <1>3, <1>4

\* A volume that is created while its name is asked for, and has none.
LEMMA CreatesShown ==
    ASSUME TypeInv, OneVolumePerName', NEW c \in Callers, NEW i \in Ids,
           ApiCreate(c, i), Named(NameOf[c]) = {}, pc[c] # "idle"
    PROVE  Promise!Creates(NameOf[c])
<1> USE RequestsTyped DEF TypeInv, TypeOK
<1>1. c \in Promise!Waiting(NameOf[c])
  BY DEF Promise!Waiting
<1>2. Volumes[NameOf[c]] = "none"
  BY DEF Volumes, VolumeOf
<1>3. Live(i)' /\ vol'[i].status = "creating" /\ vol'[i].name = NameOf[c]
      /\ vol[i].status = "unused" /\ \A j \in Ids : j # i => vol'[j] = vol[j]
  BY DEF ApiCreate, Unused, Live
<1>4. Volumes' = [Volumes EXCEPT ![NameOf[c]] = "creating"]
  BY <1>3, VolumesChange
<1> QED
  BY <1>1, <1>2, <1>4 DEF Promise!Creates, Volumes

\* The end of a flight answers all who wait for its name.
LEMMA FinishShown ==
    ASSUME TypeInv, FlightInv, NEW c \in Callers, pc[c] \in Working,
           NEW r, Finish(c, r)
    PROVE  Promise!Answers(NameOf[c], Answer(r))
<1> USE RequestsTyped DEF TypeInv, TypeOK
<1>1. \A d \in Callers :
          d \in Flight(c) <=> pc[d] # "idle" /\ NameOf[d] = NameOf[c]
  BY DEF Flight, FlightInv, Working
<1>2. Promise!Waiting(NameOf[c]) = Flight(c)
  BY <1>1 DEF Promise!Waiting, Flight
<1>3. c \in Flight(c)
  BY DEF Flight
<1>4. Pending' = Pending \ Flight(c)
  BY <1>1 DEF Finish, Pending
<1>5. LastAnswer' = [d \in Callers |-> IF d \in Flight(c) THEN Answer(r)
                                                         ELSE LastAnswer[d]]
  <2>1. \A d \in Callers : LastAnswer'[d] = IF d \in Flight(c) THEN Answer(r)
                                                               ELSE LastAnswer[d]
    BY DEF Finish, LastAnswer
  <2> QED
    BY <2>1 DEF LastAnswer
<1> QED
  BY <1>2, <1>3, <1>4, <1>5 DEF Promise!Answers, Pending, LastAnswer

\* Volumes keep their names.
LEMMA BoundSame ==
    ASSUME TypeInv, BoundInv, VolumesKept, known' = known
    PROVE  Bound' = Bound
BY DEF Bound, BoundInv, VolumesKept, TypeInv, TypeOK

\* A flight that ends in an error, with or without a volume that was created.
LEMMA ErrorShown ==
    ASSUME TypeInv, FlightInv, BoundInv, VolumesKept,
           NEW c \in Callers, pc[c] \in Working,
           NEW code \in {"AlreadyExists", "OutOfRange", "Unknown"},
           Finish(c, Err(code)),
           vol' = vol \/ Promise!Creates(NameOf[c])
    PROVE  Promise!Fail(NameOf[c])
<1> USE DEF TypeInv, TypeOK
<1>1. Promise!Answers(NameOf[c], "failed")
  <2>1. Answer(Err(code)) = "failed"
    BY DEF Answer, Err
  <2> QED
    BY <2>1, FinishShown
<1>2. Bound' = Bound
  <2>1. known' = known
    BY DEF Finish, Err
  <2> QED
    BY <2>1, BoundSame
<1>3. Volumes' = Volumes \/ Promise!Creates(NameOf[c])
  BY VolumesUnchanged
<1> QED
  BY <1>1, <1>2, <1>3 DEF Promise!Fail, Bound, Volumes

\* A flight that ends with a volume.
LEMMA SuccessShown ==
    ASSUME PromiseInv, NEW c \in Callers, pc[c] = "wait",
           Available(cur[c]), vol' = vol,
           Finish(c, [code |-> "OK", id |-> cur[c],
                        bytes |-> CapacityBytes(SizeOf[c])])
    PROVE  Promise!Succeed(NameOf[c])
<1> USE RequestsTyped DEF TypeInv, TypeOK, PromiseInv
<1>1. cur[c] \in Named(NameOf[c])
  BY DEF WorkInv, Asked, Available, Named, Live
<1>2. Volumes[NameOf[c]] = "available"
  BY <1>1 DEF Volumes, VolumeOf, Available
<1>3. Promise!Answers(NameOf[c], "OK")
  <2>1. PICK r : r = [code |-> "OK", id |-> cur[c],
                      bytes |-> CapacityBytes(SizeOf[c])]
    OBVIOUS
  <2>2. Finish(c, r)
    BY <2>1 DEF Finish
  <2>3. Promise!Answers(NameOf[c], Answer(r))
    BY <2>2, FinishShown DEF Working
  <2>4. Answer(r) = "OK"
    BY <2>1 DEF Answer
  <2> QED
    BY <2>3, <2>4
<1>4. Bound' = Bound \cup {NameOf[c]}
  <2>1. known' = known \cup {cur[c]} /\ vol[cur[c]].name = NameOf[c]
    BY <1>1 DEF Finish, Named
  <2> QED
    BY <2>1 DEF Bound
<1>5. Volumes' = Volumes
  BY VolumesUnchanged
<1> QED
  BY <1>2, <1>3, <1>4, <1>5 DEF Promise!Succeed, Volumes, Bound

\* A handler that goes on shows nothing.
LEMMA GotoShown ==
    ASSUME TypeInv, NEW c \in Callers, pc[c] \in Working, NEW label \in Working,
           NEW i, Goto(c, label, i)
    PROVE  Pending' = Pending /\ LastAnswer' = LastAnswer /\ known' = known
<1> USE DEF TypeInv, TypeOK
<1>1. \A d \in Callers : pc'[d] # "idle" <=> pc[d] # "idle"
  BY DEF Goto, Working
<1> QED
  BY <1>1 DEF Goto, Pending, LastAnswer

\* One API round trip of a handler.
LEMMA StepShown ==
    ASSUME PromiseInv, OneVolumePerName', ~LateRequests, VolumesKept,
           NEW c \in Callers, Step(c)
    PROVE  \/ Promise!Create(NameOf[c]) \/ Promise!Succeed(NameOf[c])
           \/ Promise!Fail(NameOf[c]) \/ UNCHANGED Promise!vars
<1> USE RequestsTyped DEF TypeInv, TypeOK, PromiseInv
<1> DEFINE Goal == \/ Promise!Create(NameOf[c]) \/ Promise!Succeed(NameOf[c])
                   \/ Promise!Fail(NameOf[c]) \/ UNCHANGED Promise!vars
<1>1. pc[c] \in Working
  BY StepMoves
<1>2. ASSUME NEW code \in {"AlreadyExists", "OutOfRange", "Unknown"},
             Finish(c, Err(code)), vol' = vol
      PROVE  Goal
  BY <1>1, <1>2, ErrorShown
<1>3. ASSUME NEW label \in Working, NEW i, Goto(c, label, i), vol' = vol
      PROVE  Goal
  <2>1. Pending' = Pending /\ LastAnswer' = LastAnswer /\ Bound' = Bound
    BY <1>1, <1>3, GotoShown, BoundSame
  <2>2. Volumes' = Volumes
    BY <1>3, VolumesUnchanged
  <2> QED
    BY <2>1, <2>2 DEF Promise!vars, Pending, LastAnswer, Bound, Volumes
<1>4. CASE New(c)
  <2>1. ASSUME NEW i \in Ids, ApiCreate(c, i) PROVE Promise!Creates(NameOf[c])
    <3>1. Named(NameOf[c]) = {}
      BY <1>4 DEF New, NameInv, FreshBeforeCreate
    <3> QED
      BY <1>1, <2>1, <3>1, CreatesShown DEF Working
  <2>2. ASSUME NEW i \in Ids, ApiCreate(c, i), Goto(c, "get", i) PROVE Goal
    <3>1. Pending' = Pending /\ LastAnswer' = LastAnswer /\ Bound' = Bound
      BY <1>1, <2>2, GotoShown, BoundSame DEF Working
    <3> QED
      BY <2>1, <2>2, <3>1 DEF Promise!Create, Pending, LastAnswer, Bound
  <2>3. ASSUME NEW i \in Ids, ApiCreate(c, i), Finish(c, Err("Unknown")) PROVE Goal
    BY <1>1, <2>1, <2>3, ErrorShown
  <2> QED
    BY <1>2, <1>3, <1>4, <2>2, <2>3 DEF New, Working
<1>5. CASE Wait(c)
  <2>1. ASSUME UNCHANGED <<pc, reply, known, vol>> PROVE Goal
    BY <2>1, VolumesUnchanged
       DEF Promise!vars, Pending, LastAnswer, Bound, Volumes
  <2>2. pc[c] = "wait"
    BY <1>5 DEF Wait
  <2>3. ASSUME Available(cur[c]), vol' = vol,
               Finish(c, [code |-> "OK", id |-> cur[c],
                        bytes |-> CapacityBytes(SizeOf[c])])
        PROVE  Goal
    BY <2>2, <2>3, SuccessShown
  <2> QED
    BY <1>2, <1>5, <2>1, <2>3 DEF Wait
<1>6. CASE List(c) \/ Quota(c) \/ Relist(c) \/ Get(c)
  BY <1>2, <1>3, <1>6 DEF List, Quota, Relist, Get, Working
<1> QED
  BY <1>4, <1>5, <1>6 DEF Step

LEMMA PromiseInit == Init => Promise!Init
<1> SUFFICES ASSUME Init PROVE Promise!Init
  OBVIOUS
<1>1. \A n \in Names : VolumeOf(n) = "none"
  BY DEF Init, VolumeOf, Named, Live
<1>2. {c \in Callers : pc[c] # "idle"} = {} /\ {vol[i].name : i \in known} = {}
  BY DEF Init
<1>3. \A c \in Callers : Answer(reply[c]) = "none"
  BY DEF Init, Err, Answer
<1> QED
  BY <1>1, <1>2, <1>3 DEF Promise!Init

LEMMA PromiseNext ==
    ASSUME ~LateRequests
    PROVE  PromiseInv /\ [Next]_vars => [Promise!Next]_(Promise!vars)
<1> SUFFICES ASSUME PromiseInv, [Next]_vars
             PROVE  [Promise!Next]_(Promise!vars)
  OBVIOUS
<1> USE RequestsTyped DEF TypeInv, TypeOK, PromiseInv
<1>1. VolumesKept
  BY VolumesStep
<1>2. OneVolumePerName /\ OneVolumePerName'
  BY PromiseInvNext DEF NameInv
<1>3. ASSUME NEW c \in Callers, Call(c) PROVE Promise!Ask(c)
  <2>1. c \notin Pending /\ NameOf[c] \notin Bound
    BY <1>3 DEF Call, Wants, Pending, Bound
  <2>2. Pending' = Pending \cup {c}
    BY <1>3 DEF Call, Pending
  <2>3. LastAnswer' = [LastAnswer EXCEPT ![c] = "none"]
    <3>1. \A d \in Callers : LastAnswer'[d] = IF d = c THEN "none" ELSE LastAnswer[d]
      BY <1>3 DEF Call, LastAnswer, Answer, Err
    <3> QED
      BY <3>1 DEF LastAnswer
  <2>4. Volumes' = Volumes /\ Bound' = Bound
    BY <1>1, <1>3, VolumesUnchanged, BoundSame DEF Call
  <2> QED
    BY <2>1, <2>2, <2>3, <2>4 DEF Promise!Ask, Pending, LastAnswer, Volumes, Bound
<1>4. ASSUME NEW c \in Callers, Step(c) PROVE [Promise!Next]_(Promise!vars)
  BY <1>1, <1>2, <1>4, StepShown DEF Promise!Next
<1>5. ASSUME NEW c \in Callers, LateCreate(c) PROVE FALSE
  BY <1>5 DEF LateCreate, NameInv
<1>6. ASSUME NEW i \in Ids, DeleteVolume(i)
      PROVE  \E n \in Names : Promise!Delete(n)
  <2> DEFINE n == vol[i].name
  <2>1. n \in Names /\ n \in Bound /\ i \in Named(n)
    BY <1>6 DEF DeleteVolume, Live, BoundInv, Bound, Named
  <2>2. Volumes[n] # "none"
    BY <2>1 DEF Volumes, VolumeOf
  <2>3. Volumes' = [Volumes EXCEPT ![n] = "none"]
    <3>1. Live(i) /\ ~Live(i)' /\ vol'[i].name = n
          /\ \A j \in Ids : j # i => vol'[j] = vol[j]
      BY <1>6 DEF DeleteVolume, Live
    <3> QED
      BY <1>2, <2>1, <3>1, VolumesChange
  <2>4. Pending' = Pending /\ LastAnswer' = LastAnswer /\ Bound' = Bound
    BY <1>1, <1>6, BoundSame DEF DeleteVolume, Pending, LastAnswer
  <2> QED
    BY <2>1, <2>2, <2>3, <2>4
       DEF Promise!Delete, Pending, LastAnswer, Volumes, Bound
<1>7. ASSUME NEW i \in Ids, ApiBecomesAvailable(i)
      PROVE  \E n \in Names : Promise!Ready(n)
  <2> DEFINE n == vol[i].name
  <2>1. n \in Names /\ Live(i) /\ i \in Named(n)
    BY <1>7 DEF ApiBecomesAvailable, Live, BoundInv, Named
  <2>2. Volumes[n] = "creating"
    BY <1>2, <1>7, <2>1
       DEF ApiBecomesAvailable, Volumes, VolumeOf, Named, OneVolumePerName
  <2>3. Volumes' = [Volumes EXCEPT ![n] = "available"]
    <3>1. Live(i)' /\ vol'[i].name = n /\ vol'[i].status = "available"
          /\ \A j \in Ids : j # i => vol'[j] = vol[j]
      BY <1>7 DEF ApiBecomesAvailable, Live
    <3> QED
      BY <1>2, <2>1, <3>1, VolumesChange
  <2>4. Pending' = Pending /\ LastAnswer' = LastAnswer /\ Bound' = Bound
    BY <1>1, <1>7, BoundSame DEF ApiBecomesAvailable, Pending, LastAnswer
  <2> QED
    BY <2>1, <2>2, <2>3, <2>4
       DEF Promise!Ready, Pending, LastAnswer, Volumes, Bound
<1>8. ASSUME NEW i \in Ids, Forget(i)
      PROVE  \E n \in Names : Promise!Forget(n)
  <2> DEFINE n == vol[i].name
  <2>1. n \in Names /\ n \in Bound /\ i \in Named(n)
    BY <1>8 DEF Forget, Live, BoundInv, Bound, Named
  <2>2. Volumes[n] # "none"
    BY <2>1 DEF Volumes, VolumeOf
  <2>3. Bound' = Bound \ {n}
    <3>1. known' = known \ {i} /\ vol' = vol /\ i \in known
      BY <1>8 DEF Forget
    <3> QED
      BY <3>1 DEF Bound, BoundInv
  <2>4. Pending' = Pending /\ LastAnswer' = LastAnswer /\ Volumes' = Volumes
    BY <1>8, VolumesUnchanged DEF Forget, Pending, LastAnswer
  <2> QED
    BY <2>1, <2>2, <2>3, <2>4
       DEF Promise!Forget, Pending, LastAnswer, Volumes, Bound
<1>9. ASSUME Restart PROVE Promise!Restart
  <2>1. Pending' = {}
    BY <1>9 DEF Restart, Pending
  <2>2. LastAnswer' = [c \in Callers |-> "none"]
    BY <1>9 DEF Restart, LastAnswer, Answer, Err
  <2>3. Volumes' = Volumes /\ Bound' = Bound
    BY <1>1, <1>9, VolumesUnchanged, BoundSame DEF Restart
  <2> QED
    BY <2>1, <2>2, <2>3 DEF Promise!Restart, Pending, LastAnswer, Volumes, Bound
<1>10. ASSUME UNCHANGED vars PROVE UNCHANGED Promise!vars
  BY <1>10, VolumesUnchanged DEF vars, Promise!vars, Volumes
<1> QED
  BY <1>3, <1>4, <1>5, <1>6, <1>7, <1>8, <1>9, <1>10 DEF Next, Promise!Next

\* What happens to ids, retries, shared flights and lost answers is, seen by
\* name, what IdempotentCreate allows: nobody who asked is left out of an
\* answer, no name has a volume made for it unasked or a second one, and no
\* success is told before the volume is available.
THEOREM CreateIsIdempotent ==
    ASSUME ~LateRequests
    PROVE  Spec => ImplementsIdempotentCreate
BY PromiseInvInit, PromiseInvNext, PromiseInit, PromiseNext, PTL
   DEF Spec, ImplementsIdempotentCreate, Promise!Spec

---------------------------------------------------------------------------
(* What a leader is answered.                                              *)

\* A leader's success is about an available volume of its own name and size, whatever
\* sizes others ask for under that name and whatever requests come late: unlike a
\* follower's (RepliesAreRight), it needs no assumption on the callers.
THEOREM LeadersAnswersFit == Spec => LeaderReplyMatches
<1>1. ASSUME TypeInv, WorkInv, [Next]_vars, NEW c \in Callers,
             pc[c] \in Working, reply'[c] # reply[c], reply'[c].code = "OK"
      PROVE  LET v == vol[reply'[c].id] IN
             v.status = "available" /\ v.name = NameOf[c] /\ v.size = SizeOf[c]
  <2>1. PICK d \in Callers : Step(d)
    BY <1>1 DEF Next, vars, Call, LateCreate, DeleteVolume, ApiBecomesAvailable, Forget,
                Restart, Err, TypeInv, TypeOK, Working
  <2>2. PICK r : Finish(d, r)
    BY <1>1, <2>1 DEF Step, List, Quota, New, Relist, Get, Wait, Goto
  <2>3. c \in Flight(d) /\ reply'[c] = r
    BY <1>1, <2>2 DEF Finish
  <2>4. c = d
    BY <1>1, <2>3 DEF Flight, Working
  <2>5. Wait(c) /\ Available(cur[c]) /\ r.id = cur[c]
    <3>1. r.code = "OK"
      BY <1>1, <2>3
    <3> QED
      BY <1>1, <2>1, <2>3, <2>4, <3>1
         DEF Step, List, Quota, New, Relist, Get, Wait, Goto, Finish, Err, TypeInv, TypeOK
  <2> QED
    BY <1>1, <2>3, <2>5 DEF Wait, WorkInv, Asked, Available
<1>2. TypeInv /\ WorkInv /\ [Next]_vars =>
      [\A c \in Callers :
          pc[c] \in Working /\ reply'[c] # reply[c] /\ reply'[c].code = "OK" =>
              LET v == vol[reply'[c].id] IN
              v.status = "available" /\ v.name = NameOf[c] /\ v.size = SizeOf[c]]_vars
  BY <1>1
<1>3. Init => WorkInv
  BY DEF Init, WorkInv
<1> QED
  BY <1>2, <1>3, TypeInit, TypeNext, WorkNext, PTL DEF Spec, LeaderReplyMatches
===========================================================================
