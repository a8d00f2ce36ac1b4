------------------------- MODULE IdempotentCreate -------------------------
(***************************************************************************)
(* What CreateVolume and DeleteVolume promise the provisioner: a name      *)
(* stands for one volume at most, which comes into being only while the    *)
(* name is being asked for, is told of only when it is available, and to   *)
(* all who asked at once, and is lost only when its deletion is asked for. *)
(***************************************************************************)
CONSTANTS Callers, Names, NameOf

VARIABLES
    volume,     \* name -> what there is of its volume
    pending,    \* the callers that wait for an answer
    answer,     \* caller -> the last answer
    bound       \* names that the provisioner has been told of a volume for

vars == <<volume, pending, answer, bound>>

Init ==
    /\ volume = [n \in Names |-> "none"]
    /\ pending = {}
    /\ answer = [c \in Callers |-> "none"]
    /\ bound = {}

Waiting(n) == {c \in pending : NameOf[c] = n}

Ask(c) ==
    /\ c \notin pending /\ NameOf[c] \notin bound
    /\ pending' = pending \cup {c}
    /\ answer' = [answer EXCEPT ![c] = "none"]
    /\ UNCHANGED <<volume, bound>>

Creates(n) ==
    /\ Waiting(n) # {}
    /\ volume[n] = "none" /\ volume' = [volume EXCEPT ![n] = "creating"]

Create(n) == Creates(n) /\ UNCHANGED <<pending, answer, bound>>

Ready(n) ==
    /\ volume[n] = "creating" /\ volume' = [volume EXCEPT ![n] = "available"]
    /\ UNCHANGED <<pending, answer, bound>>

\* Nobody who asked for the name is left without the answer.
Answers(n, a) ==
    /\ Waiting(n) # {}
    /\ pending' = pending \ Waiting(n)
    /\ answer' = [c \in Callers |-> IF c \in Waiting(n) THEN a ELSE answer[c]]

Succeed(n) ==
    /\ volume[n] = "available"
    /\ Answers(n, "OK") /\ bound' = bound \cup {n}
    /\ UNCHANGED volume

\* An error says nothing of the volume, which may just have come into being.
Fail(n) ==
    /\ Answers(n, "failed")
    /\ Creates(n) \/ UNCHANGED volume
    /\ UNCHANGED bound

\* The answers are lost with the process that was to give them.
Restart ==
    /\ pending' = {} /\ answer' = [c \in Callers |-> "none"]
    /\ UNCHANGED <<volume, bound>>

Delete(n) ==
    /\ n \in bound
    /\ volume[n] # "none" /\ volume' = [volume EXCEPT ![n] = "none"]
    /\ UNCHANGED <<pending, answer, bound>>

\* The provisioner loses what it was told before it has saved it.
Forget(n) ==
    /\ n \in bound /\ volume[n] # "none"
    /\ bound' = bound \ {n}
    /\ UNCHANGED <<volume, pending, answer>>

Next ==
    \/ \E c \in Callers : Ask(c)
    \/ \E n \in Names : \/ Create(n) \/ Ready(n) \/ Succeed(n) \/ Fail(n)
                        \/ Delete(n) \/ Forget(n)
    \/ Restart

Spec == Init /\ [][Next]_vars
===========================================================================
