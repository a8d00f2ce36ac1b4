-------------------------- MODULE MCCreateVolume --------------------------
(* Instances of CreateVolume for TLC, with gigabytes of four bytes: two    *)
(* callers ask for the first name with ranges that round to one size, or   *)
(* to two, and a third one for another name or for the first as well.      *)
EXTENDS CreateVolume, TLC

CONSTANTS c1, c2, c3, a, b

MCCallers == {c1, c2, c3}
MCNames == {a, b}

TwoNames == (c1 :> a) @@ (c2 :> a) @@ (c3 :> b)
OneName == [c \in MCCallers |-> a]

Required(bytes) == [required |-> bytes, limit |-> 0]
AtMost(bytes) == [required |-> 0, limit |-> bytes]

\* One, one and one GB, the last within a range that holds no whole GB.
OneGBEach == (c1 :> Required(1)) @@ (c2 :> AtMost(4))
                 @@ (c3 :> [required |-> 2, limit |-> 3])
\* Two, one and, by default, two GB.
Unequal == (c1 :> Required(5)) @@ (c2 :> AtMost(3)) @@ (c3 :> NoRange)
===========================================================================
