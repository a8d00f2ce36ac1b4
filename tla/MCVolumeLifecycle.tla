------------------------- MODULE MCVolumeLifecycle -------------------------
(* Instances of VolumeLifecycle for TLC.                                   *)
EXTENDS VolumeLifecycle, TLC

CONSTANTS n1, n2, h1, h2

OneNode == {n1}
TwoNodes == {n1, n2}
OneSlot == {h1}
TwoSlots == {h1, h2}

OnOneNode == [h \in Slots |-> n1]
OnePerNode == (h1 :> n1) @@ (h2 :> n2)

OneSize == {1}
TwoSizes == {1, 2}
===========================================================================
