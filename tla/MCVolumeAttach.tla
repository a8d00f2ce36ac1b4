-------------------------- MODULE MCVolumeAttach --------------------------
(* Instances of VolumeAttach for TLC, with gigabytes of four bytes.        *)
EXTENDS VolumeAttach, TLC

CONSTANTS n1, n2, h1, h2, r1, r2

MCNodes == {n1, n2}
TwoSlots == {h1, h2}
OneResizer == {r1}
TwoResizers == {r1, r2}

\* More than one GB, less than two.
FiveBytes == [required |-> 5, limit |-> 0]
===========================================================================
