--------------------------- MODULE MCPreStopHook ---------------------------
(* Instances of PreStopHook for TLC: two VAs of the node, one of another.  *)
EXTENDS PreStopHook

CONSTANTS m1, m2, f1

MCVAs == {m1, m2, f1}
MCMine == {m1, m2}
===========================================================================
