------------------------------ MODULE MCIoRing ------------------------------
(* Instances of IoRing for TLC. *)
EXTENDS IoRing, TLC

CONSTANTS r1, r2, e1, e2, k1, k2, k3

TwoRings == {r1, r2}
OneRing == {r1}
NoExternals == {}
TwoExternals == {e1, e2}
TwoTasks == {k1, k2}
ThreeTasks == {k1, k2, k3}
TaskSymmetry == Permutations(Tasks) \cup Permutations(Externals)
=============================================================================
