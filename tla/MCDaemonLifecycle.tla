------------------------- MODULE MCDaemonLifecycle -------------------------
(* DaemonLifecycle for TLC: the processes. *)
EXTENDS DaemonLifecycle

CONSTANTS d1, d2, d3, l1, l2, l3

TwoDaemons == {d1, d2}
ThreeDaemons == {d1, d2, d3}
TwoLaunchers == {l1, l2}
ThreeLaunchers == {l1, l2, l3}
=============================================================================
