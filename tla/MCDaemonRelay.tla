--------------------------- MODULE MCDaemonRelay ---------------------------
(* DaemonRelay for TLC: two editors' sessions and a third, and a proxy. *)
EXTENDS DaemonRelay

CONSTANTS s1, s2, s3, p1, k1

TwoSessions == {s1, s2}
ThreeSessions == {s1, s2, s3}
NoCalls == {}
OneCall == {k1}
NoOwner == [k \in {} |-> p1]
OwnerOne == [k \in OneCall |-> p1]
=============================================================================
