--------------------------- MODULE MCConnectScan ----------------------------
(* Values for TLC: three pairs, two at a time, one retry. *)
EXTENDS ConnectScan

CONSTANTS p1, p2, p3

MCTargets == {p1, p2, p3}
=============================================================================
