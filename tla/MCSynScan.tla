----------------------------- MODULE MCSynScan ------------------------------
(* Values for TLC: three IPv4 pairs with fewer source ports, and an IPv6 pair. *)
EXTENDS SynScan

CONSTANTS t1, t2, t3, t6, s1, s2

MCIpv4 == {t1, t2, t3}
MCTargets == MCIpv4 \cup {t6}
MCSports == {s1, s2}
=============================================================================
