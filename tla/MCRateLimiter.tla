--------------------------- MODULE MCRateLimiter ----------------------------
(* Values for TLC: three futures share the limiter for three intervals. *)
EXTENDS RateLimiter

CONSTANTS f1, f2, f3

MCCallers == {f1, f2, f3}
=============================================================================
