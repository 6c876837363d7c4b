---------------------------- MODULE ScanTargets -----------------------------
(***************************************************************************)
(* What the scanners of ares-net and their contract share: the pairs to    *)
(* scan and the states a connect can find a port in.                       *)
(***************************************************************************)
EXTENDS FiniteSets, Naturals

CONSTANT Targets    \* the (address, port) pairs of one call

ASSUME TargetsFinite == IsFiniteSet(Targets)

States == {"open", "closed", "filtered"}
NoResult == "none"

\* How many pairs `found` puts in each state.
Tally(found) == [s \in States |-> Cardinality({t \in Targets : found[t] = s})]
=============================================================================
