---------------------------- MODULE ScanContract ----------------------------
(***************************************************************************)
(* What a port scanner of ares-net promises its caller for the (address,   *)
(* port) pairs its engine probes: every pair is reported at most once, the *)
(* summary comes after the last report and counts exactly what was         *)
(* reported, and a pair is left out only when the scan was cancelled.      *)
(*                                                                         *)
(* The connect engine probes every pair it is given. The raw SYN engine    *)
(* probes the IPv4 pairs and says nothing of the others: for it Targets    *)
(* are the IPv4 pairs.                                                     *)
(***************************************************************************)
EXTENDS ScanTargets

VARIABLES
  result,       \* what has been reported of each pair
  cancelled,    \* the cancellation token
  concluded,    \* the summary has been emitted
  report        \* the summary: how many pairs are in each state

vars == <<result, cancelled, concluded, report>>

Init ==
  /\ result = [t \in Targets |-> NoResult]
  /\ cancelled \in BOOLEAN
  /\ concluded = FALSE
  /\ report = [s \in States |-> 0]

Cancel ==
  /\ ~cancelled
  /\ cancelled' = TRUE
  /\ UNCHANGED <<result, concluded, report>>

Publish(t, s) ==
  /\ ~concluded
  /\ result[t] = NoResult
  /\ result' = [result EXCEPT ![t] = s]
  /\ UNCHANGED <<cancelled, concluded, report>>

Conclude ==
  /\ ~concluded
  /\ cancelled \/ \A t \in Targets : result[t] # NoResult
  /\ concluded' = TRUE
  /\ report' = Tally(result)
  /\ UNCHANGED <<result, cancelled>>

Next ==
  \/ Cancel
  \/ \E t \in Targets, s \in States : Publish(t, s)
  \/ Conclude

Spec == Init /\ [][Next]_vars
=============================================================================
