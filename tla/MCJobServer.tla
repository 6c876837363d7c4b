---------------------------- MODULE MCJobServer -----------------------------
(* Values for TLC: three jobs that may be saved or ephemeral, room for two   *)
(* records. In the first assignment all three merge, one is saved as well;   *)
(* in the second one of them is saved and ephemeral.                         *)
EXTENDS JobServer

CONSTANTS j1, j2, j3

MCJobs == {j1, j2, j3}

Asks(saving, ephemeral) ==
  [j \in MCJobs |-> [save |-> j \in saving, ephemeral |-> j \in ephemeral]]

MCRequests == {Asks({j1}, {}), Asks({j1, j3}, {j3})}
=============================================================================
