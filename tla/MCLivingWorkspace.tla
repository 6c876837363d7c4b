------------------------- MODULE MCLivingWorkspace --------------------------
(***************************************************************************)
(* One address with one port, one text and one session, two levels: enough *)
(* for two runs to disagree on every field of a host, in either order.     *)
(***************************************************************************)
EXTENDS LivingWorkspace

MCPorts == {53}
MCLevels == {1, 2}
=============================================================================
