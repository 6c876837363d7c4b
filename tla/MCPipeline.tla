---------------------------- MODULE MCPipeline ------------------------------
(* Values for TLC: two hosts, a web port and another one, playbooks of three *)
(* steps that between them use every module, policy and predicate.           *)
EXTENDS Pipeline

CONSTANTS h1, h2, web, ssh

MCHosts == {h1, h2}
MCIpv6 == {h2}
MCPorts == {web, ssh}
MCDefaults == {ssh}

List(ports) == [open |-> FALSE, list |-> ports, valid |-> TRUE]
Open(ports) == [open |-> TRUE, list |-> ports, valid |-> TRUE]
Unreadable == [open |-> FALSE, list |-> {}, valid |-> FALSE]

Do(module, ports, when, on_fail) ==
  [module |-> module, ports |-> ports, when |-> when, on_fail |-> on_fail,
   raw |-> FALSE]

Raw(step) == [step EXCEPT !.raw = TRUE]

AnyOpen == [Always EXCEPT !.open_any = {TRUE}]
NoneOpen == [Always EXCEPT !.open_any = {FALSE}]
TwoOpen == [Always EXCEPT !.min_open = 2]
WebOpen == [Always EXCEPT !.open_ports = {{web}}]
Found == [Always EXCEPT !.findings_gte = 1]

\* Like the playbooks `ares probe web` and fixtures/pipeline-smart.yaml.
ProbeWeb == <<
  Do("scan", List(MCPorts), Always, "abort"),
  Do("service", Open(MCPorts), AnyOpen, "abort"),
  Do("active-misconfig", Open({web}), WebOpen, "continue")>>

\* A raw scan and another one, with a step that ends the playbook between them.
TwoScans == <<
  Raw(Do("scan", List({web}), Always, "continue")),
  Do("active-misconfig", List({web}), TwoOpen, "skip_rest"),
  Do("scan", List(MCPorts), NoneOpen, "abort")>>

\* A step that is wrong is met only when its gate is open.
Wrong == <<
  Do("discover", List(MCDefaults), Always, "abort"),
  Do("active-misconfig", List(MCDefaults), Always, "continue"),
  Do("unknown", List(MCDefaults), Found, "continue"),
  Do("scan", Unreadable, WebOpen, "continue")>>

\* A module that visits the whole target before anything is scanned, so that a
\* resume passes over pairs its clients reported.
VisitFirst == <<
  Do("service", List({ssh}), Always, "continue"),
  Do("scan", List({ssh}), Always, "abort")>>

MCPlaybooks == {ProbeWeb, TwoScans, Wrong, VisitFirst}

\* A step with open:<list> without a `when` on the same ports.
MCUngated == {<<
  Do("scan", List({ssh}), Always, "abort"),
  Do("service", Open({web}), AnyOpen, "abort")>>}
=============================================================================
