--------------------------- MODULE MCScanCommand ---------------------------
(* Two addresses, one of them IPv6; a scan of the web and of names over    *)
(* UDP, and two of names over TCP, the second by the raw engine.           *)
EXTENDS ScanCommand

CONSTANTS h1, h2, web, dns

MCHosts == {h1, h2}

MCIpv6 == {h2}

Plain == [raw |-> FALSE, discover |-> FALSE, tcp |-> {web}, udp |-> {},
          service |-> FALSE, pack |-> "none", save |-> TRUE, ephemeral |-> FALSE]

MCPlans ==
  {[Plain EXCEPT !.discover = TRUE, !.udp = {dns}],
   [Plain EXCEPT !.tcp = {dns}, !.service = TRUE, !.pack = "unknown", !.save = FALSE],
   [Plain EXCEPT !.raw = TRUE, !.tcp = {dns}, !.service = TRUE, !.pack = "known",
                 !.ephemeral = TRUE]}
=============================================================================
