----------------------------- MODULE AssetGraph -----------------------------
(***************************************************************************)
(* The asset graph of ares-core/src/graph.rs as a value: what each kind of *)
(* event does to it (apply) and what merging another graph into it does    *)
(* (merge_from).                                                           *)
(*                                                                         *)
(* Maps are functions. An Option is None or a value; where only the better *)
(* of two values counts it is a number, 0 for None: `os` is the confidence *)
(* of the OS guess, `service` that of the service, `banner` the length of  *)
(* the banner, `lines` that of a session's transcript. The findings of a   *)
(* host and the values of a DNS name are sets: the code looks a finding up *)
(* before it adds it, and no reader of `dns` counts. `detail` stands for   *)
(* the texts of a host that the latest event sets (title, subject, CDN,    *)
(* ASN, PTR and the like). Times, latencies and round trips are left out;  *)
(* port 0, which ensure_open_port skips, stands for "no port".             *)
(***************************************************************************)
EXTENDS Integers

None == "none"

(* Maps. *)

EmptyMap == [k \in {} |-> None]

\* entry(k).or_insert(default)
Entry(map, k, default) == IF k \in DOMAIN map THEN map[k] ELSE default

Insert(map, k, v) ==
  [x \in DOMAIN map \cup {k} |-> IF x = k THEN v ELSE map[x]]

(* The parts of a graph. *)

PortStates == {"open", "open_filtered", "filtered", "closed", "unknown"}

NewHost == [up |-> FALSE, hostname |-> None, detail |-> None, os |-> 0,
            ttl |-> 0, ports |-> EmptyMap, findings |-> {}]

NewPort(protocol, state) ==
  [protocol |-> protocol, state |-> state, service |-> 0, banner |-> 0]

NewSession == [closed |-> FALSE, note |-> None, lines |-> 0]

EmptyGraph ==
  [hosts |-> EmptyMap, dns |-> EmptyMap, paths |-> EmptyMap, sessions |-> EmptyMap]

(* Merging two maps, and two values. *)

\* Keys of either map; Both combines the values of a key that both have.
MergeMaps(a, b, Both(_, _)) ==
  [k \in DOMAIN a \cup DOMAIN b |->
     CASE k \notin DOMAIN b -> a[k]
       [] k \notin DOMAIN a -> b[k]
       [] OTHER -> Both(a[k], b[k])]

\* Faulty variant: numbers of two graphs are added up.
Added(a, b) == a + b

Larger(a, b) == IF b > a THEN b ELSE a

\* merge_opt_str: the first text stays.
OrElse(a, b) == IF a = None THEN b ELSE a

(* What an event says of a host. *)

HostUp(host, text) == [host EXCEPT !.up = TRUE, !.detail = text]

HostDown(host) == [host EXCEPT !.up = FALSE]

\* A new entry replaces what was known of the port, under either protocol.
PortResult(host, port, protocol, state) ==
  [host EXCEPT !.up = @ \/ state = "open",
               !.ports = Insert(@, port, NewPort(protocol, state))]

Banner(host, port, length) ==
  LET known == Entry(host.ports, port, NewPort("tcp", "open"))
  IN  [host EXCEPT !.up = TRUE,
                   !.ports = Insert(@, port, [known EXCEPT !.banner = length])]

ServiceDetected(host, port, confidence) ==
  LET known == Entry(host.ports, port, NewPort("tcp", "open"))
  IN  [host EXCEPT !.up = TRUE,
                   !.ports = Insert(@, port, [known EXCEPT !.service = confidence])]

\* ensure_open_port: an entry that exists keeps its protocol.
EnsureOpenPort(ports, port) ==
  LET known == Entry(ports, port, NewPort("tcp", "open"))
  IN  IF port = 0 THEN ports
      ELSE Insert(ports, port, [known EXCEPT !.state = "open"])

\* ProbeResult of an HTTP or TLS probe, and TlsCert.
ProbeResult(host, port, text) ==
  [host EXCEPT !.up = TRUE, !.detail = text, !.ports = EnsureOpenPort(@, port)]

\* ProbeResult of any other probe.
Heard(host) == [host EXCEPT !.up = TRUE]

AsnInfo(host, text) == [host EXCEPT !.detail = text]

OsGuess(host, confidence, ttl) ==
  [host EXCEPT !.os = Larger(@, confidence), !.ttl = Larger(@, ttl)]

MisconfigFinding(host, port, finding) ==
  [host EXCEPT !.up = TRUE, !.ports = EnsureOpenPort(@, port),
               !.findings = @ \cup {<<port, finding>>}]

\* An A or PTR record names the host, once.
Named(host, name) == [host EXCEPT !.hostname = OrElse(@, name)]

(* What an event does to the graph. *)

HostOf(graph, addr) == Entry(graph.hosts, addr, NewHost)

SetHost(graph, addr, host) == [graph EXCEPT !.hosts = Insert(@, addr, host)]

\* A CNAME, MX or TXT record; the others name a host as well.
DnsRecord(graph, name, value) ==
  [graph EXCEPT !.dns = Insert(@, name, Entry(@, name, {}) \cup {value})]

AddressRecord(graph, name, addr) ==
  DnsRecord(SetHost(graph, addr, Named(HostOf(graph, addr), name)), name, addr)

\* The reverse name stands for its address.
PtrRecord(graph, addr, name) ==
  LET host == [HostOf(graph, addr) EXCEPT !.detail = name]
  IN  DnsRecord(SetHost(graph, addr, Named(host, name)), addr, name)

SessionOpened(graph, id) ==
  [graph EXCEPT !.sessions = Insert(@, id, NewSession)]

SessionClosed(graph, id) == [graph EXCEPT !.sessions[id].closed = TRUE]

\* finish_session of the talk REPL, with the two events it emits.
FinishSession(graph, id, addr, note, lines) ==
  [SetHost(graph, addr, [HostOf(graph, addr) EXCEPT !.up = TRUE])
     EXCEPT !.sessions[id] = [closed |-> TRUE, note |-> note, lines |-> lines]]

\* A hop seen again is replaced; the target and a hop whose address is known
\* become hosts.
PathHop(graph, target, hop, addr) ==
  LET named == {target, addr} \ {None}
  IN  [graph EXCEPT
         !.paths = Insert(@, target, Insert(Entry(@, target, EmptyMap), hop, addr)),
         !.hosts = [x \in DOMAIN @ \cup named |-> HostOf(graph, x)]]

(* merge_from: Open beats the rest, richer data wins, findings are unioned. *)

\* port_state_rank
Rank(state) ==
  CASE state = "open" -> 5
    [] state = "open_filtered" -> 4
    [] state = "filtered" -> 3
    [] state = "closed" -> 2
    [] OTHER -> 1

\* Faulty variants: the state seen last wins; two states that differ are read
\* as open.
LatestState(a, b) == b
OpenIfUnsure(a, b) == IF a = b THEN a ELSE "open"

BetterState(a, b) == IF Rank(b) > Rank(a) THEN b ELSE a

MergePort(a, b) ==
  [protocol |-> a.protocol, state |-> BetterState(a.state, b.state),
   service |-> Larger(a.service, b.service), banner |-> Larger(a.banner, b.banner)]

MergeHost(a, b) ==
  [up |-> a.up \/ b.up,
   hostname |-> OrElse(a.hostname, b.hostname),
   detail |-> OrElse(a.detail, b.detail),
   os |-> Larger(a.os, b.os),
   ttl |-> Larger(a.ttl, b.ttl),
   ports |-> MergeMaps(a.ports, b.ports, MergePort),
   findings |-> a.findings \cup b.findings]

\* A hop without an address never hides one with an address.
MergeHop(a, b) == IF b # None \/ a = None THEN b ELSE a

MergePath(a, b) == MergeMaps(a, b, MergeHop)

MergeSession(a, b) ==
  [closed |-> a.closed \/ b.closed,
   note |-> OrElse(a.note, b.note),
   lines |-> Larger(a.lines, b.lines)]

Union(a, b) == a \cup b

MergeFrom(graph, other) ==
  [hosts |-> MergeMaps(graph.hosts, other.hosts, MergeHost),
   dns |-> MergeMaps(graph.dns, other.dns, Union),
   paths |-> MergeMaps(graph.paths, other.paths, MergePath),
   sessions |-> MergeMaps(graph.sessions, other.sessions, MergeSession)]
=============================================================================
