-------------------------- MODULE LivingWorkspace ---------------------------
(***************************************************************************)
(* The life of a workspace graph: run after run builds a graph out of the  *)
(* events of its modules (ares-core/src/graph.rs) and is merged into the   *)
(* workspace (ares-cli/src/workspace.rs), one run at a time, as            *)
(* merge_and_save does between a load and an upsert. A command merges more *)
(* than once (scan_cmd.rs: after each module, and again after a script     *)
(* pack), so a graph may be merged, grow and be merged again; --resume     *)
(* starts from the graph of a stored run.                                  *)
(*                                                                         *)
(* That a merge is torn by a crash or overlaps another one is the subject  *)
(* of JobServer; here a merge is one step.                                 *)
(***************************************************************************)
EXTENDS AssetGraph

CONSTANTS
  Addrs,        \* the addresses of hosts
  Ports,        \* port numbers
  Texts,        \* names, titles, notes, findings
  Ids,          \* ids of sessions
  Levels,       \* confidences, lengths and TTLs
  MaxEvents     \* bound on the events of all runs together

ASSUME LevelsPositive == Levels \subseteq Nat \ {0}
ASSUME TextsAreSome == None \notin Texts \cup Addrs
ASSUME PortsPositive == Ports \subseteq Nat \ {0}
ASSUME MaxEventsNatural == MaxEvents \in Nat

Protocols == {"tcp", "udp"}
Hops == {1, 2}

VARIABLES
  live,       \* the graph of the current command
  talking,    \* the sessions the current command has open
  workspace,  \* the graph of the workspace row
  merged,     \* history: the graphs that were merged
  events      \* events applied so far

vars == <<live, talking, workspace, merged, events>>

Init ==
  /\ live = EmptyGraph
  /\ talking = {}
  /\ workspace = EmptyGraph
  /\ merged = {}
  /\ events = 0

\* emit: the event is applied to the graph of the run.
Apply(graph) ==
  /\ events < MaxEvents
  /\ events' = events + 1
  /\ live' = graph
  /\ UNCHANGED <<workspace, merged>>

\* An event that changes one host.
Told(addr, host) == Apply(SetHost(live, addr, host)) /\ UNCHANGED talking

Discover(a) ==
  LET host == HostOf(live, a)
  IN  \/ \E x \in Texts : Told(a, HostUp(host, x))
      \/ Told(a, HostDown(host))

Scan(a) ==
  \E p \in Ports, protocol \in Protocols, state \in PortStates :
    Told(a, PortResult(HostOf(live, a), p, protocol, state))

Identify(a) ==
  LET host == HostOf(live, a)
  IN  \/ \E p \in Ports, n \in Levels :
           \/ Told(a, Banner(host, p, n))
           \/ Told(a, ServiceDetected(host, p, n))
      \/ \E p \in Ports, x \in Texts : Told(a, ProbeResult(host, p, x))
      \/ \E x \in Texts : Told(a, AsnInfo(host, x))
      \/ \E n \in Levels, ttl \in Levels \cup {0} : Told(a, OsGuess(host, n, ttl))

Test(a) ==
  \E p \in Ports \cup {0}, x \in Texts :
    Told(a, MisconfigFinding(HostOf(live, a), p, x))

Resolve(a) ==
  /\ \E x \in Texts :
       \/ Apply(AddressRecord(live, x, a))
       \/ Apply(PtrRecord(live, a, x))
       \/ \E value \in Texts : Apply(DnsRecord(live, x, value))
  /\ UNCHANGED talking

Trace(a) ==
  /\ \E hop \in Hops, via \in Addrs \cup {None} : Apply(PathHop(live, a, hop, via))
  /\ UNCHANGED talking

\* A session id is never used twice.
Open ==
  \E id \in Ids :
    /\ \A g \in merged \cup {live} : id \notin DOMAIN g.sessions
    /\ Apply(SessionOpened(live, id))
    /\ talking' = talking \cup {id}

Close ==
  \E id \in talking :
    /\ \/ Apply(SessionClosed(live, id))
       \/ \E a \in Addrs, note \in Texts, n \in Levels \cup {0} :
            Apply(FinishSession(live, id, a, note, n))
    /\ talking' = talking \ {id}

\* merge_and_save
MergeAndSave ==
  /\ workspace' = MergeFrom(workspace, live)
  /\ merged' = merged \cup {live}
  /\ UNCHANGED <<live, talking, events>>

\* The next command starts with an empty graph, or with that of a stored run.
Start ==
  /\ live' \in merged \cup {EmptyGraph}
  /\ talking' = {}
  /\ UNCHANGED <<workspace, merged, events>>

Module ==
  \/ \E a \in Addrs :
       Discover(a) \/ Scan(a) \/ Identify(a) \/ Test(a) \/ Resolve(a) \/ Trace(a)
  \/ Open
  \/ Close

Next == Module \/ MergeAndSave \/ Start

Spec == Init /\ [][Next]_vars
-----------------------------------------------------------------------------
(* The graphs. *)

Maps(K, V) == UNION {[S -> V] : S \in SUBSET K}

Scores == Levels \cup {0}

Port == [protocol : Protocols, state : PortStates, service : Scores, banner : Scores]

Host == [up : BOOLEAN, hostname : Texts \cup {None}, detail : Texts \cup {None},
         os : Scores, ttl : Scores, ports : Maps(Ports, Port),
         findings : SUBSET ((Ports \cup {0}) \X Texts)]

Session == [closed : BOOLEAN, note : Texts \cup {None}, lines : Scores]

Path == Maps(Hops, Addrs \cup {None})

Graph == [hosts : Maps(Addrs, Host), dns : Maps(Texts \cup Addrs, SUBSET (Texts \cup Addrs)),
          paths : Maps(Addrs, Path), sessions : Maps(Ids, Session)]

(* That one graph knows at least what another knows. *)

MapBelow(a, b, Below(_, _)) ==
  /\ DOMAIN a \subseteq DOMAIN b
  /\ \A k \in DOMAIN a : Below(a[k], b[k])

Filled(a, b) == a # None => b # None

PortBelow(a, b) ==
  /\ Rank(a.state) <= Rank(b.state)
  /\ a.service <= b.service
  /\ a.banner <= b.banner

HostBelow(a, b) ==
  /\ a.up => b.up
  /\ Filled(a.hostname, b.hostname)
  /\ Filled(a.detail, b.detail)
  /\ a.os <= b.os
  /\ a.ttl <= b.ttl
  /\ MapBelow(a.ports, b.ports, PortBelow)
  /\ a.findings \subseteq b.findings

SetBelow(a, b) == a \subseteq b

PathBelow(a, b) == MapBelow(a, b, Filled)

SessionBelow(a, b) ==
  /\ a.closed => b.closed
  /\ Filled(a.note, b.note)
  /\ a.lines <= b.lines

GraphBelow(a, b) ==
  /\ MapBelow(a.hosts, b.hosts, HostBelow)
  /\ MapBelow(a.dns, b.dns, SetBelow)
  /\ MapBelow(a.paths, b.paths, PathBelow)
  /\ MapBelow(a.sessions, b.sessions, SessionBelow)
-----------------------------------------------------------------------------
(* Properties. *)

\* Every graph a run builds, and the one the workspace accumulates, is a
\* well-formed asset graph (the struct AssetGraph and those it holds).
TypeOK ==
  /\ live \in Graph
  /\ workspace \in Graph
  /\ merged \subseteq Graph
  /\ talking \in SUBSET DOMAIN live.sessions
  /\ events \in 0..MaxEvents

\* Whatever was merged, and whatever was merged after it, the workspace still
\* knows at least as much as each run did: the host is up if a run saw it up,
\* the state of a port ranks no lower, no finding, record, hop or transcript
\* is gone (the "living graph" that merge_from promises).
NothingIsLost == \A g \in merged : GraphBelow(g, workspace)

\* What the workspace knows of a port, a host or a session was in the graph of
\* some run: merging combines runs, it never makes up a state, a score, a
\* finding or a name.
NothingIsInvented ==
  /\ \A a \in DOMAIN workspace.hosts :
       LET host == workspace.hosts[a]
           Known == {g.hosts[a] : g \in {h \in merged : a \in DOMAIN h.hosts}}
       IN  /\ host.up => \E h \in Known : h.up
           /\ \E h \in Known : h.hostname = host.hostname
           /\ \E h \in Known : h.os = host.os
           /\ host.findings \subseteq UNION {h.findings : h \in Known}
           /\ \A p \in DOMAIN host.ports :
                LET Seen == {h.ports[p] : h \in {k \in Known : p \in DOMAIN k.ports}}
                IN  /\ \E s \in Seen : s.state = host.ports[p].state
                    /\ \E s \in Seen : s.service = host.ports[p].service
  /\ \A id \in DOMAIN workspace.sessions :
       \E g \in merged :
         id \in DOMAIN g.sessions /\ g.sessions[id].lines = workspace.sessions[id].lines

\* A graph that was merged before, however long ago, adds nothing when it is
\* merged again, as scan does after a script pack and a command that is run
\* again does: no duplicate finding or record, no field that flips back. Only
\* a hop may change: of two addresses for it the one merged last stays.
StaleMergeAddsNothing ==
  \A g \in merged :
    LET again == MergeFrom(workspace, g)
    IN  /\ again.hosts = workspace.hosts
        /\ again.dns = workspace.dns
        /\ again.sessions = workspace.sessions
        /\ GraphBelow(again, workspace)

\* "The source of truth for the fabric" (graph.rs): a port is open in the
\* workspace under a protocol only if a run saw it open under that protocol.
\* merge_port compares the states of a TCP and a UDP result of the same
\* number and keeps the protocol of the older.
OpenUnderItsProtocol ==
  \A a \in DOMAIN workspace.hosts :
    \A p \in DOMAIN workspace.hosts[a].ports :
      LET port == workspace.hosts[a].ports[p]
      IN  port.state = "open" =>
            \E g \in merged :
              /\ a \in DOMAIN g.hosts
              /\ p \in DOMAIN g.hosts[a].ports
              /\ g.hosts[a].ports[p].state = "open"
              /\ g.hosts[a].ports[p].protocol = port.protocol
=============================================================================
