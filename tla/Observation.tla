---------------------------- MODULE Observation ----------------------------
(***************************************************************************)
(* A module of ares-modules that asks peers what they are: `service`,      *)
(* `fingerprint`, `active-misconfig`, `talk` or `asn`. It goes through its *)
(* addresses one at a time, each visit an exchange of one of the tables,   *)
(* and what an exchange emits goes into the asset graph. The user may      *)
(* cancel at any moment.                                                   *)
(*                                                                         *)
(* Addresses are 1..Hosts; 0 is any address that is none of them. One is   *)
(* about one port, or one protocol of `talk`.                              *)
(***************************************************************************)
EXTENDS ServiceDetection, MisconfigChecks, TalkDispatch, FiniteSets

CONSTANTS
  Hosts,     \* number of addresses of the target
  Kinds,     \* modules that may run
  Ports,     \* ports that may be asked for
  MaxPaths   \* length of the list of paths

ASSUME ObservationAssumption ==
  /\ Hosts \in Nat \ {0} /\ MaxPaths \in Nat
  /\ Kinds \subseteq {"service", "fingerprint", "active", "talk", "asn"}

G == INSTANCE AssetGraph

Addresses == 1..Hosts
Elsewhere == 0

\* What a record names that is no address.
Unnumbered == Hosts + 1

VARIABLES
  kind,       \* the module
  item,       \* its port, or the protocol of `talk`
  groups,     \* hosts to visit yet, each the sequence of its addresses
  todo,       \* addresses of the present host to visit yet
  step,       \* the exchange of the present visit to have next, 0 between visits
  site,       \* the address whose paths are asked for, 0 if none
  paths,      \* paths to ask for yet
  gap,        \* the pause before the next path has begun
  graph,      \* the asset graph
  cancelled,  \* the token
  scanned,    \* addresses whose port a scan found open before
  contact,    \* the most that was heard of an address
  late,       \* connections tried after the token was set, of this visit on
  visited     \* addresses visited

vars == <<kind, item, groups, todo, step, site, paths, gap, graph, cancelled, scanned,
          contact, late, visited>>

(* What an exchange does to the graph. *)

port == IF kind = "talk" THEN ProtoTable[item].port ELSE item

\* The confidence of every guess of the system: nothing here depends on it.
Guess == 35

\* AssetGraph::apply. A session's id is new, and its end follows its start.
Apply(g, addr, e) ==
  LET at   == IF e.away THEN Elsewhere ELSE addr
      host == G!HostOf(g, at)
      id   == Cardinality(DOMAIN g.sessions)
      Of(h) == G!SetHost(g, at, h)
  IN  CASE e.type = "banner" -> Of(G!Banner(host, port, 1))
        [] e.type = "probe_result" -> Of(G!Heard(host))
        [] e.type \in {"open_probe", "tls_cert"} -> Of(G!ProbeResult(host, port, "text"))
        [] e.type = "service_detected" -> Of(G!ServiceDetected(host, port, e.confidence))
        [] e.type = "port_result" -> Of(G!PortResult(host, port, "tcp", "open"))
        [] e.type = "os_guess" -> Of(G!OsGuess(host, Guess, 0))
        [] e.type = "misconfig_finding" -> Of(G!MisconfigFinding(host, port, "exposed"))
        [] e.type = "asn_info" -> Of(G!AsnInfo(host, "text"))
        [] e.type = "address_record" -> G!AddressRecord(g, "name", at)
        [] e.type = "ptr_record" -> G!PtrRecord(g, at, "name")
        [] e.type = "name_record" -> G!DnsRecord(g, "name", Unnumbered)
        [] e.type = "session_opened" -> G!SessionOpened(g, id + 1)
        [] e.type = "session_closed" -> G!SessionClosed(g, id)

\* What a transcript comes to: its events are applied in order.
Applied(g, addr, events) ==
  LET applied[i \in 0..Len(events)] ==
        IF i = 0 THEN g ELSE Apply(applied[i - 1], addr, events[i])
  IN  applied[Len(events)]

Outcome(addr, t) ==
  [graph |-> Applied(graph, addr, t.events), heard |-> t.heard, dials |-> t.dials,
   result |-> t.result]

Outcomes(addr, exchange) == {Outcome(addr, t) : t \in exchange}

\* A cancel that comes while the exchange runs is not seen before its end.
Play(addr, o) ==
  /\ graph' = o.graph
  /\ contact' = [contact EXCEPT ![addr] = IF @ < o.heard THEN o.heard ELSE @]
  /\ \/ cancelled' = cancelled /\ late' = IF cancelled THEN late + o.dials ELSE late
     \/ ~cancelled /\ cancelled' = TRUE /\ late' = o.dials

(* What a visit of the module to an address consists of. *)

\* The TTL is the one in the graph.
VisitTo(addr) ==
  CASE kind \in {"service", "fingerprint"} ->
         detect_service_ex(item, G!HostOf(graph, addr).ttl # 0)
    [] kind = "active" -> check_ports(item)
    [] kind = "talk" -> ProtoTable[item].visit
    [] kind = "asn" -> <<Try(enrich_host)>>

(* The modules' loops. *)

\* Each of the first few addresses is a host of its own.
Singles(addrs) == [a \in addrs |-> <<a>>]

\* `service` and `active` take what the graph has open and fall back to the
\* targets; `active` takes all addresses of a target for one host, whose port
\* is checked on the first of them that answers. `talk` takes the first.
HostsToVisit(open) ==
  CASE kind = "active" /\ open = {} -> <<[i \in 1..Hosts |-> i]>>
    [] kind \in {"active", "service"} /\ open # {} -> Singles(open)
    [] kind = "talk" -> << <<1>> >>
    [] OTHER -> Singles(Addresses)

\* What a scan left: open ports, and a TTL if the scan was a raw one.
Scanned(open, ttl) ==
  [G!EmptyGraph EXCEPT !.hosts =
     [a \in open |-> G!OsGuess(G!PortResult(G!NewHost, item, "tcp", "open"), Guess, ttl)]]

\* Where the answer of a client does not settle the system the TTL is looked at.
TtlMatters == kind \in {"service", "fingerprint"} /\ item \notin DOMAIN PortTable

\* What there is to look at: a protocol, nothing, or a port.
Items ==
  CASE kind = "talk" -> DOMAIN ProtoTable
    [] kind = "asn" -> {0}
    [] OTHER -> Ports

\* `fingerprint`, `talk` and `asn` do not ask for what a scan found open.
ScanMatters == kind \in {"service", "active"} \/ TtlMatters

\* Of the addresses any may have been found open before; their order is the only
\* thing that tells them apart, so that the first few stand for any as many.
Init ==
  /\ kind \in Kinds
  /\ item \in Items
  /\ \E n \in 0..Hosts : scanned = 1..n
  /\ (scanned # {} => ScanMatters)
  /\ \E ttl \in {0, 64} :
       /\ (ttl # 0 => TtlMatters)
       /\ graph = Scanned(scanned, ttl)
  /\ groups = HostsToVisit(scanned)
  /\ todo = <<>> /\ step = 0
  /\ site = 0 /\ paths = 0 /\ gap = FALSE
  /\ cancelled = FALSE
  /\ contact = [a \in Addresses |-> Nothing]
  /\ late = 0
  /\ visited = {}

\* Faulty variant: nobody looks.
NeverLooked == TRUE

\* The token is looked at before each host and each address; `talk` never looks.
Looked == ~cancelled \/ kind = "talk"

NextHost ==
  /\ site = 0 /\ todo = <<>> /\ groups # <<>>
  /\ Looked
  /\ todo' = Head(groups)
  /\ groups' = Tail(groups)
  /\ UNCHANGED <<kind, item, step, site, paths, gap, graph, cancelled, scanned,
                 contact, late, visited>>

Visit ==
  /\ site = 0 /\ step = 0 /\ todo # <<>>
  /\ Looked
  /\ IF VisitTo(Head(todo)) = <<>>
     THEN todo' = Tail(todo) /\ UNCHANGED step
     ELSE step' = 1 /\ UNCHANGED todo
  /\ visited' = visited \cup {Head(todo)}
  /\ UNCHANGED <<kind, item, groups, site, paths, gap, graph, cancelled, scanned,
                 contact, late>>

\* Faulty variant: an error ends the search as well.
AnswersOrFails(o, goes_on) == o.result # "none" /\ ~goes_on

\* An answer ends the visit, and, in `active`, the search for a peer of the host
\* that answers; then the paths are asked for.
Answers(o, goes_on) == o.result \in {"some", "blank", "paths"} /\ ~goes_on

\* Faulty variant: when no client recognised the peer they are all tried again.
AllAgain(visit, o) ==
  IF step = Len(visit) /\ step > 1 /\ o.result = "none" /\ ~cancelled THEN 1
  ELSE IF Answers(o, visit[step].goes_on) \/ step = Len(visit) THEN 0 ELSE step + 1

NextStep(visit, o) ==
  IF Answers(o, visit[step].goes_on) \/ step = Len(visit) THEN 0 ELSE step + 1

Exchange ==
  /\ step # 0
  /\ LET addr  == Head(todo)
         visit == VisitTo(addr)
     IN  \E o \in Outcomes(addr, visit[step].exchange) :
           /\ Play(addr, o)
           /\ step' = NextStep(visit, o)
           /\ todo' = IF Answers(o, visit[step].goes_on) /\ kind = "active" THEN <<>>
                      ELSE IF step' = 0 THEN Tail(todo) ELSE todo
           /\ IF o.result = "paths" /\ MaxPaths > 0
              THEN site' = addr /\ paths' = MaxPaths
              ELSE UNCHANGED <<site, paths>>
  /\ UNCHANGED <<kind, item, groups, gap, scanned, visited>>

\* The look before a path, and the pause after the look.
PathGap ==
  /\ site # 0 /\ ~gap /\ paths > 0
  /\ Looked
  /\ gap' = TRUE
  /\ UNCHANGED <<kind, item, groups, todo, step, site, paths, graph, cancelled, scanned,
                 contact, late, visited>>

PathProbe ==
  /\ gap
  /\ \E o \in Outcomes(site, path_probe[(item \in {443, 8443})]) :
       /\ Play(site, o)
       /\ paths' = IF o.result \in {"some", "blank"} THEN paths - 1 ELSE 0
  /\ gap' = FALSE
  /\ UNCHANGED <<kind, item, groups, todo, step, site, scanned, visited>>

\* Faulty variant: the pause is left without the path it was for.
LeftInPause ==
  /\ site # 0
  /\ paths = 0 \/ ~Looked
  /\ site' = 0 /\ paths' = 0
  /\ UNCHANGED <<kind, item, groups, todo, step, gap, graph, cancelled, scanned, contact,
                 late, visited>>

\* The list is done, or probing stopped.
PathsDone ==
  /\ site # 0 /\ ~gap
  /\ paths = 0 \/ ~Looked
  /\ site' = 0 /\ paths' = 0
  /\ UNCHANGED <<kind, item, groups, todo, step, gap, graph, cancelled, scanned, contact,
                 late, visited>>

\* The look finds the token set: what is left is not visited.
Stop ==
  /\ site = 0 /\ step = 0 /\ ~Looked
  /\ todo # <<>> \/ groups # <<>>
  /\ todo' = <<>> /\ groups' = <<>>
  /\ UNCHANGED <<kind, item, step, site, paths, gap, graph, cancelled, scanned, contact,
                 late, visited>>

\* The user's Ctrl+C, between two exchanges.
Cancel ==
  /\ ~cancelled
  /\ cancelled' = TRUE
  /\ UNCHANGED <<kind, item, groups, todo, step, site, paths, gap, graph, scanned, contact,
                 late, visited>>

Done == site = 0 /\ step = 0 /\ todo = <<>> /\ groups = <<>>

Run == NextHost \/ Visit \/ Exchange \/ PathGap \/ PathProbe \/ PathsDone \/ Stop

Finished == Done /\ UNCHANGED vars

Next == Run \/ Cancel \/ Finished

\* Weak fairness of Run, without an ENABLED: Run is enabled until the module is
\* done (there is no deadlock), and of the steps that change anything all but
\* the one Cancel are steps of Run.
Fairness == []<>Done \/ []<><<TRUE>>_vars

Spec == Init /\ [][Next]_vars /\ Fairness

(* Correctness. *)

TypeOK ==
  /\ kind \in Kinds
  /\ item \in Items
  /\ todo \in Seq(Addresses) /\ step \in Nat /\ (step # 0 => todo # <<>>)
  /\ groups \in Seq(Seq(Addresses))
  /\ site \in Addresses \cup {0}
  /\ paths \in 0..MaxPaths /\ gap \in BOOLEAN /\ (gap => site # 0)
  /\ DOMAIN graph.hosts \subseteq Addresses \cup {Elsewhere}
  /\ cancelled \in BOOLEAN
  /\ contact \in [Addresses -> {Nothing, Connected, Replied}]
  /\ late \in Nat
  /\ visited \subseteq Addresses

PortOf(a) == G!Entry(G!HostOf(graph, a).ports, port, G!NewPort("tcp", "unknown"))

\* Where a port is called open on no evidence: after a TLS handshake that
\* failed, and, for want of a client, by what the port is known for.
TakenForOpen ==
  \/ port \in {443, 8443, 636, 993, 995}
  \/ kind \in {"service", "fingerprint"} /\ port \notin DOMAIN PortTable

\* A port that the graph calls open was found open by the scan, or a connection
\* to it was made: an exchange that got nowhere does not open a port, but for
\* the cases named above (graph.rs, apply).
OpenOnlyIfReached ==
  \A a \in Addresses :
    PortOf(a).state = "open" =>
      a \in scanned \/ contact[a] # Nothing \/ TakenForOpen

\* Where a connection that is closed without a word is as good as an answer:
\* the HTTP engine takes it for an empty page.
TakenForPage ==
  kind # "talk" /\ port \in {80, 8000, 8888, 8008, 5000, 81, 8080, 3000}

Answered(a) ==
  \/ contact[a] = Replied
  \/ TakenForPage /\ contact[a] = Connected

\* A service that is more than a guess, and a finding, are of an address that
\* sent an answer: a refusal, a timeout or silence never becomes a claim, in
\* any of the clients and in any order of them, but for the empty page named
\* above (service.rs, active/*.rs).
ClaimsAreHeard ==
  \A a \in Addresses :
    PortOf(a).service > 30 \/ G!HostOf(graph, a).findings # {} => Answered(a)

\* What was to be visited was: every address, or of several addresses of one
\* host all, unless one of them sent an answer. An error of one peer hides none
\* of the others (the loops of active/*.rs, service.rs and fingerprint.rs).
NoPeerPassedOver ==
  Done /\ ~cancelled =>
    CASE kind = "talk" -> visited = {1}
      [] kind = "active" /\ scanned = {} ->
           visited = Addresses \/ \E a \in visited : Answered(a)
      [] kind \in {"active", "service"} /\ scanned # {} -> visited = scanned
      [] OTHER -> visited = Addresses

\* After Ctrl+C the visit in progress runs to its end, or the path that was
\* waited for is asked for; then nothing is: the connections tried after the
\* token was set are at most Linger. No client gets the token; the longest visit
\* is that of `active` to port 8080: two, four and four pages, a page with its
\* redirects and a TRACE. `talk` does not look at the token at all.
Linger == 2 + 4 + 4 + 6 + 1

LingerBounded == kind # "talk" => late <= Linger

\* The module ends, whatever its peers do: every await of a client has a
\* timeout, and the loops are over lists that only get shorter.
EventuallyDone == <>Done
=============================================================================
