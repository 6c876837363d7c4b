---------------------------- MODULE ScanCommand ----------------------------
(***************************************************************************)
(* `ares scan` and the `ares scan --resume` that may follow it             *)
(* (scan_cmd.rs): the scan module (host discovery, the port scanner, the   *)
(* UDP scanner), then the service module, then a script pack. A module     *)
(* runs under run_module_opts (main.rs), with a graph, a collector and a   *)
(* token of its own, merged into the workspace when it ends.               *)
(*                                                                         *)
(* The port scanner is any that keeps ScanContract's promise: for every    *)
(* pair, or, if it is the raw engine, for those of IPv4. Discovery         *)
(* and UDP scan are a future for each address or pair; an action is what   *)
(* one does between two awaits. Waits, for the limiter or for jitter, may  *)
(* take any time; the order of the addresses is arbitrary.                 *)
(***************************************************************************)
EXTENDS FiniteSets, Naturals

CONSTANTS
  Hosts,         \* addresses of the target
  Ipv6,          \* those that are IPv6
  Plans,         \* what a command may be asked to do
  Concurrency,   \* futures of a stream that are there at a time
  ProbePorts,    \* ports discovery tries on an address that no ping finds
  MaxCommands    \* commands given, the first and those that resume it

ASSUME ScanAssumption ==
  /\ IsFiniteSet(Hosts) /\ Ipv6 \subseteq Hosts
  /\ Concurrency \in Nat \ {0} /\ ProbePorts \in Nat \ {0} /\ MaxCommands \in Nat \ {0}
  /\ \A p \in Plans :
       /\ p.tcp # {} /\ IsFiniteSet(p.tcp) /\ IsFiniteSet(p.udp)
       /\ p.raw \in BOOLEAN /\ p.discover \in BOOLEAN /\ p.service \in BOOLEAN
       /\ p.save \in BOOLEAN /\ p.ephemeral \in BOOLEAN
       /\ p.pack \in {"none", "known", "unknown"}

VARIABLES
  plan,       \* the command's options
  commands,   \* commands given so far
  pc,         \* where the command is
  token,      \* the token of the module that runs is set
  hosts,      \* discovery: the future of each address
  tries,      \* discovery: connections to each address that timed out
  live,       \* addresses to scan
  todo,       \* pairs the scanner or a module has not reported or visited yet
  datagrams,  \* UDP scan: the future of each pair
  late,       \* probes sent by the scan module after its token was set
  cut,        \* modules of the command whose token was set
  prior,      \* results of the run that is resumed
  results,    \* what the command's collectors have
  saved,      \* results of the last run in the store
  workspace   \* results merged into the workspace

progress == <<plan, commands>>
discovery == <<hosts, tries>>
records == <<prior, results, saved, workspace>>

vars == <<plan, commands, pc, token, hosts, tries, live, todo, datagrams, late, cut,
          prior, results, saved, workspace>>

\* A result is a pair, the protocol it was found under and its state: "open", or
\* any of the others.
States == {"open", "other"}

Result(pair, protocol, state) == <<pair, protocol, state>>

\* scanned_pairs and open_ports do not ask for the protocol.
scanned_pairs(rs) == {r[1] : r \in rs}

open_ports(rs) == {r[1] : r \in {x \in rs : x[3] = "open"}}

collector == prior \cup results

(* The runner: Ctrl+C sets the token of the module that runs; between two *)
(* modules nobody waits for it. *)

Scanning == {"resolve", "discover", "tcp", "udp"}

Running ==
  CASE pc \in Scanning -> "scan"
    [] pc \in {"asked", "service"} -> "service"
    [] OTHER -> pc

Cancel ==
  /\ Running \in {"scan", "service", "pack"}
  /\ ~token
  /\ token' = TRUE
  /\ cut' = cut \cup {Running}
  /\ UNCHANGED <<progress, pc, discovery, live, todo, datagrams, late, records>>

\* A probe leaves.
Sends == late' = IF token THEN late + 1 ELSE late

(* scan.rs *)

\* The target does not resolve: the module fails, and the command with it, unless
\* the module was cancelled.
Unresolved ==
  /\ pc = "resolve"
  /\ pc' = IF token THEN "scanned" ELSE "failed"
  /\ UNCHANGED <<progress, token, discovery, live, todo, datagrams, late, cut, records>>

\* Pairs to scan: of the addresses that are up, but for those scanned before.
Pairs(addrs) == (addrs \X plan.tcp) \ scanned_pairs(prior)

Resolved ==
  /\ pc = "resolve"
  /\ IF plan.discover /\ ~token
     THEN pc' = "discover" /\ UNCHANGED todo
     ELSE pc' = "tcp" /\ todo' = Pairs(Hosts)
  /\ live' = Hosts
  /\ UNCHANGED <<progress, token, discovery, datagrams, late, cut, records>>

(* discover.rs *)

Active(futures) == {f \in DOMAIN futures : futures[f] \in {"waiting", "pinging", "probing"}}

\* The stream admits an address; it looks at the token and takes a permit, of
\* which there is one for each that is admitted.
Admit(h) ==
  /\ pc = "discover" /\ hosts[h] = "queued"
  /\ Cardinality(Active(hosts)) < Concurrency
  /\ hosts' = [hosts EXCEPT ![h] = IF token THEN "left" ELSE "waiting"]
  /\ UNCHANGED <<progress, pc, token, tries, live, todo, datagrams, late, cut, records>>

\* After the waits it looks again, then pings.
Wake(h) ==
  /\ pc = "discover" /\ hosts[h] = "waiting"
  /\ IF token
     THEN hosts' = [hosts EXCEPT ![h] = "left"] /\ UNCHANGED late
     ELSE hosts' = [hosts EXCEPT ![h] = "pinging"] /\ Sends
  /\ UNCHANGED <<progress, pc, token, tries, live, todo, datagrams, cut, records>>

\* An answer, or the look that comes before the next port: the token, or no port
\* left, leaves the address down.
Probe(h, answered, timeouts) ==
  LET next == IF answered THEN "up"
              ELSE IF token \/ timeouts = ProbePorts THEN "down" ELSE "probing"
  IN  /\ hosts' = [hosts EXCEPT ![h] = next]
      /\ IF next = "probing" THEN Sends ELSE UNCHANGED late

\* The ping is answered or not.
Pinged(h) ==
  /\ pc = "discover" /\ hosts[h] = "pinging"
  /\ \E answered \in BOOLEAN : Probe(h, answered, 0)
  /\ UNCHANGED <<progress, pc, token, tries, live, todo, datagrams, cut, records>>

\* Faulty variant: after the last port comes the first again.
TryAgain(h) ==
  /\ pc = "discover" /\ hosts[h] = "probing"
  /\ \/ Probe(h, TRUE, tries[h]) /\ UNCHANGED tries
     \/ Probe(h, FALSE, tries[h]) /\ tries' = [tries EXCEPT ![h] = (@ + 1) % ProbePorts]
  /\ UNCHANGED <<progress, pc, token, live, todo, datagrams, cut, records>>

\* A connection or a refusal is an answer; otherwise it times out.
Tried(h) ==
  /\ pc = "discover" /\ hosts[h] = "probing"
  /\ \/ Probe(h, TRUE, tries[h]) /\ UNCHANGED tries
     \/ Probe(h, FALSE, tries[h] + 1) /\ tries' = [tries EXCEPT ![h] = @ + 1]
  /\ UNCHANGED <<progress, pc, token, live, todo, datagrams, cut, records>>

Up == {h \in Hosts : hosts[h] = "up"}

\* Without an address that is up there is nothing to scan.
Discovered ==
  /\ pc = "discover"
  /\ \A h \in Hosts : hosts[h] \in {"up", "down", "left"}
  /\ live' = Up
  /\ IF Up = {}
     THEN pc' = "scanned" /\ UNCHANGED todo
     ELSE pc' = "tcp" /\ todo' = Pairs(Up)
  /\ UNCHANGED <<progress, token, discovery, datagrams, late, cut, records>>

(* scan_with_engine, as ScanContract has it. An engine that cannot open the *)
(* link falls back to connects: the plan is raw if the raw engine scans.     *)

Skipped(pair) == plan.raw /\ pair[1] \in Ipv6

\* Publish: each pair is reported once at most.
Publish(pair) ==
  /\ pc = "tcp" /\ pair \in todo /\ ~Skipped(pair)
  /\ todo' = todo \ {pair}
  /\ \E s \in States : results' = results \cup {Result(pair, "tcp", s)}
  /\ UNCHANGED <<progress, pc, token, discovery, live, datagrams, late, cut, prior, saved,
                 workspace>>

\* Faulty variant: the UDP scan is not asked for.
ConcludeAll ==
  /\ pc = "tcp"
  /\ token \/ \A pair \in todo : Skipped(pair)
  /\ todo' = {}
  /\ pc' = "scanned"
  /\ UNCHANGED <<progress, token, discovery, live, datagrams, late, cut, records>>

\* Conclude: only a cancelled scan leaves a pair out that the engine scans. The UDP scan asks for every
\* pair of an address that is up, also those scanned before.
Conclude ==
  /\ pc = "tcp"
  /\ token \/ \A pair \in todo : Skipped(pair)
  /\ todo' = {}
  /\ IF plan.udp # {} /\ ~token
     THEN /\ pc' = "udp"
          /\ datagrams' = [pair \in live \X plan.udp |-> "queued"]
     ELSE pc' = "scanned" /\ UNCHANGED datagrams
  /\ UNCHANGED <<progress, token, discovery, live, late, cut, records>>

(* udp.rs *)

\* Faulty variant: the look is left out.
AdmitAnyway(pair) ==
  /\ pc = "udp" /\ pair \in DOMAIN datagrams /\ datagrams[pair] = "queued"
  /\ Cardinality(Active(datagrams)) < Concurrency
  /\ datagrams' = [datagrams EXCEPT ![pair] = "waiting"]
  /\ UNCHANGED <<progress, pc, token, discovery, live, todo, late, cut, records>>

\* The only look at the token, before the waits.
AdmitPair(pair) ==
  /\ pc = "udp" /\ pair \in DOMAIN datagrams /\ datagrams[pair] = "queued"
  /\ Cardinality(Active(datagrams)) < Concurrency
  /\ datagrams' = [datagrams EXCEPT ![pair] = IF token THEN "left" ELSE "waiting"]
  /\ UNCHANGED <<progress, pc, token, discovery, live, todo, late, cut, records>>

Send(pair) ==
  /\ pc = "udp" /\ pair \in DOMAIN datagrams /\ datagrams[pair] = "waiting"
  /\ datagrams' = [datagrams EXCEPT ![pair] = "probing"]
  /\ Sends
  /\ UNCHANGED <<progress, pc, token, discovery, live, todo, cut, records>>

\* A reply, a refusal, silence, or no socket to send from: each is a result.
Probed(pair) ==
  /\ pc = "udp" /\ pair \in DOMAIN datagrams /\ datagrams[pair] = "probing"
  /\ datagrams' = [datagrams EXCEPT ![pair] = "done"]
  /\ \E s \in States : results' = results \cup {Result(pair, "udp", s)}
  /\ UNCHANGED <<progress, pc, token, discovery, live, todo, late, cut, prior, saved,
                 workspace>>

UdpScanned ==
  /\ pc = "udp"
  /\ \A pair \in DOMAIN datagrams : datagrams[pair] \in {"done", "left"}
  /\ pc' = "scanned"
  /\ UNCHANGED <<progress, token, discovery, live, todo, datagrams, late, cut, records>>

(* scan_cmd.rs: between the modules. What a module found is in the         *)
(* workspace when it has ended, unless the command is --ephemeral.         *)

Merged(rs) == workspace' = IF plan.ephemeral THEN workspace ELSE workspace \cup rs

\* What comes after the scan, or the service module. Whether there is such a pack
\* is not asked before there are open ports for it.
ToPack ==
  CASE plan.pack = "none" -> pc' = "save" /\ todo' = {}
    [] plan.pack = "unknown" /\ open_ports(collector) # {} -> pc' = "failed" /\ todo' = {}
    [] OTHER -> pc' = "pack" /\ todo' = open_ports(collector)

\* Faulty variant: one token for all modules.
ScannedSameToken ==
  /\ pc = "scanned"
  /\ Merged(results)
  /\ token' = token
  /\ IF plan.service THEN pc' = "asked" /\ UNCHANGED todo ELSE ToPack
  /\ UNCHANGED <<progress, discovery, live, datagrams, late, cut, prior, results, saved>>

\* run_module merges before it returns; the next module has a token of its own.
Scanned ==
  /\ pc = "scanned"
  /\ Merged(results)
  /\ token' = FALSE
  /\ IF plan.service THEN pc' = "asked" /\ UNCHANGED todo ELSE ToPack
  /\ UNCHANGED <<progress, discovery, live, datagrams, late, cut, prior, results, saved>>

\* The service module is asked for the ports that are open under either protocol
\* in either run, on every address of the target; its graph is empty.
ServicePorts ==
  IF open_ports(collector) = {} THEN plan.tcp ELSE {p[2] : p \in open_ports(collector)}

ServiceStarts ==
  /\ pc = "asked"
  /\ pc' = "service"
  /\ todo' = Hosts \X ServicePorts
  /\ UNCHANGED <<progress, token, discovery, live, datagrams, late, cut, records>>

\* The name does not resolve any more: the command ends here, with an error.
ServiceFails ==
  /\ pc = "asked" /\ ~token
  /\ pc' = "failed"
  /\ UNCHANGED <<progress, token, discovery, live, todo, datagrams, late, cut, records>>

\* A visit of the service module, or a script, may report its port as open.
Visit(pair) ==
  /\ pc \in {"service", "pack"} /\ ~token
  /\ pair \in todo
  /\ todo' = todo \ {pair}
  /\ \/ UNCHANGED results
     \/ results' = results \cup {Result(pair, "tcp", "open")}
  /\ UNCHANGED <<progress, pc, token, discovery, live, datagrams, late, cut, prior, saved,
                 workspace>>

ServiceEnds ==
  /\ pc = "service"
  /\ todo = {} \/ token
  /\ Merged(results)
  /\ token' = FALSE
  /\ ToPack
  /\ UNCHANGED <<progress, discovery, live, datagrams, late, cut, prior, results, saved>>

\* The pack ends with a merge of everything, the resumed run included.
PackEnds ==
  /\ pc = "pack"
  /\ todo = {} \/ token
  /\ Merged(collector)
  /\ token' = FALSE /\ todo' = {}
  /\ pc' = "save"
  /\ UNCHANGED <<progress, discovery, live, datagrams, late, cut, prior, results, saved>>

\* Faulty variant: the run holds only what the command itself found.
SaveOwn ==
  /\ pc = "save"
  /\ saved' = IF plan.save THEN results ELSE saved
  /\ pc' = "over"
  /\ UNCHANGED <<progress, token, discovery, live, todo, datagrams, late, cut, prior,
                 results, workspace>>

\* Only a command that is to --save does.
Save ==
  /\ pc = "save"
  /\ saved' = IF plan.save THEN collector ELSE saved
  /\ pc' = "over"
  /\ UNCHANGED <<progress, token, discovery, live, todo, datagrams, late, cut, prior,
                 results, workspace>>

(* The commands. *)

Init ==
  /\ plan \in Plans
  /\ commands = 1
  /\ pc = "resolve" /\ token = FALSE
  /\ hosts = [h \in Hosts |-> "queued"] /\ tries = [h \in Hosts |-> 0]
  /\ live = {} /\ todo = {} /\ datagrams = <<>>
  /\ late = 0 /\ cut = {}
  /\ prior = {} /\ results = {} /\ saved = {} /\ workspace = {}

\* --resume of the run that was saved.
Resume ==
  /\ pc = "over" /\ plan.save
  /\ commands < MaxCommands
  /\ commands' = commands + 1
  /\ plan' \in Plans
  /\ pc' = "resolve" /\ token' = FALSE
  /\ hosts' = [h \in Hosts |-> "queued"] /\ tries' = [h \in Hosts |-> 0]
  /\ live' = {} /\ todo' = {} /\ datagrams' = <<>>
  /\ late' = 0 /\ cut' = {}
  /\ prior' = saved /\ results' = {}
  /\ UNCHANGED <<saved, workspace>>

Discovery == \E h \in Hosts : Admit(h) \/ Wake(h) \/ Pinged(h) \/ Tried(h)

UdpScan == \E pair \in live \X plan.udp : AdmitPair(pair) \/ Send(pair) \/ Probed(pair)

Run ==
  \/ Unresolved \/ Resolved \/ Discovery \/ Discovered
  \/ \E pair \in todo : Publish(pair) \/ Visit(pair)
  \/ Conclude \/ UdpScan \/ UdpScanned \/ Scanned
  \/ ServiceStarts \/ ServiceFails \/ ServiceEnds \/ PackEnds \/ Save

Next == Run \/ Cancel \/ Resume

RawScan == pc = "tcp" /\ plan.raw

\* The runtime polls what is ready; connects, pings and reads have timeouts. The
\* raw engine may wait for a packet, or for a free source port, for ever.
Fairness == WF_vars(Run /\ ~RawScan)

Spec == Init /\ [][Next]_vars /\ Fairness

(* Correctness. *)

Pair == Hosts \X UNION {p.tcp \cup p.udp : p \in Plans}

Results == Pair \X {"tcp", "udp"} \X States

TypeOK ==
  /\ plan \in Plans /\ commands \in 1..MaxCommands
  /\ pc \in Scanning \cup {"scanned", "asked", "service", "pack", "save", "over", "failed"}
  /\ token \in BOOLEAN /\ (token => Running \in cut \/ pc \in {"scanned", "failed"})
  /\ hosts \in [Hosts -> {"queued", "waiting", "pinging", "probing", "up", "down", "left"}]
  /\ tries \in [Hosts -> 0..ProbePorts]
  /\ live \subseteq Hosts /\ todo \subseteq Pair
  /\ DOMAIN datagrams \subseteq Pair
  /\ late \in Nat
  /\ cut \subseteq {"scan", "service", "pack"}
  /\ prior \subseteq Results /\ results \subseteq Results
  /\ saved \subseteq Results /\ workspace \subseteq Results

HasResult(pair, protocol, rs) == \E s \in States : Result(pair, protocol, s) \in rs

\* Why an address has not been scanned: it was asked and kept silent. An address
\* that discovery calls down after Ctrl+C need not be.
Silent(h) == hosts[h] = "down" /\ tries[h] = ProbePorts

\* Nothing is passed over in silence. In a run whose scan was not cancelled every
\* pair has a result under the protocol it was asked for, or its address kept
\* silent; but a pair that the resumed run has under the other protocol is taken
\* for scanned, and the raw engine leaves out the addresses that are IPv6 (scan.rs,
\* scan_cmd.rs, event.rs:296, syn_linux.rs:177).
NothingPassedOver ==
  pc = "over" /\ plan.save /\ "scan" \notin cut =>
    \A h \in Hosts :
      \/ plan.discover /\ Silent(h)
      \/ /\ \A p \in plan.udp : HasResult(<<h, p>>, "udp", saved)
         /\ \A p \in plan.tcp :
              \/ HasResult(<<h, p>>, "tcp", saved)
              \/ HasResult(<<h, p>>, "udp", prior)
              \/ Skipped(<<h, p>>)

\* What was found is kept: in the saved run, beside what the resumed run had, and
\* in the workspace, whatever ends the command. Only a command that is --ephemeral
\* and fails after the scan, because the service module cannot resolve the target
\* or there is no such script pack, has scanned for nothing (scan_cmd.rs, scan).
FindingsAreKept ==
  /\ pc = "over" /\ plan.save => collector \subseteq saved
  /\ pc \in {"over", "failed"} /\ ~plan.ephemeral => results \subseteq workspace

\* After Ctrl+C discovery probes nothing more, and the UDP scan at most what it
\* had admitted: its one look at the token comes before the waits (udp.rs:133).
ProbesStop == late <= IF datagrams = <<>> THEN 0 ELSE Concurrency

\* The command ends, with a saved run or an error, unless it stays in a raw scan,
\* the only wait without an end: there SynScan says what it waits for (scan_cmd.rs).
CommandEnds ==
  \/ pc = "resolve" ~> pc \in {"over", "failed"}
  \/ <>[]RawScan
=============================================================================
