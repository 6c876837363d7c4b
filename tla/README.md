# AresBird in TLA+

AresBird (`ares`) is a network inventory tool in Rust: it discovers hosts,
scans ports, identifies services, runs observation modules and playbooks of
them, keeps the results in a SQLite store, and offers all this on the command
line and over HTTP. This directory holds TLA+ models of the parts of it whose
correctness depends on interleavings, failures or the order of events, the TLC
configurations that check them and proofs for TLAPS.

Paths below are relative to `crates/`.

## The system

| Component | State | Operations | Interacts with |
|---|---|---|---|
| Connect scanner, `ares-net/src/connect.rs` | futures, semaphore, counters, channel | `scan_emit` | limiter, token, `emit` callback |
| Rate limiter, `ares-net/src/rate.rs` | `last` behind a mutex | `until_ready` | shared by the futures of a scan |
| Raw SYN engine, `ares-net/src/syn_linux.rs`, `syn.rs` | pending map, results, counters, a receiving thread | `syn_scan_emit`, `scan_with_engine` | link, token, `emit` |
| UDP scanner, host discovery, `ares-net/src/udp.rs`, `discover.rs` | futures, counters, list of live hosts | `scan_emit`, `host_discover_opts` | limiter, token, `emit`; called by the scan module |
| ARP, resolver, traceroute, `ares-net/src/` | none that lasts | one-shot I/O | raw engine, `path` module |
| Asset graph, `ares-core/src/graph.rs` | hosts, ports, findings | `apply`, `merge_from`, queries | every event; store; pipeline; watch |
| Events and collector, `ares-core/src/event.rs` | list of events, bus | `push`, `scanned_pairs`, counts | modules, store, resume |
| Orchestrator and job, `ares-core/src/orchestrator.rs`, `job.rs` | job status, token | `start`, `finish_ok`, `finish_err`, `cancel`, `emit` | exported, but no command uses the orchestrator |
| Module runner and `ares scan`, `ares-cli/src/main.rs`, `scan_cmd.rs` | graph, collector and token of a module; those of the command | `run_module_opts`, `scan` | modules, script packs, store, workspace |
| Modules, `ares-modules/src/` | none between runs | `run(ctx)` | scanners, protocol clients, graph in `ctx` |
| Pipeline, `ares-cli/src/pipeline.rs` | step index, graph, collector, flags | steps, `when`, `on_fail`, resume | modules, store, token |
| Run store, `ares-output/src/store.rs` | table `runs` | `save`, `load`, `upsert_workspace`, prunes | every command, the server's jobs |
| Workspace, `ares-cli/src/workspace.rs` | rows `workspace:<id>` | `merge_and_save` | store |
| Job server, `ares-cli/src/serve.rs` | table and order of jobs | `POST /v1/jobs`, tasks, reads | modules, store, workspace |
| Watch TUI, `ares-cli/src/watch.rs` | filters, a spawned pipeline | key loop | pipeline, workspace |
| Talk sessions, `ares-modules/src/talk/`, `ares-cli/src/talk_repl.rs` | base URL, cookies, transcript | REPL commands | protocol clients |
| Plugin host, script packs, `ares-plugin-api/src/`, `ares-cli/src/script_pack.rs` | registry, child processes | `run` with a timeout | modules |
| Protocol clients, `ares-proto/src/` | a connection, a cookie jar | one exchange with a peer, about seventy kinds of it | modules, script packs |
| Service probes, `ares-probe/src/` | none | `detect_service_ex`: the clients for a port, in turn | `service`, `fingerprint` |
| Reports, `ares-output/src/` | none | run to table, SARIF, diff, metrics | store |

A module does not return results: it calls `ctx.emit`, a closure that applies
the event to the graph, appends it to the collector and prints it. Modules stop
at their next look at a shared cancellation token. The command that started
them saves the collector and the graph as a run, and merges the graph into the
workspace.

What is hard about it, and what is correct for each part:

* **Scanners**: concurrent futures or threads share counters, permits and a
  channel or map; cancellation and retries race with results. Correct: every
  pair is reported once (of the raw engine: every IPv4 pair), only a cancelled
  scan omits one, the summary comes last and agrees, no connection is opened
  after the token is set, the call returns.
* **Rate limiter**: a slot is computed under a lock and awaited outside it.
  Correct: each caller keeps to the rate, waits are bounded, the slot never moves
  back.
* **Job server, store, workspace**: tasks settle records that other requests
  may have dropped; a merge is four statements without a transaction; the
  process can die between any two. Correct: the two halves of the job table
  agree, a record says what the store says, merges lose nothing, jobs settle.
* **Pipeline**: skipped, tolerated, cancelled and resumed steps. Correct: the
  final status says what happened, a completed resume has every result, nothing
  follows `JobFinished`, the job returns.
* **Graph and events**: keys that drop information (protocol), the order of events.
  Correct: merging is idempotent and loses nothing that the keys distinguish.
* **Protocol clients, service probes and the modules that drive them**: every
  await may fail, and what a client does then is its own: it returns, goes on,
  or tells of what it has; several clients are tried in turn for a port, several
  addresses for a host. Correct: a refusal, a timeout or silence never becomes a
  service or a finding, a port is not called open by an exchange that got
  nowhere, one peer's failure hides no other peer, Ctrl+C stops the module after
  a bounded number of connections, the module ends.
* **`ares scan`**: four kinds of modules in turn, each with a token, a graph and
  a collector of its own; a run that is resumed. Correct: no pair is passed over
  in silence, what was found is kept whatever ends the command, probes stop
  after Ctrl+C, the command ends.
* **Watch, plugins**: keys against the job, timeout against output.

`PROJECT.json` lists every component with its status, and under `hazards` every
place in the code where one of these things can go wrong, with its line.

## Modules

| Module | Models | Uses |
|---|---|---|
| `ScanTargets` | targets, port states, how reports are counted | |
| `ScanContract` | the promise any port scanner makes its caller (abstract) | `ScanTargets` |
| `ConnectScan` | `ConnectScanner::scan_emit` | `ScanTargets`; implements `ScanContract` |
| `SynScan` | `syn_scan_emit`, sender and receiving thread | `ScanTargets`; implements `ScanContract` |
| `RateLimiter` | `RateLimiter::until_ready` under contention | |
| `RunStore` | the SQL statements of `RunStore` as operators on a map from moments to rows | |
| `JobServer` | job table, the tasks of jobs, saves and workspace merges | `RunStore` |
| `Pipeline` | `run_pipeline_owned_ex` and the choice of targets of the modules | |
| `AssetGraph` | `AssetGraph::apply` for every kind of event and `merge_from`, as operators | |
| `LivingWorkspace` | commands that fill graphs and merge them into a workspace | `AssetGraph` |
| `Exchange` | one exchange of a client with a peer as a set of transcripts: the operators that clients are made of, and the line-banner client | |
| `DataClients`, `InfraClients`, `WebClients` | the clients of `ares-proto/src/apps/`: databases, caches and documents; mail, identity and messaging; cloud and web consoles | `Exchange` |
| `WireClients` | SSH, SMB, HTTP/2, TLS, DNS, ASN, the banner grabbed, guesses of a system | `Exchange` |
| `HttpEngine` | the HTTP client: requests, redirects, sessions | `WireClients` |
| `ServiceDetection` | `detect_service_ex`: what is asked of which port | the clients |
| `MisconfigChecks` | both `check_ports` of `active-misconfig` and the path probes | the clients |
| `TalkDispatch` | what `talk` does for each protocol | the clients |
| `Observation` | the modules `service`, `fingerprint`, `active-misconfig`, `talk` and `asn` over peers that behave in any way | the three above, `AssetGraph` |
| `ScanCommand` | `ares scan` with discovery, port scan, UDP scan, service detection and script pack, and `--resume` | takes the scanner by its contract |
| `ConnectScanProofs`, `SynScanProofs`, `RateLimiterProofs`, `JobServerProofs`, `PipelineProofs`, `LivingWorkspaceProofs`, `ObservationProofs`, `ScanCommandProofs` | proofs | the modules they are named after |
| `MC...` | values of the constants for TLC | |

Definitions called *faulty variant* in a module are not part of its
specification. Each is a plausible mistake in the definition that follows it,
and is used to see that a property notices it.

### ConnectScan

A future is in a *stage*: queued in the stream, spawned, waiting for a permit,
pacing (limiter, adaptive pause, jitter), probing, sent or skipped. An action is
what a future does between two awaits, because the futures run on one task.
`Spawn` is the stream's admission of at most `Concurrency` futures, `Start` the
first look at the token, `Connect` and `GiveUp` the second one after the waits,
`Retry` and `Finish` the retry loop and what follows it without an await: the
counter, the send and the release of the permit. `Receive` and `CollectorEnds`
are the collector task, `DropSender` and `EmitStats` the end of `scan_emit`.
Durations and the order of the targets are left out: every wait may end at any
moment and every connect may have any outcome.

### SynScan

The caller and the receiving thread share a map of pending probes by source
port, a list of results and three counters, each under a lock of its own, so
`Match` (count and unmap under the map's lock) and `Push` (list it) are two
steps. What is on the link is the set of answers to probes sent; it only grows,
so an answer may be read late, twice or never, also when its source port has
been given to another pair. The deadline passes at any moment. The thread looks
at deadline and token only between two packets (`Check`), and may wait for one
for ever (`Reads` is what the link brings).

A pair that is not IPv4 is passed over (`Skip`): the engine says nothing of it.
For an IPv4 pair the caller first looks for a source port that is free
(`Choose`), and waits for one, without a look at the token, while all of them
are pending; `Send` follows when there is one.

### RateLimiter

Time is a counter of ticks, and `Interval` ticks are the `10^9 / pps`
nanoseconds of the code. `Reserve` and `Pass` are the critical section, `Awake`
the end of a sleep, which may be late. A caller may call again at once.

### JobServer and RunStore

A job's task is at one step of `spawn_job` and `run_quiet_job`: begin, scan,
save, look, load, delete, insert, settle. Every SQL statement is a step of its
own, since no transaction surrounds them and every task opens its own
connection. `StoreFails` is any of them failing, `Crash` the server being killed
and started again. The graph of a job is abstracted to the asset it discovers,
so that what is lost can be seen. A row is found by the moment it was saved at,
its `created_at`; `clock` is the moment of the last save, so no two rows share
one (in the code they are read from a clock that is finer than two statements of
SQLite are apart). History variables record the jobs whose record made room
for another before it was settled (`dropped`), that a merge happened, that two
overlapped, and that one was torn between its two writes. `Panic` is a module
that panics: the task is gone, nobody awaits it, and its record stays as it is.

### Pipeline

One variable for each local of `run_pipeline_owned_ex` that decides what happens:
`i`, `errors`, `skip_rest`, `prior` (`skip_pairs`), the token. `fate` is a
history of what became of each step. A module is the set of pairs it will visit,
chosen on entry as the module's `run` chooses them; `Visit` is one pair, `Return`
its end, and `BreakOff`, `Tolerate` and `Abort` an error under the three cases of
the loop. `Bail` is the `?` on an unknown module or unreadable ports. Jobs are
started one after the other, resuming what the store has.

A scan step is not the only one whose events are `PortResult`s: so are those of
the clients that `service` and `active-misconfig` try (an HTTP visit has one for
a page, `ares-proto/src/http.rs:763`). Either may therefore add its pair to
`scanned` (`Hears`), with a finding or without, and a resume then passes it over.
`probed` is a history of the pairs that a scan step itself emitted. A scan by the raw
engine leaves out the pairs that are not IPv4, and may not return (`ScansRaw`).

### AssetGraph and LivingWorkspace

`AssetGraph` has one operator for each arm of `apply` and of `merge_from`, on
records and functions. Where the code keeps the better of two values
(confidence of an OS guess or of a service, length of a banner or a transcript,
TTL) the value is a number and 0 is "none"; the texts the latest event sets are
one field, `detail`; findings and the values of a name are sets, because the code
looks before it adds. In `LivingWorkspace` an action is a module's event, with
arguments of any kind, applied by the `emit` closure; `MergeAndSave` is
`merge_and_save` without a failure (`JobServer` has those); `Start` is the next
command, with an empty graph or, for `--resume`, that of a stored run. `merged`
is a history of every graph merged so far. `GraphBelow` is the order in which
one graph knows at least what another does.

### The clients: Exchange and the tables of clients

A client is an `async fn` that connects, sends, reads, emits events and returns.
Nobody reads the graph while it runs and there is no other task, so an exchange
is one step of its caller; what matters is every way it can go. A client is
therefore the *set of its transcripts*, over every peer: the most that was heard
of the peer (`Nothing`, `Connected`, `Replied`), the number of connections it
tries at most, the events it emits in order, and its result (`none`, `some`, and
two kinds of page). `Dial` is a connection that may be refused or time out,
`Await` a read that may fail, be empty or hold something, `IfSome` what a caller
does with a client's result, `Do`, `Try` and `Recognised` how a caller that
ignores, or looks at, an error goes on. What a peer's reply says is a choice; the
confidence of a service is kept, because the graph takes the larger one. Clients
that differ only in what they send and what they look for in the reply have the
same transcripts, and then share a definition: `map` names the lines of each.

`ServiceDetection`, `MisconfigChecks` and `TalkDispatch` are tables from ports or
protocols to the exchanges that are had in turn. `HttpEngine` follows redirects:
a chain has as many hops as are allowed, and hops at other addresses or ports
tell of other hosts and are left out but for the end of the session.

### Observation

Addresses are 1 to `Hosts`, in one target. An action is a look at the token with
what follows it, or one exchange, with any of its transcripts, applied to the
graph by the operators of `AssetGraph`. Ctrl+C comes between two exchanges or
during one, where no client can see it (`Play`). `contact` is a history of what
was heard of each address, `late` of the connections tried after the token was
set, `visited` of the addresses visited. The module is about one port or one
protocol at a time: the graph's records for a port do not depend on those of
another. `active-misconfig` asks the paths of a page one by one, with a pause
between the look at the token and the request.

### ScanCommand

An action is what the command does between two awaits: in the scan module, what
the future of an address (`Admit`, `Wake`, `Pinged`, `Tried`) or of a UDP pair
(`AdmitPair`, `Send`, `Probed`) does; in the port scanner, a report (`Publish`) or
its end (`Conclude`) as `ScanContract` promises them; in the service module and the
script pack, one visit. `token` is that of the module that runs; between two
modules nobody waits for Ctrl+C, so that `Cancel` can only come while one does.
Where the plan says so (`raw`) the scanner is the raw engine, which passes over
the pairs that are not IPv4 (`Skipped`) and need not end (`RawScan`). A script pack
is taken to end: a plugin that does not read its standard input can keep its
host waiting before the timeout starts, which is the plugin host's and is left out.
Statements of the store do not fail here: `JobServer` has that. `cut` is a
history of the modules whose token was set, `late` of the probes sent after it.

## Runs

| Run | Question | Values | Result |
|---|---|---|---|
| `connect_scan` | conservation, permits, cancellation, contract, termination | 3 targets, concurrency 2, 1 retry | holds |
| `syn_scan` | answers map back, probes counted, contract, termination | 3 IPv4 pairs and 1 other, 2 source ports | holds |
| `rate_limiter` | bounded wait, pace of a caller | 3 callers, interval 2, 6 ticks | holds |
| `serve_jobs` | job table, outcome, workspace, settling | 3 jobs, room for 2 | holds |
| `eviction_doc` | a full table drops finished jobs first | same | violated |
| `workspace_doc` | the workspace accumulates | same | violated |
| `pipeline` | status, resume, end of the job | 2 hosts (1 IPv6), 2 ports, 4 playbooks, 2 jobs | holds |
| `asset_graph` | what the workspace knows is what the runs knew | 1 address, 1 port, 2 levels, 3 events | holds |
| `workspace_protocol` | a port is open under the protocol a run saw | same, 2 events | violated |
| `observe` | what becomes a claim, which peers are asked, when it stops | 2 addresses, every kind of port and protocol, 2 paths | holds |
| `scan_command` | nothing passed over, findings kept, probes stop, end | 2 addresses (1 IPv6), 3 sets of options, 2 commands | holds |
| `pipeline_ports_doc` | `open:` visits only open ports of its list | same, another playbook | violated |

Why the bounds are enough. Three targets at concurrency two is the least with
futures queued, running and done together, with one of each kind of outcome; one
retry distinguishes first, repeated and exhausted attempts. Two source ports
for three IPv4 pairs make the caller wait for one, with or without an end, and
let a port be freed by an answer and taken again while answers to its first
probe are still around; the fourth pair is one that is passed over. Three callers and three intervals let a slot
lie ahead of the clock and two callers find it so. Three jobs in a table of two
make room while a job is queued, running or settled, and let a merge overlap a
merge that follows another. Two hosts with two ports tell a pair from a port;
the playbooks between them have every policy, every predicate and every module
of the model, a raw scan and another one, and a `service` step before the first
scan, whose results a resume passes over; two jobs are a run and its resume. Graphs are maps, and merging treats their keys one by one, so one address
with one port is enough for two runs to disagree on every field; three events
make two runs and a grown graph that is merged twice.

In `observe` two addresses are a peer that fails and one that is left, in
either order; `MCPorts` has every port of either table but those (`Alike`) whose
entries in both are the same as a smaller port's, and one port that no table
knows. Which addresses a scan had found open matters by their number alone, so
the first `n` stand for any `n`. Two paths are a first one and one after a pause.
A browsing session has two pages, one that another follows and one that none
does. In `scan_command` the three sets of options between them have discovery,
UDP, service detection, a pack that is there and one that is not, the raw engine,
runs that are saved and that are not, and `--ephemeral`; the second command resumes the first
with the same or other options, and asks over TCP for what the first had asked
over UDP. One future at a time (`Concurrency` 1) with two pairs leaves one pair
queued while the other is past its look at the token, which is what `ProbesStop`
is about; with concurrency 2 its bound would be all the pairs there are. Two
probe ports are a port after which another comes and the last.

The only bounds in a
specification are `Horizon` on the clock, `MaxRuns` and `MaxCommands` on the jobs
and commands started and `MaxEvents` on the events applied.

`CHECK_DEADLOCK FALSE` stands where the system really stops: when a scan is over,
when the clock has reached its horizon, when no further job or command may be
started. `Observation` has a step that says it is done instead, so that its run
does check for deadlocks. A
job server can always be killed and a next command started, so those two need no
exception.

### What the violated runs show

* `eviction_doc`: the comment at `serve.rs:701` says that finished jobs are dropped
  first; the code drops the one posted first. A job that is queued or running
  loses its record while a finished one keeps its own.
* `workspace_doc`: two jobs that finish together read the same workspace row,
  and the second to write removes what the first added. `SerialMergesAccumulate`
  holds: without overlap nothing is lost.
* `pipeline_ports_doc`: `open:web` with nothing of `web` open resolves to an
  empty list, which modules read as "no filter".
* `workspace_protocol`: ports are keyed by number. A port filtered over TCP in one
  run and open over UDP in another becomes open over TCP: `merge_port` takes
  the better state and keeps the protocol of the older entry.

### What the passing runs say that may surprise

The exceptions in the properties are what the code does, met while checking:

* Callers that find the last slot ahead of the clock all compute a wait of one
  interval *from now* (`rate.rs:31`: the saturating difference is 0), not from the
  last slot. `n` callers that arrive together are let through together, once per
  interval: `PerCallerPace` holds of each, the rate of all together is up to
  `n` times what `rate.rs:8` calls packets per second.
* A job settles, or its module has panicked and its record says `running` for
  as long as the server runs, or its record was dropped (`Settles`).
* An uncancelled raw scan reports nothing of the pairs that are not IPv4 and does
  not say so (`syn_linux.rs:177`); `ares scan` and a playbook inherit that.
* A raw scan has two waits without an end: for a packet on a silent link
  (`syn_linux.rs:105`) and for a source port when unanswered probes have all of
  them (`syn_linux.rs:185`, 35,536 ports). Neither looks at the deadline or the
  token, so Ctrl+C does not end them.
* A playbook that visits ports before it scans them has some of them in its
  results, and its resume then leaves them to no scan step (`ResumeIsComplete`).
* A peer that closes the connection without a word is, to the HTTP client, an
  empty page (`http.rs:585`): on the ports asked by HTTP it becomes a service of
  confidence 0.9 and is found to lack security headers (`TakenForPage`).
* A TLS handshake that fails opens the port in the graph, even where no
  connection was made (`tls_observe.rs:443`, `graph.rs:167`), and so does what
  an unknown port is known for (`TakenForOpen`).
* Ctrl+C stops the module that runs and no other: after a scan that was cancelled
  `ares scan --service` starts service detection. `talk` never looks at its token.
* A UDP probe goes out after Ctrl+C if its pair had been admitted (`udp.rs:133`).
* A pair that the resumed run has under UDP is not scanned over TCP
  (`event.rs:296`), and service detection visits every port that is open anywhere
  on every address.
* That a script pack does not exist is noticed only after the scan, when there
  are open ports for it; the command then ends by an error and saves no run
  (`scan_cmd.rs:202`). Unless it is `--ephemeral`, the workspace has the results.

## Fairness

* `ConnectScan`: weak fairness of each future, of the collector and of the
  caller. Tokio polls what is ready; permits are released by futures that end;
  pauses are sleeps; a connect is under `timeout`. Cancellation is not fair.
* `SynScan`: weak fairness of the caller, of the thread's own steps and of the
  passing of the deadline. There is none of the link: the thread reads a packet
  if one comes. Nor is a source port assumed to become free. `Terminates` names
  the two waits this leaves.
* `JobServer`: weak fairness of each task: the runtime polls it, its module
  returns, fails or panics, and SQLite returns or reports an error. Nobody must
  post or kill, and no module must panic.
* `Pipeline`: weak fairness of the job but for its raw scans, which need not
  return (`ScansRaw`). Nobody must start, cancel or kill.
* `Observation`: the module goes on until it is done: every await of a client is
  under a timeout. Written without `ENABLED` (of the steps that change anything
  all but one `Cancel` are the module's), which is the same and far cheaper to
  evaluate over sets of transcripts.
* `ScanCommand`: weak fairness of the command: futures are polled, waits end,
  connects, pings and reads have timeouts; the connect scanner ends (`Terminates`
  of `ConnectScan`). Of a raw scan no step is assumed. Nobody must cancel or resume.
* `RateLimiter` and `LivingWorkspace` have no liveness property and assume none.

## Proofs

`ConnectScanProofs`, for every finite set of targets, concurrency and number of
retries (`TargetsFinite`, `ConcurrencyPositive`, `RetriesNatural`):

* `Invariance`: `IInv` is an invariant. Its parts are the types, conservation of
  results, permits counted against the futures that hold them, the admission
  rule (no more active futures than `Concurrency`), the counters equal to the
  tally of the outcomes recorded, and what the phases of the caller and the
  collector imply. `ResultConservation` and `PermitAccounting` are not
  inductive alone: that a future asking for a permit finds one needs the
  admission rule, and that the summary agrees needs the counters to be tied to
  the outcomes.
* `TypeCorrect`, `Conservation`, `Permits`: consequences.
* `CancelStopsConnects`: the action property, from the guards of the two actions
  that connect.
* `Refinement`: `Spec` implements `ScanContract`'s. `Receive` maps to `Publish`,
  `EmitStats` to `Conclude`, `Cancel` to `Cancel`, all else to a stutter. The
  step for `EmitStats` is where the invariant is needed: when the collector has
  ended, everything sent has been emitted and the counters are the tally.
* Lemmas on the way: how moving one future changes the number of futures in a set
  of stages (`InStageMove`), how one more report changes a tally
  (`TallyOneMore`).

`RateLimiterProofs`, for every set of callers, interval and horizon: the types,
`WaitBounded`, `PerCallerPace` and `SlotsMoveForward`. Its invariant adds that
no slot is more than an interval ahead and that what a sleeper will have been
granted still fits before the end of its sleep.

`LivingWorkspaceProofs`, for every set of addresses, ports, texts, sessions and
levels (`LevelsPositive`, `PortsPositive`, `TextsAreSome`, `MaxEventsNatural`):

* `TypeCorrect`: every event of every kind, and every merge, leaves well-formed
  graphs.
* `MergeAbove`: a merge is above both graphs in `GraphBelow`. With the order
  being transitive on well-formed graphs this gives `Accumulation`, that
  `NothingIsLost` is an invariant: the types are what it needs to be inductive.
* `MergeAbsorbs`: merging a graph that is below changes no host, record or
  session. `Idempotence` (`StaleMergeAddsNothing`) follows from it and
  `Accumulation`, for a graph merged at any earlier time.
* `NoInvention` (`NothingIsInvented`): beside the types the property is inductive,
  since each field of a merged port, host or session is that of one of the two.
* `MergeLeast`: whatever is above both graphs is above their merge, so a merge is
  the least upper bound of the two in `GraphBelow`. Hence `MergeEitherWay`: the
  order of two graphs changes nothing but the protocol of a port and which of two
  texts is kept, which `GraphBelow` does not tell apart. `LeastWorkspace`
  (`NothingMore`): at every moment the workspace is the least graph above those
  merged, so every order of the same commands ends with the same knowledge.
* Lemmas for ports, hosts, paths and sessions in turn, since a merge of maps is
  parameterised by how values are combined, which a lemma cannot be.

`ScanCommandProofs`, for every finite set of addresses, every set of options with
finite port sets, every concurrency and every number of probe ports and of
commands that resume each other (`ScanAssumption`):

* `Invariance`: `IInv` is an invariant. Its parts are the types; `Tokens`, that a
  set token is that of the module that runs; `Kept`, that what the collectors
  have is in the workspace wherever a command may end; `Bounded`, that no probe
  is late before the UDP scan and that there the late ones and the pairs that
  still wait are at most `Concurrency`; `Covered`, which says phase by phase why an
  address or a pair may be missing while the scan is not cut (silent in
  discovery, still to be reported, its future not done, passed over by the raw
  engine). The properties look
  only at the end of a command or at a count, so each needs what holds on the
  way.
* `TypeCorrect`, `NothingOver` (`NothingPassedOver`), `FindingsKept`
  (`FindingsAreKept`), `FewProbes` (`ProbesStop`): consequences. `NothingOver` uses,
  besides `Covered`, that a result that is merged or carried over a resume stays
  a result.

`JobServerProofs`, for every finite set of jobs, every set of requests and every
size of the table:

* `Invariance`: `IInv` is an invariant. Only `WorkspaceSurvives` is inductive
  beside the types. `Index` adds to `IndexMatches` that a job has no record before
  it is posted and that the length of the order is the number of records, which
  is what lets the drop of the oldest and the insertion of the new one keep both
  in step. `Truth` says what a task has stored at each of its steps, and that a
  record says nothing of a task that is not done: without it a record settled
  after a crash could contradict the store. `Merges` says that, while no two merges
  overlap, the one that runs has found the latest row, and has loaded all of it
  before it deletes it.
* `TypeCorrect`, `TableIsIndexed`, `RecordsAreTrue`, `WorkspaceStays`,
  `MergesAccumulate`: consequences, one for each property of the run.
* `UnsettledRunsOn`: a record that is not settled belongs to a task that is under
  way or has panicked. This is the safety half of `Settles`.
* Lemmas about the statements of the store: what a save and a delete do to the
  rows of each name (`SaveProperties` and what follows it); about sequences without
  repetition, from which a member is taken out or to which one is added.

`SynScanProofs`, for every finite set of pairs, IPv4 or not, and every finite set of
source ports, however few (`TargetsFinite`, `Ipv4Pairs`, `SportsFinite`,
`FreeIsNoTarget`):

* `Invariance`: `IInv` follows a pair from its probe to its event. `Once` says
  that it is never in two places (pending, held by the thread, listed, emitted),
  `Sent` that once probed it is in one, `Counted` that each counter is the number
  of results of its state, wherever they are. `ProbesAreCounted` says nothing of the
  time after the join, and the contract nothing of the time before.
* `TypeCorrect`, `AnswersMapBack`, `EveryProbeCounts`: consequences. That a
  counter stays in its type is a consequence too: it counts a set of pairs.
* `Refinement`: `Spec` implements `ScanContract`'s for the IPv4 pairs, as the
  connect engine does for all; that no other pair is ever reported is part of
  the types. `Emit` maps to `Publish`, `EmitStats` to `Conclude`, `Cancel` to `Cancel`; the
  receiving thread only stutters.
* Lemmas about sequences of reports (append, tail, concatenation, a set that is
  listed), and one for the effect of each step on the set of results.

`PipelineProofs`, for every set of playbooks, every finite set of hosts and of
ports and every number of jobs (`HostsFinite`, `PortsFinite`, `PlaybooksType`,
`MaxRunsPositive`):

* `Invariance`: `IInv` is an invariant. `Course` says, at each turn of the loop
  of a job that is not cancelled, that exactly the steps from `i` on are pending,
  none is cut, `errors` holds if one failed, and `skip_rest` if one that failed
  says so: `StatusIsTrue` itself speaks only of the time after the loop.
  `Covered` says of every step that is done, and of the one that runs but for what
  it has still to visit, that what it was asked for is scanned; it rests on
  `prior` being a part of `scanned`, which is what taking over the events of the
  resumed run gives. `Heard` says which pairs can be in `scanned` though no scan
  step emitted them: open ones.
* `TypeCorrect`, `JobFinishedIsTrue`, `ResumedJobsAreComplete`: consequences.
* `JobFinishedIsLast` (`NothingAfterFinish`): the action property, since the
  status is set only where the loop ends.

`ObservationProofs`, for every number of addresses, every set of ports, every
choice of the modules and every length of the list of paths
(`ObservationAssumption`). The run has two peers and two paths; the theorems are
about every transcript of every client, on every port of every table:

* An event has a *weight*: 2 if it is a claim (a finding, or a service above the
  confidence of a guess), 1 if it opens a port, else 0. A transcript is `Sound`
  for a budget if it tries no more connections than that and emits nothing that
  weighs more than what was heard; it is `Telling` if, besides, its result is an
  answer only if the peer sent one. What excuses an event is the *mode* of a
  port: an empty page is an answer where the HTTP client asks, and a port that
  `TakenForOpen` names is open in any case. The operators that clients are made
  of keep both (`AwaitKeeps`, `SpareKeeps`, `HearsFirm` and those next to them),
  so that each client has a lemma of a few lines; a client that answers only on a
  reply is `Firm`, which needs no excuse.
* Tables: a visit `Fits` its port if there are budgets, one before each of its
  exchanges, that the exchanges do not exceed, the first of at most `Linger`.
  Every entry of the three tables has a lemma, and `PortTableFits`,
  `CheckTableSettles`, `ProtoTableFits` put them together (a key has one entry,
  `OneEntry`). `active-misconfig` needs more (`Settles`): it does not visit the
  other peers of a host after an answer, so all its exchanges are `Telling`. `Linger`
  is therefore not a number that TLC was seen to stay under but the sum of the
  budgets of the longest visit.
* The graph: an event of weight `w` keeps, of every port, that open and claimed mean
  a level of at least `w` (`ApplyHeeds`), in a transcript of any length
  (`AppliedHeeds`, by the least prefix that would not; induction over the length
  is out of the prover's reach, a least counterexample is not).
* `Invariance`: `IInv` is an invariant. `OpenOnlyIfReached` and `ClaimsAreHeard` are
  inductive only with the lemmas above, and with the graph's shape. `Course` says
  that whoever is planned is visited or still ahead, unless the token is set or
  a peer of one host answered: `NoPeerPassedOver` speaks only of the end. `Budget`
  says that the connections tried late and the budget of the visit from its next
  step on are together at most `Linger`, and that none is late while the token is
  not set, nor in the pause before a path: a module is past its last look there
  and will still try one. `Place` says where a visit or a list of paths can be;
  `TypeOK` itself is not inductive, as a path is counted down after the pause
  that was begun while there was one left.
* `TypeCorrect`, `OpenedIsReached`, `ClaimsHeard`, `NobodyPassedOver`,
  `LingerIsBounded`: consequences, one for each safety property of the run.

### What is proved of termination

Liveness under fairness and `ENABLED` are beyond the prover, so `Terminates`,
`Settles`, `Returns`, `EventuallyDone` and `CommandEnds` are model-checked only. Most
of what they rest on is proved for every value of the constants, and without
fairness: no behaviour goes on for ever before the end, because every step (but a
stutter) makes a well-founded measure smaller.

| Theorem | Measure | Of which steps |
|---|---|---|
| `ConnectScanProofs.Shrinks` | number of steps ahead (`StepsAhead`), at most `Retries + 6` for each pair and 4 (`StepsBounded`) | all |
| `SynScanProofs.DeadlineEndsIt` | number of pairs unsent and unreported, answers not yet on the link, and steps of the two threads | those after the deadline or a cancel; before it the thread reads as long as the link carries packets |
| `PipelineProofs.JobsShrink` | token, steps of the playbook, turn of the loop, visits (`Measured`) | those of a job; starting one is bounded by `MaxRuns` |
| `ScanCommandProofs.CommandsShrink` | parts of the command, token, work in the part (`Measured`) | those of a command; resuming one is bounded by `MaxCommands` |
| `ObservationProofs.ModulesShrink` | hosts, addresses, paths, exchanges of the visit, token (`Measured`) | all |

`Shrinks` needs that a future has tried nothing before its first connect
(`Untried`), `DeadlineEndsIt` that a pair is reported once, `CommandsShrink` that
no list of results is infinite (`Finite`) and that a host being probed has a port
left, `ModulesShrink` that the visit in progress stays what it was while its
exchanges change the graph, and that paths are asked for between visits only.

That the systems cannot stop before the end either is what TLC checks as
deadlock. For the connect scan it is proved (`NeverStuck`, which rests on a
waiting future finding a permit). Of the raw scan's two waits one is proved to
belong to large scans only (`PortsSuffice`): in a scan of no more IPv4 pairs than
there are source ports the caller finds one, by the pigeonhole principle, since
the pending probes are of different pairs. What fairness adds, that a step that
stays possible is taken, is left to TLC.

Induction over data is beyond the prover too. `SlotsMoveForward`, `NothingMore`,
which quantifies over all graphs, and the properties of this section
(`EveryStepCounts`, `WindsDown`, `SomeoneGoesOn`, `WaitsOnlyInLargeScans`) are proved and
checked by no run.

## Not modelled

* Bytes: packet layouts, requests, the parsing of replies, TLS, SQL dialects,
  rendering and argument parsing are data: a wrong byte there is found by a unit
  test. Which words of a banner make which guess, and which replies a client
  recognises, are the peer's choice in the models.
* The contents of graphs and events are reduced to what the properties tell
  apart; timing profiles are replaced by arbitrary delays.
* The orchestrator, which no command uses; the watch TUI; the REPL of `talk` but
  for the end of its session in the graph; the plugin host, whose child processes
  and timeouts are planned; `recon` and `path`, one kind of request per target;
  ARP and traceroute, one-shot I/O.
* Pure functions to text: reports, port lists, metrics, diff. Timing tables.
* `list`, `stats`, `delete` and the prunes of the store, and the commands that
  only read it.

The components with status `not_modelled` or `partly` in `PROJECT.json` say
what is missing, one by one.

## Plan

In this order, most important behaviour first; the first nine are done.

1. `ScanContract`, `ConnectScan`, its proofs.
2. `RateLimiter`, its proofs.
3. `RunStore`, `JobServer`.
4. `Pipeline`.
5. `SynScan`.
6. `AssetGraph`, `LivingWorkspace`, their proofs.
7. `Exchange`, the tables of clients, `Observation`: every client and the modules
   that drive them.
8. `ScanCommand`: discovery, UDP, service detection and packs on one command, its
   proofs.
9. Proofs of every safety property of `ScanCommand`, `JobServer`, `SynScan`,
   `Pipeline` and `Observation`, and the measures that bound their behaviours.
10. The rest of `RunStore`: `list`, `prune_keep`, `prune_named`, baselines, and the
    commands that use them. The watch loop: keys and the job.
11. Plugin host: registry, timeouts, output.
12. Pure algorithms: port lists, diff with its severity gate, each against a
    reference definition.

## Running

`tlc -config MCConnectScan.cfg MCConnectScan.tla` and likewise for the other
configurations (`MCJobEviction.cfg` and
`MCJobWorkspace.cfg` go with `MCJobServer.tla`, `MCPipelinePorts.cfg` with
`MCPipeline.tla`, `MCWorkspaceProtocol.cfg` with `MCLivingWorkspace.tla`); `tlapm ConnectScanProofs.tla` and likewise for the other proof modules.
