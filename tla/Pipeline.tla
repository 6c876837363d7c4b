------------------------------ MODULE Pipeline ------------------------------
(***************************************************************************)
(* run_pipeline_owned_ex of ares-cli/src/pipeline.rs: the steps of a YAML  *)
(* playbook run one after the other on one asset graph and one collector,  *)
(* with the choice of targets the built-in modules make (ares-modules).    *)
(*                                                                         *)
(* A step is skipped when it comes before --from-step or its `when` does   *)
(* not hold; a failed one ends the job, ends the playbook, or is ignored,  *)
(* as its on_fail says. Ctrl+C cancels the token at any moment; modules    *)
(* stop at their next look at it. The run is saved after JobFinished, also *)
(* when it was cancelled, and a later job may resume from it: the prior    *)
(* events and graph are taken over and the pairs with a PortResult are not *)
(* scanned again. The process may also be killed, which saves nothing.     *)
(*                                                                         *)
(* Abstractions: a module is the set of (host, port) pairs it visits in    *)
(* any order; of the graph we keep the open pairs and those with a         *)
(* finding, of the events the pairs with a PortResult and the lifecycle.   *)
(* PortResults come from scans and from the HTTP and TLS clients of the    *)
(* other modules; skip_pairs does not tell them apart. The `discover` and  *)
(* `udp` extras of `scan` and resumes from another playbook's run are left *)
(* out. Every job is started with --save.                                  *)
(***************************************************************************)
EXTENDS FiniteSets, Naturals, Sequences

CONSTANTS
  Hosts,      \* the resolved targets
  Ipv6,       \* those of them that are not IPv4 addresses
  Ports,      \* port numbers
  Defaults,   \* the ports a module takes when it is given none
  Playbooks,  \* the playbooks that may be run
  MaxRuns     \* bound on the jobs started one after the other

Pairs == Hosts \X Ports

Modules == {"discover", "scan", "service", "active-misconfig", "unknown"}
Policies == {"abort", "continue", "skip_rest"}

\* The WhenClause: a predicate that is absent constrains nothing.
WhenClauses == [open_any : SUBSET BOOLEAN, min_open : Nat,
                open_ports : SUBSET SUBSET Ports, findings_gte : Nat]

Always == [open_any |-> BOOLEAN, min_open |-> 0, open_ports |-> {},
           findings_gte |-> 0]

\* ports: a list, `open`, `open:<list>`, or something parse_ports rejects.
PortSpecs == [open : BOOLEAN, list : SUBSET Ports, valid : BOOLEAN]

\* raw: the step says `syn: true`, and the raw engine can open the link.
StepType == [module : Modules, ports : PortSpecs, when : WhenClauses,
             on_fail : Policies, raw : BOOLEAN]

ASSUME HostsFinite == IsFiniteSet(Hosts) /\ Ipv6 \subseteq Hosts
ASSUME PortsFinite == IsFiniteSet(Ports) /\ Defaults \subseteq Ports
ASSUME PlaybooksType == Playbooks \subseteq Seq(StepType)
ASSUME MaxRunsPositive == MaxRuns \in Nat \ {0}

VARIABLES
  playbook,   \* the steps
  runs,       \* jobs started so far
  pc,         \* "idle", "next", "running" or "saving"
  i,          \* index of the next step or of the one that runs
  todo,       \* the pairs the module has still to visit
  open,       \* the open pairs of the graph
  findings,   \* the pairs with a finding in the graph
  scanned,    \* the pairs with a PortResult in the collector
  probed,     \* history: those whose PortResult a scan step has emitted
  prior,      \* skip_pairs
  errors,     \* step_errors > 0
  skip_rest,  \* skip_rest
  cancelled,  \* the cancellation token
  status,     \* the JobFinished event, or "none" before it
  saved,      \* the latest run in the store, or none
  fate        \* history: what became of each step of this job

graph == <<open, findings>>
results == <<scanned, probed>>
vars == <<playbook, runs, pc, i, todo, graph, results, prior, errors,
          skip_rest, cancelled, status, saved, fate>>

Step == playbook[i]

Init ==
  /\ playbook \in Playbooks
  /\ runs = 0
  /\ pc = "idle"
  /\ i = 1
  /\ todo = {}
  /\ open = {}
  /\ findings = {}
  /\ scanned = {}
  /\ probed = {}
  /\ prior = {}
  /\ errors = FALSE
  /\ skip_rest = FALSE
  /\ cancelled = FALSE
  /\ status = "none"
  /\ saved = {}
  /\ fate = [s \in 1 .. Len(playbook) |-> "pending"]

(* Starting a job. *)

Blank == [open |-> {}, findings |-> {}, scanned |-> {}, probed |-> {}]

\* A run holds the collector and the graph; `probed` goes with its events.
Saved == [open |-> open, findings |-> findings, scanned |-> scanned,
          probed |-> probed]

\* Faulty variant: the prior events are not taken over.
StartWithoutEvents(run, resume) ==
  /\ pc = "idle"
  /\ runs < MaxRuns
  /\ runs' = runs + 1
  /\ pc' = "next"
  /\ open' = run.open
  /\ findings' = run.findings
  /\ scanned' = {}
  /\ probed' = {}
  /\ prior' = IF resume THEN run.scanned ELSE {}
  /\ errors' = FALSE
  /\ skip_rest' = FALSE
  /\ cancelled' = FALSE
  /\ status' = "none"
  /\ todo' = {}
  /\ \E first \in 1 .. Len(playbook) :
       /\ i' = first
       /\ fate' = [s \in DOMAIN fate |-> IF s < first THEN "before" ELSE "pending"]
  /\ UNCHANGED <<playbook, saved>>

\* What --resume takes from the store, and JobStarted.
StartFrom(run, resume) ==
  /\ pc = "idle"
  /\ runs < MaxRuns
  /\ runs' = runs + 1
  /\ pc' = "next"
  /\ open' = run.open
  /\ findings' = run.findings
  /\ scanned' = run.scanned
  /\ probed' = run.probed
  /\ prior' = IF resume THEN run.scanned ELSE {}
  /\ errors' = FALSE
  /\ skip_rest' = FALSE
  /\ cancelled' = FALSE
  /\ status' = "none"
  /\ todo' = {}
  \* --from-step
  /\ \E first \in 1 .. Len(playbook) :
       /\ i' = first
       /\ fate' = [s \in DOMAIN fate |-> IF s < first THEN "before" ELSE "pending"]
  /\ UNCHANGED <<playbook, saved>>

Start == StartFrom(Blank, FALSE)

Resume == \E run \in saved : StartFrom(run, TRUE)

(* The loop over the steps. *)

\* eval_when
Holds(when) ==
  LET openPorts == {p[2] : p \in open}
  IN  /\ (open # {}) \in when.open_any
      /\ Cardinality(open) >= when.min_open
      /\ \A need \in when.open_ports : need \cap openPorts # {}
      /\ Cardinality(findings) >= when.findings_gte

\* resolve_ports
Resolved(spec) ==
  IF spec.open THEN {p[2] : p \in open} \cap spec.list ELSE spec.list

\* A module given no ports takes its defaults.
OrDefaults(ports) == IF ports = {} THEN Defaults ELSE ports

\* service and active-misconfig: the open pairs, filtered by the ports they
\* are given, or the whole target when nothing is open.
OpenTargets(ports) ==
  IF open = {} THEN Hosts \X OrDefaults(ports)
  ELSE IF ports = {} THEN open
  ELSE {p \in open : p[2] \in ports}

\* The pairs a scan of these ports probes: the raw engine passes over the
\* addresses that are not IPv4 (syn_linux.rs:177).
ProbedBy(step, ports) ==
  (IF step.raw THEN Hosts \ Ipv6 ELSE Hosts) \X OrDefaults(ports)

Visits(step, ports) ==
  CASE step.module = "scan" -> ProbedBy(step, ports) \ prior
    [] step.module \in {"service", "active-misconfig"} -> OpenTargets(ports)
    [] OTHER -> {}

Stops == skip_rest \/ cancelled \/ i > Len(playbook)

\* Faulty variant: the loop does not go on to the next step.
GateInPlace ==
  /\ pc = "next" /\ ~Stops
  /\ ~Holds(Step.when)
  /\ fate' = [fate EXCEPT ![i] = "gated"]
  /\ UNCHANGED <<playbook, runs, pc, i, todo, graph, results, prior, errors,
                 skip_rest, cancelled, status, saved>>

Gate ==
  /\ pc = "next" /\ ~Stops
  /\ ~Holds(Step.when)
  /\ i' = i + 1
  /\ fate' = [fate EXCEPT ![i] = "gated"]
  /\ UNCHANGED <<playbook, runs, pc, todo, graph, results, prior, errors,
                 skip_rest, cancelled, status, saved>>

\* An unknown module or unreadable ports: `?` returns in the middle of the job.
BadStep == Step.module = "unknown" \/ ~Step.ports.valid

Bail ==
  /\ pc = "next" /\ ~Stops
  /\ Holds(Step.when)
  /\ BadStep
  /\ pc' = "idle"
  /\ UNCHANGED <<playbook, runs, i, todo, graph, results, prior, errors,
                 skip_rest, cancelled, status, saved, fate>>

Enter ==
  /\ pc = "next" /\ ~Stops
  /\ Holds(Step.when)
  /\ ~BadStep
  /\ pc' = "running"
  /\ todo' = Visits(Step, Resolved(Step.ports))
  /\ UNCHANGED <<playbook, runs, i, graph, results, prior, errors,
                 skip_rest, cancelled, status, saved, fate>>

(* What the events a module emits of a pair do to the graph and the results. *)

\* A scan's PortResult replaces the graph's port, whatever was known of it.
PortResult(p) ==
  /\ scanned' = scanned \cup {p}
  /\ probed' = probed \cup {p}
  /\ open' \in {open \cup {p}, open \ {p}}
  /\ UNCHANGED findings

\* Faulty variant: the client reports the port whether it was reached or not.
HearsNothing(p) ==
  /\ scanned' = scanned \cup {p}
  /\ UNCHANGED <<graph, probed>>

\* The clients of service and active-misconfig. They may say nothing of a pair;
\* that it is open, in a service, banner or probe result; that it has a finding,
\* which makes its port an open one; or emit a PortResult of their own, always
\* an open one (http.rs:763, http2.rs:102 and 194, tls_observe.rs:454).
Hears(p) ==
  \E result, finding \in BOOLEAN :
    /\ scanned' = IF result THEN scanned \cup {p} ELSE scanned
    /\ findings' = IF finding THEN findings \cup {p} ELSE findings
    /\ \/ open' = open \cup {p}
       \/ ~result /\ ~finding /\ open' = open
    /\ UNCHANGED probed

\* The module visits a pair, and may have nothing to say of it.
Visit(p) ==
  /\ pc = "running"
  /\ p \in todo
  /\ todo' = todo \ {p}
  /\ \/ Step.module = "scan" /\ PortResult(p)
     \/ Step.module \in {"service", "active-misconfig"} /\ Hears(p)
  /\ UNCHANGED <<playbook, runs, pc, i, prior, errors, skip_rest, cancelled,
                 status, saved, fate>>

\* The module returns: it is through, or it saw the token.
Return ==
  /\ pc = "running"
  /\ todo = {} \/ cancelled
  /\ pc' = "next"
  /\ i' = i + 1
  /\ fate' = [fate EXCEPT ![i] = IF todo = {} THEN "done" ELSE "cut"]
  /\ UNCHANGED <<playbook, runs, todo, graph, results, prior, errors,
                 skip_rest, cancelled, status, saved>>

\* The module returns an error while the token is set: the loop ends.
BreakOff ==
  /\ pc = "running"
  /\ cancelled
  /\ pc' = "next"
  /\ fate' = [fate EXCEPT ![i] = "cut"]
  /\ UNCHANGED <<playbook, runs, i, todo, graph, results, prior, errors,
                 skip_rest, cancelled, status, saved>>

\* Faulty variant: a step that failed is not counted.
TolerateSilently ==
  /\ pc = "running" /\ ~cancelled
  /\ Step.on_fail \in {"continue", "skip_rest"}
  /\ skip_rest' = (Step.on_fail = "skip_rest")
  /\ pc' = "next"
  /\ i' = i + 1
  /\ fate' = [fate EXCEPT ![i] = "failed"]
  /\ UNCHANGED <<playbook, runs, todo, graph, results, prior, errors,
                 cancelled, status, saved>>

\* The module returns an error, and its step says to go on or to skip the rest.
Tolerate ==
  /\ pc = "running" /\ ~cancelled
  /\ Step.on_fail \in {"continue", "skip_rest"}
  /\ errors' = TRUE
  /\ skip_rest' = (Step.on_fail = "skip_rest")
  /\ pc' = "next"
  /\ i' = i + 1
  /\ fate' = [fate EXCEPT ![i] = "failed"]
  /\ UNCHANGED <<playbook, runs, todo, graph, results, prior, cancelled,
                 status, saved>>

\* Faulty variant: the job is reported as failed and the loop goes on.
AbortAndGoOn ==
  /\ pc = "running" /\ ~cancelled
  /\ Step.on_fail = "abort"
  /\ status' = "failed"
  /\ pc' = "next"
  /\ i' = i + 1
  /\ fate' = [fate EXCEPT ![i] = "failed"]
  /\ UNCHANGED <<playbook, runs, todo, graph, results, prior, errors,
                 skip_rest, cancelled, saved>>

\* It says to abort, or nothing: JobFinished, and the job returns the error.
Abort ==
  /\ pc = "running" /\ ~cancelled
  /\ Step.on_fail = "abort"
  /\ status' = "failed"
  /\ pc' = "idle"
  /\ fate' = [fate EXCEPT ![i] = "failed"]
  /\ UNCHANGED <<playbook, runs, i, todo, graph, results, prior, errors,
                 skip_rest, cancelled, saved>>

(* The end of the job. *)

Finish ==
  /\ pc = "next" /\ Stops
  /\ status' = CASE cancelled -> "cancelled"
                 [] ~cancelled /\ errors -> "completed_with_errors"
                 [] OTHER -> "completed"
  /\ pc' = "saving"
  /\ UNCHANGED <<playbook, runs, i, todo, graph, results, prior, errors,
                 skip_rest, cancelled, saved, fate>>

\* Faulty variant: the latest run is no longer the only one to be found.
SaveBeside ==
  /\ pc = "saving"
  /\ pc' = "idle"
  /\ saved' = saved \cup {Saved}
  /\ UNCHANGED <<playbook, runs, i, todo, graph, results, prior, errors,
                 skip_rest, cancelled, status, fate>>

\* The run goes into the store, or the store fails.
Save ==
  /\ pc = "saving"
  /\ pc' = "idle"
  /\ saved' \in {saved, {Saved}}
  /\ UNCHANGED <<playbook, runs, i, todo, graph, results, prior, errors,
                 skip_rest, cancelled, status, fate>>

(* What happens to the job. *)

\* Ctrl+C
Cancel ==
  /\ pc # "idle"
  /\ ~cancelled
  /\ cancelled' = TRUE
  /\ UNCHANGED <<playbook, runs, pc, i, todo, graph, results, prior, errors,
                 skip_rest, status, saved, fate>>

Kill ==
  /\ pc # "idle"
  /\ pc' = "idle"
  /\ UNCHANGED <<playbook, runs, i, todo, graph, results, prior, errors,
                 skip_rest, cancelled, status, saved, fate>>

Job ==
  \/ Gate \/ Bail \/ Enter
  \/ \E p \in Pairs : Visit(p)
  \/ Return \/ BreakOff \/ Tolerate \/ Abort
  \/ Finish \/ Save

Next == Start \/ Resume \/ Job \/ Cancel \/ Kill

\* A raw scan, whose thread waits for packets without a timeout.
ScansRaw == pc = "running" /\ Step.module = "scan" /\ Step.raw

\* The runtime polls the job, and every visit of another engine or module ends:
\* all they wait for has a timeout. Nobody has to start a job.
Fairness == WF_vars(Job /\ ~ScansRaw)

Spec == Init /\ [][Next]_vars /\ Fairness
-----------------------------------------------------------------------------
(* Properties *)

Fates == {"pending", "before", "gated", "done", "cut", "failed"}

Statuses ==
  {"none", "failed", "cancelled", "completed_with_errors", "completed"}

TypeOK ==
  /\ playbook \in Playbooks
  /\ runs \in 0 .. MaxRuns
  /\ pc \in {"idle", "next", "running", "saving"}
  /\ i \in 1 .. Len(playbook) + 1
  /\ {todo, open, findings, scanned, probed, prior} \subseteq SUBSET Pairs
  /\ {errors, skip_rest, cancelled} \subseteq BOOLEAN
  /\ status \in Statuses
  /\ Cardinality(saved) <= 1
  /\ \A run \in saved :
       {run.open, run.findings, run.scanned, run.probed} \subseteq SUBSET Pairs
  /\ fate \in [1 .. Len(playbook) -> Fates]

Fate(f) == {s \in DOMAIN fate : fate[s] = f}

\* JobFinished says what happened: a completed job ran every step it did not
\* skip to its end, one with errors left out only what follows a step that
\* failed with skip_rest, a failed one did nothing after the step that aborted
\* it, and a step is cut short only in a job that is reported as cancelled,
\* whenever the token is set (the four exits of the loop).
StatusIsTrue ==
  /\ status \in {"completed", "completed_with_errors"} => Fate("cut") = {}
  /\ status = "completed" => Fate("pending") \cup Fate("failed") = {}
  /\ status = "completed_with_errors" =>
       \E f \in Fate("failed") :
         Fate("pending") # {} =>
           playbook[f].on_fail = "skip_rest" /\ \A s \in Fate("pending") : s > f
  /\ status = "failed" =>
       \E f \in Fate("failed") :
         playbook[f].on_fail = "abort" /\ Fate("pending") = f + 1 .. Len(playbook)

\* A completed job has a result for every pair its scan steps were asked for and
\* their engine probes, found by itself or by one of the jobs it resumes, however
\* often the playbook was interrupted and resumed (--resume, skip_pairs). A pair
\* that a resume passes over though no scan step has ever scanned it, because a
\* client's PortResult put it among skip_pairs, is known to be open.
ResumeIsComplete ==
  status = "completed" =>
    \A s \in Fate("done") :
      playbook[s].module = "scan" /\ ~playbook[s].ports.open =>
        \A p \in ProbedBy(playbook[s], playbook[s].ports.list) :
          p \in scanned /\ p \in probed \cup open

\* JobFinished is the last event of a job: it is emitted once, and neither the
\* graph nor the results change after it.
NothingAfterFinish ==
  [][status # "none" /\ runs' = runs =>
       UNCHANGED <<status, graph, results>>]_vars

\* Every job returns, whatever its steps do and whenever it is cancelled, unless
\* a raw scan waits for ever (the Terminates of SynScan says when).
Returns == []<>(pc = "idle") \/ <>[]ScansRaw

\* A step that asks for open ports visits only these (fixtures/README.md:27,
\* "`ports: open:web` | Open ∩ preset/list").
OpenPortsOnly ==
  pc = "running" /\ Step.ports.open =>
    \A p \in todo : p[2] \in Step.ports.list
=============================================================================
