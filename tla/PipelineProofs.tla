--------------------------- MODULE PipelineProofs ----------------------------
(***************************************************************************)
(* Theorems about Pipeline, for every set of playbooks, every finite set   *)
(* of hosts and of ports and any number of jobs that resume one another.   *)
(*                                                                         *)
(* StatusIsTrue says nothing before JobFinished: Course is what the flags  *)
(* of the loop say, at each turn of it, of the steps behind it and before  *)
(* it. ResumeIsComplete speaks of completed jobs only; Covered says it of  *)
(* the steps already done and of what the one that runs has still to visit,*)
(* and Heard, of this job and of the run in the store, that a result which *)
(* no scan step emitted is of an open pair.                                *)
(***************************************************************************)
EXTENDS Pipeline, FiniteSetTheorems, TLAPS

RunType == [open : SUBSET Pairs, findings : SUBSET Pairs, scanned : SUBSET Pairs,
            probed : SUBSET Pairs]

\* TypeOK, and the types of the run in the store.
Types ==
  /\ playbook \in Playbooks
  /\ runs \in 0 .. MaxRuns
  /\ pc \in {"idle", "next", "running", "saving"}
  /\ i \in 1 .. Len(playbook) + 1
  /\ todo \subseteq Pairs /\ open \subseteq Pairs /\ findings \subseteq Pairs
  /\ scanned \subseteq Pairs /\ probed \subseteq Pairs /\ prior \subseteq Pairs
  /\ errors \in BOOLEAN /\ skip_rest \in BOOLEAN /\ cancelled \in BOOLEAN
  /\ status \in Statuses
  /\ saved \subseteq RunType
  /\ \A a, b \in saved : a = b
  /\ fate \in [1 .. Len(playbook) -> Fates]

\* JobFinished comes after the loop, and a step runs within it.
Phases ==
  /\ pc \in {"next", "running"} => status = "none"
  /\ pc = "running" => i <= Len(playbook)

\* In a job that is not cancelled the steps behind the loop have their fate and
\* those before it are pending, errors says that a step failed, and skip_rest
\* that one of those that did says so.
Course ==
  pc \in {"next", "running"} /\ ~cancelled =>
    /\ \A s \in DOMAIN fate : fate[s] = "pending" <=> s >= i
    /\ Fate("cut") = {}
    /\ errors <=> Fate("failed") # {}
    /\ skip_rest => \E f \in Fate("failed") : playbook[f].on_fail = "skip_rest" /\ f < i

\* A scan of given ports, and the pairs it is asked for.
IsScan(s) == playbook[s].module = "scan" /\ ~playbook[s].ports.open
Asked(s) == ProbedBy(playbook[s], playbook[s].ports.list)

\* What a scan step has not visited yet it has still to visit, or an earlier job
\* has scanned it; what a step that is done was asked for is scanned.
Covered ==
  /\ prior \subseteq scanned
  /\ pc = "running" /\ IsScan(i) => Asked(i) \subseteq scanned \cup todo
  /\ \A s \in Fate("done") : IsScan(s) => Asked(s) \subseteq scanned

\* A result is a scan step's or of an open pair.
Heard ==
  /\ scanned \subseteq probed \cup open
  /\ \A run \in saved : run.scanned \subseteq run.probed \cup run.open

IInv == Types /\ Phases /\ Course /\ StatusIsTrue /\ Covered /\ Heard

-----------------------------------------------------------------------------
(* The invariant. *)

\* The steps of a playbook are steps.
LEMMA StepsAreTyped ==
  ASSUME Types, NEW s \in 1 .. Len(playbook)
  PROVE  playbook[s] \in StepType
<1>1. playbook \in Seq(StepType)
  BY PlaybooksType DEF Types
<1> QED
  BY <1>1

\* The fate of one step changes.
LEMMA FateOf ==
  ASSUME NEW f, NEW s \in DOMAIN fate, fate' = [fate EXCEPT ![s] = f], NEW g
  PROVE  Fate(g)' = IF f = g THEN Fate(g) \cup {s} ELSE Fate(g) \ {s}
BY DEF Fate

LEMMA FateUntouched ==
  ASSUME UNCHANGED fate, NEW g
  PROVE  Fate(g)' = Fate(g)
BY DEF Fate

\* A module visits pairs of hosts and ports.
LEMMA VisitsPairs ==
  ASSUME Types, pc = "next", ~Stops
  PROVE  Visits(Step, Resolved(Step.ports)) \subseteq Pairs
<1>1. i \in 1 .. Len(playbook)
  BY DEF Types, Stops
<1>2. Step.ports.list \subseteq Ports
  BY <1>1, StepsAreTyped DEF Step, StepType, PortSpecs
<1>3. Resolved(Step.ports) \subseteq Ports
  BY <1>2 DEF Resolved
<1>4. OrDefaults(Resolved(Step.ports)) \subseteq Ports
  BY <1>3, PortsFinite DEF OrDefaults
<1> QED
  BY <1>4, HostsFinite DEF Visits, ProbedBy, OpenTargets, Types, Pairs

\* A job starts, with a run of the store or with nothing.
LEMMA StartEffect ==
  ASSUME Types, Start \/ Resume
  PROVE  \E run \in RunType, resume \in BOOLEAN : StartFrom(run, resume)
<1>1. Blank \in RunType
  BY DEF Blank, RunType
<1> QED
  BY <1>1 DEF Start, Resume, Types

\* What a visit leaves of the results and of the graph.
LEMMA VisitEffect ==
  ASSUME NEW p \in Pairs, Visit(p)
  PROVE  /\ scanned \subseteq scanned' /\ scanned' \subseteq scanned \cup {p}
         /\ probed \subseteq probed' /\ probed' \subseteq probed \cup {p}
         /\ open \ {p} \subseteq open' /\ open' \subseteq open \cup {p}
         /\ findings' \subseteq findings \cup {p}
         /\ Step.module = "scan" => p \in scanned' /\ p \in probed'
         /\ Step.module # "scan" =>
              probed' = probed /\ open \subseteq open' /\ scanned' \ scanned \subseteq open'
<1>1. CASE PortResult(p) /\ Step.module = "scan"
  BY <1>1 DEF PortResult
<1>2. CASE Hears(p) /\ Step.module # "scan"
  <2>1. PICK result, finding \in BOOLEAN :
          /\ scanned' = IF result THEN scanned \cup {p} ELSE scanned
          /\ findings' = IF finding THEN findings \cup {p} ELSE findings
          /\ \/ open' = open \cup {p}
             \/ ~result /\ ~finding /\ open' = open
          /\ UNCHANGED probed
    BY <1>2 DEF Hears
  <2> QED
    BY <1>2, <2>1
<1> QED
  BY <1>1, <1>2 DEF Visit

LEMMA InitIInv == Init => IInv
<1> SUFFICES ASSUME Init PROVE IInv
  OBVIOUS
<1> USE DEF Init
<1>1. Len(playbook) \in Nat
  BY PlaybooksType
<1>2. Types
  <2>1. fate \in [1 .. Len(playbook) -> Fates]
    BY DEF Fates
  <2>2. runs \in 0 .. MaxRuns /\ i \in 1 .. Len(playbook) + 1
    BY <1>1, MaxRunsPositive
  <2> QED
    BY <2>1, <2>2 DEF Types, Statuses
<1>3. Phases /\ Course
  BY DEF Phases, Course
<1>4. StatusIsTrue
  BY DEF StatusIsTrue
<1>5. Covered /\ Heard
  BY DEF Covered, Heard, Fate
<1> QED
  BY <1>2, <1>3, <1>4, <1>5 DEF IInv

LEMMA TypesStep ==
  ASSUME Types, Phases, [Next]_vars
  PROVE  Types'
<1>0. Len(playbook) \in Nat
  BY PlaybooksType DEF Types
<1>a. ASSUME NEW run \in RunType, NEW resume \in BOOLEAN, StartFrom(run, resume)
      PROVE  Types'
  <2>1. PICK first \in 1 .. Len(playbook) :
          /\ i' = first
          /\ fate' = [s \in DOMAIN fate |-> IF s < first THEN "before" ELSE "pending"]
    BY <1>a DEF StartFrom
  <2>2. i' \in 1 .. Len(playbook) + 1 /\ fate' \in [1 .. Len(playbook) -> Fates]
    BY <1>0, <2>1 DEF Types, Fates
  <2>3. runs' \in 0 .. MaxRuns
    BY <1>a, MaxRunsPositive DEF StartFrom, Types
  <2> QED
    BY <1>a, <2>2, <2>3 DEF StartFrom, Types, RunType, Statuses
<1>1. CASE Start
  BY <1>a, <1>1, StartEffect
<1>2. CASE Resume
  BY <1>a, <1>2, StartEffect
<1>3. CASE Gate
  <2>1. i \in 1 .. Len(playbook) /\ i' = i + 1 /\ fate' = [fate EXCEPT ![i] = "gated"]
    BY <1>0, <1>3 DEF Gate, Types, Phases, Stops
  <2>2. i' \in 1 .. Len(playbook) + 1 /\ fate' \in [1 .. Len(playbook) -> Fates]
    BY <1>0, <2>1 DEF Types, Fates
  <2> QED
    BY <1>3, <2>2 DEF Gate, Types, graph, results
<1>4. CASE Bail
  BY <1>4 DEF Bail, Types, graph, results
<1>5. CASE Enter
  BY <1>5, VisitsPairs DEF Enter, Types, graph, results
<1>6. ASSUME NEW p \in Pairs, Visit(p) PROVE Types'
  <2>1. /\ open' \subseteq Pairs /\ findings' \subseteq Pairs
        /\ scanned' \subseteq Pairs /\ probed' \subseteq Pairs
    BY <1>6, VisitEffect DEF Types
  <2> QED
    BY <1>6, <2>1 DEF Visit, Types
<1>7. CASE Return
  <2>1. i \in 1 .. Len(playbook) /\ i' = i + 1 /\ fate' = [fate EXCEPT ![i] = IF todo = {} THEN "done" ELSE "cut"]
    BY <1>0, <1>7 DEF Return, Types, Phases, Stops
  <2>2. i' \in 1 .. Len(playbook) + 1 /\ fate' \in [1 .. Len(playbook) -> Fates]
    BY <1>0, <2>1 DEF Types, Fates
  <2> QED
    BY <1>7, <2>2 DEF Return, Types, graph, results
<1>8. CASE BreakOff
  <2>1. fate' \in [1 .. Len(playbook) -> Fates]
    BY <1>8 DEF BreakOff, Types, Fates
  <2> QED
    BY <1>8, <2>1 DEF BreakOff, Types, graph, results, Statuses
<1>9. CASE Tolerate
  <2>1. i \in 1 .. Len(playbook) /\ i' = i + 1 /\ fate' = [fate EXCEPT ![i] = "failed"]
    BY <1>0, <1>9 DEF Tolerate, Types, Phases, Stops
  <2>2. i' \in 1 .. Len(playbook) + 1 /\ fate' \in [1 .. Len(playbook) -> Fates]
    BY <1>0, <2>1 DEF Types, Fates
  <2> QED
    BY <1>9, <2>2 DEF Tolerate, Types, graph, results
<1>10. CASE Abort
  <2>1. fate' \in [1 .. Len(playbook) -> Fates]
    BY <1>10 DEF Abort, Types, Fates
  <2> QED
    BY <1>10, <2>1 DEF Abort, Types, graph, results, Statuses
<1>11. CASE Finish
  BY <1>11 DEF Finish, Types, graph, results, Statuses
<1>12. CASE Save
  <2>1. Saved \in RunType
    BY DEF Saved, RunType, Types
  <2> QED
    BY <1>12, <2>1 DEF Save, Types, graph, results
<1>13. CASE Cancel
  BY <1>13 DEF Cancel, Types, graph, results
<1>14. CASE Kill
  BY <1>14 DEF Kill, Types, graph, results
<1>15. CASE UNCHANGED vars
  BY <1>15 DEF vars, Types, graph, results
<1> QED
  BY <1>1, <1>2, <1>3, <1>4, <1>5, <1>6, <1>7, <1>8, <1>9, <1>10, <1>11, <1>12, <1>13, <1>14, <1>15 DEF Next, Job

LEMMA PhasesStep ==
  ASSUME Types, Phases, [Next]_vars
  PROVE  Phases'
<1>0. Len(playbook) \in Nat
  BY PlaybooksType DEF Types
<1>1. CASE Start
  BY <1>1 DEF Start, StartFrom, Phases
<1>2. CASE Resume
  BY <1>2 DEF Resume, StartFrom, Phases
<1>3. CASE Gate
  BY <1>3 DEF Gate, Phases
<1>4. CASE Bail
  BY <1>4 DEF Bail, Phases
<1>5. CASE Enter
  BY <1>0, <1>5 DEF Enter, Phases, Stops, Types
<1>6. ASSUME NEW p \in Pairs, Visit(p) PROVE Phases'
  BY <1>6 DEF Visit, Phases
<1>7. CASE Return
  BY <1>7 DEF Return, Phases
<1>8. CASE BreakOff
  BY <1>8 DEF BreakOff, Phases
<1>9. CASE Tolerate
  BY <1>9 DEF Tolerate, Phases
<1>10. CASE Abort
  BY <1>10 DEF Abort, Phases
<1>11. CASE Finish
  BY <1>11 DEF Finish, Phases
<1>12. CASE Save
  BY <1>12 DEF Save, Phases
<1>13. CASE Cancel
  BY <1>13 DEF Cancel, Phases
<1>14. CASE Kill
  BY <1>14 DEF Kill, Phases
<1>15. CASE UNCHANGED vars
  BY <1>15 DEF vars, Phases
<1> QED
  BY <1>1, <1>2, <1>3, <1>4, <1>5, <1>6, <1>7, <1>8, <1>9, <1>10, <1>11, <1>12, <1>13, <1>14, <1>15 DEF Next, Job

\* Each turn of the loop settles the fate of the step it is at.
LEMMA CourseStep ==
  ASSUME Types, Phases, Course, [Next]_vars
  PROVE  Course'
<1>0. Len(playbook) \in Nat /\ DOMAIN fate = 1 .. Len(playbook)
  BY PlaybooksType DEF Types
<1>a. ASSUME NEW run \in RunType, NEW resume \in BOOLEAN, StartFrom(run, resume)
      PROVE  Course'
  <2>1. PICK first \in 1 .. Len(playbook) :
          /\ i' = first
          /\ fate' = [s \in DOMAIN fate |-> IF s < first THEN "before" ELSE "pending"]
    BY <1>a DEF StartFrom
  <2>2. \A s \in DOMAIN fate' : fate'[s] = "pending" <=> s >= i'
    BY <1>0, <2>1
  <2>3. Fate("cut")' = {} /\ Fate("failed")' = {}
    BY <2>1 DEF Fate
  <2>4. errors' = FALSE /\ skip_rest' = FALSE
    BY <1>a DEF StartFrom
  <2> QED
    BY <2>2, <2>3, <2>4 DEF Course
\* A step that the loop leaves behind, with a fate that is not pending.
<1>b. ASSUME NEW f, fate' = [fate EXCEPT ![i] = f], i' = i + 1, i \in 1 .. Len(playbook),
             f # "pending", pc \in {"next", "running"}, ~cancelled
      PROVE  \A s \in DOMAIN fate' : fate'[s] = "pending" <=> s >= i'
  BY <1>0, <1>b DEF Course, Types
<1>1. CASE Start
  BY <1>a, <1>1, StartEffect
<1>2. CASE Resume
  BY <1>a, <1>2, StartEffect
<1>3. CASE Gate
  <2> SUFFICES ASSUME ~cancelled' PROVE Course'
    BY DEF Course
  <2>1. /\ i \in 1 .. Len(playbook) /\ i' = i + 1 /\ fate' = [fate EXCEPT ![i] = "gated"]
        /\ pc \in {"next", "running"} /\ ~cancelled
        /\ UNCHANGED <<errors, skip_rest, playbook>>
    BY <1>0, <1>3 DEF Gate, Types, Phases, Stops
  <2>2. \A s \in DOMAIN fate' : fate'[s] = "pending" <=> s >= i'
    BY <1>b, <2>1
  <2>3. fate[i] = "pending"
    BY <1>0, <2>1 DEF Course
  <2>4. Fate("cut")' = Fate("cut") /\ Fate("failed")' = Fate("failed")
    BY <1>0, <2>1, <2>3, FateOf DEF Fate
  <2>5. \A f \in Fate("failed") : f < i => f < i'
    BY <1>0, <2>1 DEF Fate
  <2> QED
    BY <2>1, <2>2, <2>4, <2>5 DEF Course
<1>4. CASE Bail
  BY <1>4 DEF Bail, Course
<1>5. CASE Enter
  BY <1>5, FateUntouched DEF Enter, Course
<1>6. ASSUME NEW p \in Pairs, Visit(p) PROVE Course'
  BY <1>6, FateUntouched DEF Visit, Course
<1>7. CASE Return
  <2> SUFFICES ASSUME ~cancelled' PROVE Course'
    BY DEF Course
  <2>0. todo = {} /\ ~cancelled
    BY <1>7 DEF Return
  <2>1. /\ i \in 1 .. Len(playbook) /\ i' = i + 1 /\ fate' = [fate EXCEPT ![i] = "done"]
        /\ pc \in {"next", "running"} /\ ~cancelled
        /\ UNCHANGED <<errors, skip_rest, playbook>>
    BY <1>0, <1>7, <2>0 DEF Return, Types, Phases
  <2>2. \A s \in DOMAIN fate' : fate'[s] = "pending" <=> s >= i'
    BY <1>b, <2>1
  <2>3. fate[i] = "pending"
    BY <1>0, <2>1 DEF Course
  <2>4. Fate("cut")' = Fate("cut") /\ Fate("failed")' = Fate("failed")
    BY <1>0, <2>1, <2>3, FateOf DEF Fate
  <2>5. \A f \in Fate("failed") : f < i => f < i'
    BY <1>0, <2>1 DEF Fate
  <2> QED
    BY <2>1, <2>2, <2>4, <2>5 DEF Course
<1>8. CASE BreakOff
  BY <1>8 DEF BreakOff, Course
<1>9. CASE Tolerate
  <2>1. /\ i \in 1 .. Len(playbook) /\ i' = i + 1 /\ fate' = [fate EXCEPT ![i] = "failed"]
        /\ pc \in {"next", "running"} /\ ~cancelled
        /\ errors' = TRUE /\ skip_rest' = (Step.on_fail = "skip_rest") /\ UNCHANGED playbook
    BY <1>0, <1>9 DEF Tolerate, Types, Phases
  <2>2. \A s \in DOMAIN fate' : fate'[s] = "pending" <=> s >= i'
    BY <1>b, <2>1
  <2>3. fate[i] = "pending"
    BY <1>0, <2>1 DEF Course
  <2>4. Fate("cut")' = Fate("cut") /\ i \in Fate("failed")'
    BY <1>0, <2>1, <2>3, FateOf DEF Fate
  <2>5. skip_rest' => playbook'[i].on_fail = "skip_rest" /\ i < i'
    <3>1. playbook'[i].on_fail = Step.on_fail /\ i < i'
      BY <2>1 DEF Step, Types
    <3> QED
      BY <2>1, <3>1
  <2> QED
    BY <2>1, <2>2, <2>4, <2>5 DEF Course
<1>10. CASE Abort
  BY <1>10 DEF Abort, Course
<1>11. CASE Finish
  BY <1>11 DEF Finish, Course
<1>12. CASE Save
  BY <1>12 DEF Save, Course
<1>13. CASE Cancel
  BY <1>13 DEF Cancel, Course
<1>14. CASE Kill
  BY <1>14 DEF Kill, Course
<1>15. CASE UNCHANGED vars
  BY <1>15, FateUntouched DEF vars, Course
<1> QED
  BY <1>1, <1>2, <1>3, <1>4, <1>5, <1>6, <1>7, <1>8, <1>9, <1>10, <1>11, <1>12, <1>13, <1>14, <1>15 DEF Next, Job

\* JobFinished is emitted at three exits of the loop: when a step aborts the
\* job, when the loop is through, and when it was cancelled.
LEMMA StatusStep ==
  ASSUME Types, Phases, Course, StatusIsTrue, [Next]_vars
  PROVE  StatusIsTrue'
<1>0. Len(playbook) \in Nat /\ DOMAIN fate = 1 .. Len(playbook)
  BY PlaybooksType DEF Types
<1>a. ASSUME status' = "none" PROVE StatusIsTrue'
  BY <1>a DEF StatusIsTrue
<1>b. ASSUME UNCHANGED <<status, fate, playbook>> PROVE StatusIsTrue'
  BY <1>b, FateUntouched DEF StatusIsTrue
<1>1. CASE Start
  BY <1>a, <1>1 DEF Start, StartFrom
<1>2. CASE Resume
  BY <1>a, <1>2 DEF Resume, StartFrom
<1>3. CASE Gate
  BY <1>a, <1>3 DEF Gate, Phases
<1>4. CASE Bail
  BY <1>b, <1>4 DEF Bail
<1>5. CASE Enter
  BY <1>b, <1>5 DEF Enter
<1>6. ASSUME NEW p \in Pairs, Visit(p) PROVE StatusIsTrue'
  BY <1>b, <1>6 DEF Visit
<1>7. CASE Return
  BY <1>a, <1>7 DEF Return, Phases
<1>8. CASE BreakOff
  BY <1>a, <1>8 DEF BreakOff, Phases
<1>9. CASE Tolerate
  BY <1>a, <1>9 DEF Tolerate, Phases
<1>10. CASE Abort
  <2>1. /\ pc = "running" /\ ~cancelled /\ Step.on_fail = "abort"
        /\ status' = "failed" /\ fate' = [fate EXCEPT ![i] = "failed"] /\ UNCHANGED <<playbook, i>>
    BY <1>10 DEF Abort
  <2>2. i \in 1 .. Len(playbook)
    BY <1>0, <2>1 DEF Types, Phases
  <2>3. \A s \in DOMAIN fate : fate[s] = "pending" <=> s >= i
    BY <2>1 DEF Course
  <2>4. \A s \in DOMAIN fate : fate'[s] = "pending" <=> s > i
    BY <1>0, <2>1, <2>2, <2>3 DEF Types
  <2>5. Fate("pending")' = i + 1 .. Len(playbook)
    BY <1>0, <2>1, <2>2, <2>4 DEF Fate
  <2>6. i \in Fate("failed")' /\ playbook'[i].on_fail = "abort"
    BY <1>0, <2>1, <2>2 DEF Fate, Step
  <2> QED
    BY <2>1, <2>5, <2>6 DEF StatusIsTrue
<1>11. CASE Finish
  <2>1. /\ pc = "next" /\ Stops /\ UNCHANGED <<playbook, fate>>
        /\ status' = CASE cancelled -> "cancelled"
                       [] ~cancelled /\ errors -> "completed_with_errors"
                       [] OTHER -> "completed"
    BY <1>11 DEF Finish
  <2>2. \A f : Fate(f)' = Fate(f)
    BY <2>1, FateUntouched
  <2>3. CASE cancelled
    BY <2>1, <2>3 DEF StatusIsTrue
  <2>4. CASE ~cancelled
    <3>1. /\ Fate("cut") = {} /\ (errors <=> Fate("failed") # {})
          /\ skip_rest => \E f \in Fate("failed") : playbook[f].on_fail = "skip_rest" /\ f < i
      BY <2>1, <2>4 DEF Course
    <3>2. \A s \in Fate("pending") : s \in 1 .. Len(playbook) /\ s >= i
      BY <1>0, <2>1, <2>4 DEF Course, Fate
    <3>3. skip_rest \/ Fate("pending") = {}
      BY <1>0, <2>1, <2>4, <3>2 DEF Stops, Types
    <3>4. CASE errors
      <4>1. status' = "completed_with_errors"
        BY <2>1, <2>4, <3>4
      <4>2. \E f \in Fate("failed") :
              Fate("pending") # {} =>
                playbook[f].on_fail = "skip_rest" /\ \A s \in Fate("pending") : s > f
        <5>1. CASE Fate("pending") = {}
          BY <3>1, <3>4, <5>1
        <5>2. CASE skip_rest
          <6>1. PICK f \in Fate("failed") : playbook[f].on_fail = "skip_rest" /\ f < i
            BY <3>1, <5>2
          <6>2. \A s \in Fate("pending") : s > f
            BY <1>0, <3>2, <6>1 DEF Types, Fate
          <6> QED
            BY <6>1, <6>2
        <5> QED
          BY <3>3, <5>1, <5>2
      <4> QED
        BY <2>1, <2>2, <3>1, <4>1, <4>2 DEF StatusIsTrue
    <3>5. CASE ~errors
      <4>1. status' = "completed"
        BY <2>1, <2>4, <3>5
      <4>2. Fate("failed") = {} /\ Fate("pending") = {}
        BY <3>1, <3>3, <3>5
      <4> QED
        BY <2>2, <3>1, <4>1, <4>2 DEF StatusIsTrue
    <3> QED
      BY <3>4, <3>5
  <2> QED
    BY <2>3, <2>4
<1>12. CASE Save
  BY <1>b, <1>12 DEF Save
<1>13. CASE Cancel
  BY <1>b, <1>13 DEF Cancel
<1>14. CASE Kill
  BY <1>b, <1>14 DEF Kill
<1>15. CASE UNCHANGED vars
  BY <1>b, <1>15 DEF vars
<1> QED
  BY <1>1, <1>2, <1>3, <1>4, <1>5, <1>6, <1>7, <1>8, <1>9, <1>10, <1>11, <1>12, <1>13, <1>14, <1>15 DEF Next, Job

\* A scan leaves out only what a job before it has scanned, and a step is done
\* when nothing is left to visit.
LEMMA CoveredStep ==
  ASSUME Types, Phases, Covered, [Next]_vars
  PROVE  Covered'
<1>0. Len(playbook) \in Nat /\ DOMAIN fate = 1 .. Len(playbook)
  BY PlaybooksType DEF Types
<1>a. ASSUME NEW run \in RunType, NEW resume \in BOOLEAN, StartFrom(run, resume)
      PROVE  Covered'
  <2>1. PICK first \in 1 .. Len(playbook) :
          fate' = [s \in DOMAIN fate |-> IF s < first THEN "before" ELSE "pending"]
    BY <1>a DEF StartFrom
  <2>2. Fate("done")' = {}
    BY <2>1 DEF Fate
  <2> QED
    BY <1>a, <2>2 DEF StartFrom, Covered
<1>b. ASSUME UNCHANGED <<playbook, prior, scanned>>, pc' # "running", Fate("done")' \subseteq Fate("done")
      PROVE  Covered'
  BY <1>b DEF Covered, IsScan, Asked
<1>1. CASE Start
  BY <1>a, <1>1, StartEffect
<1>2. CASE Resume
  BY <1>a, <1>2, StartEffect
<1>3. CASE Gate
  <2>1. i \in DOMAIN fate
    BY <1>0, <1>3 DEF Gate, Types, Phases, Stops
  <2>2. fate' = [fate EXCEPT ![i] = "gated"]
    BY <1>3 DEF Gate, results
  <2>3. Fate("done")' \subseteq Fate("done")
    BY <2>1, <2>2, FateOf
  <2> QED
    BY <1>b, <1>3, <2>3 DEF Gate, results
<1>4. CASE Bail
  BY <1>b, <1>4, FateUntouched DEF Bail, results
<1>5. CASE Enter
  <2>1. /\ todo' = Visits(Step, Resolved(Step.ports))
        /\ UNCHANGED <<playbook, i, prior, scanned, fate>>
    BY <1>5 DEF Enter, results
  <2>2. IsScan(i) => Asked(i) \subseteq scanned \cup todo'
    BY <2>1 DEF IsScan, Asked, ProbedBy, Step, Visits, Resolved, Covered
  <2>3. Fate("done")' = Fate("done")
    BY <2>1, FateUntouched
  <2> QED
    BY <2>1, <2>2, <2>3 DEF Covered, IsScan, Asked
<1>6. ASSUME NEW p \in Pairs, Visit(p) PROVE Covered'
  <2>1. /\ pc = "running" /\ todo' = todo \ {p} /\ UNCHANGED <<playbook, i, prior, fate>>
        /\ scanned \subseteq scanned'
        /\ Step.module = "scan" => p \in scanned'
    BY <1>6, VisitEffect DEF Visit
  <2>2. IsScan(i) => Asked(i) \subseteq scanned' \cup todo'
    BY <2>1 DEF IsScan, Step, Covered
  <2>3. Fate("done")' = Fate("done")
    BY <2>1, FateUntouched
  <2> QED
    BY <2>1, <2>2, <2>3 DEF Covered, IsScan, Asked
<1>7. CASE Return
  <2>1. i \in DOMAIN fate
    BY <1>0, <1>7 DEF Return, Types, Phases
  <2>2. /\ pc = "running" /\ pc' = "next" /\ UNCHANGED <<playbook, prior, scanned>>
        /\ fate' = [fate EXCEPT ![i] = IF todo = {} THEN "done" ELSE "cut"]
    BY <1>7 DEF Return, results
  <2>3. CASE todo = {}
    <3>1. Fate("done")' = Fate("done") \cup {i}
      BY <2>1, <2>2, <2>3, FateOf
    <3>2. IsScan(i) => Asked(i) \subseteq scanned
      BY <2>2, <2>3 DEF Covered
    <3> QED
      BY <2>2, <3>1, <3>2 DEF Covered, IsScan, Asked
  <2>4. CASE todo # {}
    <3>1. Fate("done")' \subseteq Fate("done")
      BY <2>1, <2>2, <2>4, FateOf
    <3> QED
      BY <1>b, <2>2, <3>1
  <2> QED
    BY <2>3, <2>4
<1>8. CASE BreakOff
  <2>1. i \in DOMAIN fate
    BY <1>0, <1>8 DEF BreakOff, Types, Phases, Stops
  <2>2. fate' = [fate EXCEPT ![i] = "cut"]
    BY <1>8 DEF BreakOff, results
  <2>3. Fate("done")' \subseteq Fate("done")
    BY <2>1, <2>2, FateOf
  <2> QED
    BY <1>b, <1>8, <2>3 DEF BreakOff, results
<1>9. CASE Tolerate
  <2>1. i \in DOMAIN fate
    BY <1>0, <1>9 DEF Tolerate, Types, Phases, Stops
  <2>2. fate' = [fate EXCEPT ![i] = "failed"]
    BY <1>9 DEF Tolerate, results
  <2>3. Fate("done")' \subseteq Fate("done")
    BY <2>1, <2>2, FateOf
  <2> QED
    BY <1>b, <1>9, <2>3 DEF Tolerate, results
<1>10. CASE Abort
  <2>1. i \in DOMAIN fate
    BY <1>0, <1>10 DEF Abort, Types, Phases, Stops
  <2>2. fate' = [fate EXCEPT ![i] = "failed"]
    BY <1>10 DEF Abort, results
  <2>3. Fate("done")' \subseteq Fate("done")
    BY <2>1, <2>2, FateOf
  <2> QED
    BY <1>b, <1>10, <2>3 DEF Abort, results
<1>11. CASE Finish
  BY <1>b, <1>11, FateUntouched DEF Finish, results
<1>12. CASE Save
  BY <1>b, <1>12, FateUntouched DEF Save, results
<1>13. CASE Cancel
  <2>1. UNCHANGED <<playbook, i, todo, prior, scanned, fate, pc>>
    BY <1>13 DEF Cancel, results
  <2> QED
    BY <2>1, FateUntouched DEF Covered, IsScan, Asked
<1>14. CASE Kill
  BY <1>b, <1>14, FateUntouched DEF Kill, results
<1>15. CASE UNCHANGED vars
  <2>1. UNCHANGED <<playbook, i, todo, prior, scanned, fate, pc>>
    BY <1>15 DEF vars, results
  <2> QED
    BY <2>1, FateUntouched DEF Covered, IsScan, Asked
<1> QED
  BY <1>1, <1>2, <1>3, <1>4, <1>5, <1>6, <1>7, <1>8, <1>9, <1>10, <1>11, <1>12, <1>13, <1>14, <1>15 DEF Next, Job

\* A client that emits a PortResult has reached its port.
LEMMA HeardStep ==
  ASSUME Types, Heard, [Next]_vars
  PROVE  Heard'
<1>a. ASSUME NEW run \in {Blank} \cup saved, NEW resume \in BOOLEAN, StartFrom(run, resume)
      PROVE  Heard'
  BY <1>a DEF StartFrom, Heard, Blank
<1>1. CASE Start \/ Resume
  BY <1>a, <1>1 DEF Start, Resume
<1>2. ASSUME NEW p \in Pairs, Visit(p) PROVE Heard'
  <2>1. UNCHANGED saved
    BY <1>2 DEF Visit
  <2>2. scanned' \subseteq probed' \cup open'
    <3>1. CASE Step.module = "scan"
      BY <1>2, <3>1, VisitEffect DEF Heard
    <3>2. CASE Step.module # "scan"
      BY <1>2, <3>2, VisitEffect DEF Heard
    <3> QED
      BY <3>1, <3>2
  <2> QED
    BY <2>1, <2>2 DEF Heard
<1>3. CASE Save
  BY <1>3 DEF Save, Saved, Heard, graph, results
<1>4. CASE Gate \/ Bail \/ Enter \/ Return \/ BreakOff \/ Tolerate \/ Abort \/ Finish
           \/ Cancel \/ Kill \/ UNCHANGED vars
  <2>1. UNCHANGED <<scanned, probed, open, saved>>
    BY <1>4 DEF Gate, Bail, Enter, Return, BreakOff, Tolerate, Abort, Finish, Cancel,
                Kill, vars, graph, results
  <2> QED
    BY <2>1 DEF Heard
<1> QED
  BY <1>1, <1>2, <1>3, <1>4 DEF Next, Job

\* The invariant holds in every state of every job.
THEOREM Invariance == Spec => []IInv
<1>1. IInv /\ [Next]_vars => IInv'
  <2> SUFFICES ASSUME IInv, [Next]_vars PROVE IInv'
    OBVIOUS
  <2> QED
    BY TypesStep, PhasesStep, CourseStep, StatusStep, CoveredStep, HeardStep DEF IInv
<1> QED
  BY InitIInv, <1>1, PTL DEF Spec

-----------------------------------------------------------------------------
(* What follows from it. *)

\* Every variable stays in its type, and the store holds one run at most.
THEOREM TypeCorrect == Spec => []TypeOK
<1>1. IInv => TypeOK
  <2> SUFFICES ASSUME IInv PROVE TypeOK
    OBVIOUS
  <2>1. Types
    BY DEF IInv
  <2>2. Cardinality(saved) <= 1
    <3>1. CASE saved = {}
      BY <3>1, FS_EmptySet
    <3>2. CASE saved # {}
      <4>1. PICK run : saved = {run}
        BY <2>1, <3>2 DEF Types
      <4> QED
        BY <4>1, FS_Singleton
    <3> QED
      BY <3>1, <3>2
  <2>3. \A run \in saved :
          {run.open, run.findings, run.scanned, run.probed} \subseteq SUBSET Pairs
    BY <2>1 DEF Types, RunType
  <2> QED
    BY <2>1, <2>2, <2>3 DEF TypeOK, Types
<1> QED
  BY <1>1, Invariance, PTL

\* JobFinished says what happened, for every playbook: whatever its steps are,
\* whatever they do and whenever the token is set.
THEOREM JobFinishedIsTrue == Spec => []StatusIsTrue
<1>1. IInv => StatusIsTrue
  BY DEF IInv
<1> QED
  BY <1>1, Invariance, PTL

\* A completed job has a result for all that its playbook asked to be scanned,
\* after any number of interruptions and resumes, and what it passed over on the
\* word of a client was open when the client reported it and still is.
THEOREM ResumedJobsAreComplete == Spec => []ResumeIsComplete
<1>1. IInv => ResumeIsComplete
  BY DEF IInv, Covered, Heard, IsScan, Asked, ResumeIsComplete
<1> QED
  BY <1>1, Invariance, PTL

\* No step of a job comes after its JobFinished but the one that saves it.
THEOREM JobFinishedIsLast == Spec => NothingAfterFinish
<1>1. IInv /\ [Next]_vars =>
        [status # "none" /\ runs' = runs => UNCHANGED <<status, graph, results>>]_vars
  <2> SUFFICES ASSUME IInv, [Next]_vars, status # "none", runs' = runs
               PROVE  UNCHANGED <<status, graph, results>>
    OBVIOUS
  <2>1. pc \notin {"next", "running"} /\ runs \in Nat
    BY DEF IInv, Phases, Types
  <2>2. CASE Start \/ Resume
    BY <2>1, <2>2 DEF Start, Resume, StartFrom
  <2>3. CASE Gate \/ Bail \/ Enter \/ (\E p \in Pairs : Visit(p)) \/ Return \/ BreakOff \/ Tolerate \/ Abort
    BY <2>1, <2>3 DEF Gate, Bail, Enter, Visit, Return, BreakOff, Tolerate, Abort
  <2>4. CASE Finish
    BY <2>1, <2>4 DEF Finish
  <2>5. CASE Save \/ Cancel \/ Kill \/ UNCHANGED vars
    BY <2>5 DEF Save, Cancel, Kill, vars
  <2> QED
    BY <2>2, <2>3, <2>4, <2>5 DEF Next, Job
<1> QED
  BY <1>1, Invariance, PTL DEF Spec, NothingAfterFinish

-----------------------------------------------------------------------------
(* A job ends: each of its steps brings it nearer to its end. *)

StepsLeft == Len(playbook) + 1 - i

\* How far one turn of the loop is, or the end of the job.
Turn ==
  CASE pc = "next" /\ ~cancelled -> 4
    [] pc = "running" -> 3
    [] pc = "next" /\ cancelled -> 2
    [] pc = "saving" -> 1
    [] OTHER -> 0

\* The token, the steps of the playbook, the turn of the loop and the visits left,
\* compared in this order: the first that differs is smaller.
Nearer ==
  \/ ~cancelled /\ cancelled'
  \/ /\ cancelled' = cancelled
     /\ \/ StepsLeft' < StepsLeft
        \/ StepsLeft' = StepsLeft /\ Turn' < Turn
        \/ /\ StepsLeft' = StepsLeft /\ Turn' = Turn
           /\ Cardinality(todo') < Cardinality(todo)

\* No playbook keeps a job in its loop: whatever its steps find, fail at or gate,
\* and whenever it is cancelled, each step of a job brings it nearer to its end
\* (the loop of run_pipeline_owned_ex).
EveryStepCounts == [][pc # "idle" => Nearer]_vars

\* The measure is well founded: natural numbers, finite sets.
THEOREM Measured ==
  Spec => [](StepsLeft \in Nat /\ Turn \in 0 .. 4 /\ IsFiniteSet(todo))
<1>1. IInv => StepsLeft \in Nat /\ Turn \in 0 .. 4 /\ IsFiniteSet(todo)
  <2> SUFFICES ASSUME IInv PROVE StepsLeft \in Nat /\ Turn \in 0 .. 4 /\ IsFiniteSet(todo)
    OBVIOUS
  <2>1. Types
    BY DEF IInv
  <2>2. Len(playbook) \in Nat
    BY <2>1, PlaybooksType DEF Types
  <2>3. StepsLeft \in Nat
    BY <2>1, <2>2 DEF Types, StepsLeft
  <2>4. Turn \in 0 .. 4
    BY DEF Turn
  <2>5. IsFiniteSet(Pairs)
    BY HostsFinite, PortsFinite, FS_Product DEF Pairs
  <2>6. IsFiniteSet(todo)
    BY <2>1, <2>5, FS_Subset DEF Types
  <2> QED
    BY <2>3, <2>4, <2>6
<1> QED
  BY <1>1, Invariance, PTL

THEOREM JobsShrink == Spec => EveryStepCounts
<1>1. IInv /\ [Next]_vars => [pc # "idle" => Nearer]_vars
  <2> SUFFICES ASSUME IInv, Next, pc # "idle" PROVE Nearer
    OBVIOUS
  <2>1. Types
    BY DEF IInv
  <2>2. Len(playbook) \in Nat /\ i \in Nat /\ playbook \in Seq(StepType)
    BY <2>1, PlaybooksType DEF Types
  <2>3. CASE Gate
    BY <2>2, <2>3 DEF Gate, Nearer, StepsLeft
  <2>4. CASE Bail
    BY <2>2, <2>4 DEF Bail, Stops, Nearer, StepsLeft, Turn
  <2>5. CASE Enter
    BY <2>2, <2>5 DEF Enter, Stops, Nearer, StepsLeft, Turn
  <2>6. CASE \E p \in Pairs : Visit(p)
    <3>1. PICK p \in Pairs : Visit(p)
      BY <2>6
    <3>2. p \in todo /\ todo' = todo \ {p} /\ UNCHANGED <<playbook, i, pc, cancelled>>
      BY <3>1 DEF Visit
    <3>3. IsFiniteSet(todo) /\ Cardinality(todo) \in Nat
      <4>1. IsFiniteSet(Pairs)
        BY HostsFinite, PortsFinite, FS_Product DEF Pairs
      <4> QED
        BY <2>1, <4>1, FS_Subset, FS_CardinalityType DEF Types
    <3>4. Cardinality(todo') < Cardinality(todo)
      BY <3>2, <3>3, FS_RemoveElement
    <3>5. StepsLeft' = StepsLeft /\ Turn' = Turn
      BY <3>2 DEF StepsLeft, Turn
    <3> QED
      BY <3>2, <3>4, <3>5 DEF Nearer
  <2>7. CASE Return
    BY <2>2, <2>7 DEF Return, Nearer, StepsLeft
  <2>8. CASE BreakOff
    BY <2>2, <2>8 DEF BreakOff, Nearer, StepsLeft, Turn
  <2>9. CASE Tolerate
    BY <2>2, <2>9 DEF Tolerate, Nearer, StepsLeft
  <2>10. CASE Abort \/ Finish \/ Save \/ Kill
    <3>1. UNCHANGED <<playbook, i, cancelled>>
      BY <2>10 DEF Abort, Finish, Save, Kill
    <3>2. Turn' < Turn
      BY <2>1, <2>10 DEF Abort, Finish, Save, Kill, Turn, Types
    <3> QED
      BY <3>1, <3>2 DEF Nearer, StepsLeft
  <2>11. CASE Cancel
    BY <2>11 DEF Cancel, Nearer
  <2>12. ~Start /\ ~Resume
    BY DEF Start, Resume, StartFrom
  <2> QED
    BY <2>3, <2>4, <2>5, <2>6, <2>7, <2>8, <2>9, <2>10, <2>11, <2>12 DEF Next, Job
<1> QED
  BY <1>1, Invariance, PTL DEF Spec, EveryStepCounts
=============================================================================
