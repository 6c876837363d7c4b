----------------------------- MODULE JobServer ------------------------------
(***************************************************************************)
(* The job table of `ares serve` (ares-cli/src/serve.rs) and what its jobs *)
(* leave in the run store (workspace.rs, ares-output/src/store.rs).        *)
(*                                                                         *)
(* POST /v1/jobs puts a record into the table, drops one when the table is *)
(* full, and spawns a task. The task marks the record running, runs the    *)
(* module, saves the run if asked to, merges its graph into the living     *)
(* workspace unless the job is ephemeral, and settles the record. A panic  *)
(* ends the task where it is, and the record stays running. The            *)
(* tasks run in parallel on the runtime's threads; the table is behind a   *)
(* mutex, the store is a SQLite file of which every task opens its own     *)
(* connection. The merge is four statements without a transaction: find    *)
(* the latest workspace row, load it, delete the workspace rows, insert    *)
(* the merged one. The server may be killed at any moment and restarted:   *)
(* the table is in memory, the store is not.                               *)
(*                                                                         *)
(* The module a job runs is abstracted to the asset it discovers, named    *)
(* after the job, or to an error. All jobs share one workspace, as they do *)
(* in the server. Ids are never reused, so a job is posted at most once.   *)
(***************************************************************************)
EXTENDS FiniteSets, RunStore, SequencesExt

CONSTANTS
  Jobs,       \* ids of jobs that may be posted
  Requests,   \* what may be asked of them: save and ephemeral, for each job
  MaxJobs     \* MAX_JOBS

ASSUME JobsFinite == IsFiniteSet(Jobs)
ASSUME RequestsType ==
  Requests \subseteq [Jobs -> [save : BOOLEAN, ephemeral : BOOLEAN]]
ASSUME MaxJobsPositive == MaxJobs \in Nat \ {0}

RunName == "run"                \* the module's name
WorkspaceName == "workspace"    \* workspace_name(id)

Statuses == {"queued", "running", "completed", "failed"}
Terminal == {"completed", "failed"}

\* Where the task of a job is: the step it takes next.
Steps == {"begin", "scan", "save", "look", "load", "delete", "insert", "settle"}
Phases == Steps \cup {"idle", "done", "killed", "panicked"}

\* Between the first statement of merge_and_save and its last.
Merging == {"load", "delete", "insert"}

VARIABLES
  request,    \* what is asked of each job, known from the start
  table,      \* JobStore.jobs: the record of each job in the table
  order,      \* JobStore.order
  dropped,    \* history: the jobs whose record made room before it was settled
  phase,      \* where the task of each job is
  graph,      \* the graph each task holds
  found,      \* the workspace row each task found, if any
  failing,    \* the jobs whose result is an error
  rows,       \* the table `runs`
  clock,      \* the moment of the last save
  merged,     \* history: the jobs whose graph went into the workspace
  overlapped, \* history: two merges ran at the same time
  torn        \* history: a merge deleted the workspace and did not insert

index == <<order, dropped>>
store == <<rows, clock, merged, overlapped, torn>>
task == <<graph, found, failing>>
vars == <<request, table, index, phase, task, store>>

Record(status, run) == [status |-> status, run_id |-> run]

Init ==
  /\ request \in Requests
  /\ table = <<>>
  /\ order = <<>>
  /\ dropped = {}
  /\ phase = [j \in Jobs |-> "idle"]
  /\ graph = [j \in Jobs |-> {}]
  /\ found = [j \in Jobs |-> {}]
  /\ failing = {}
  /\ rows = <<>>
  /\ clock = 0
  /\ merged = {}
  /\ overlapped = FALSE
  /\ torn = FALSE

(* The job table. *)

Without(records, j) == [k \in DOMAIN records \ {j} |-> records[k]]

With(records, j, rec) ==
  [k \in DOMAIN records \cup {j} |-> IF k = j THEN rec ELSE records[k]]

\* A full table loses the record posted first, whatever its status.
Full == Len(order) >= MaxJobs

\* The one it loses, if it is not settled.
Unfinished ==
  {j \in DOMAIN table :
     Full /\ j = Head(order) /\ table[j].status \notin Terminal}

\* spawn_job: one critical section makes room and adds the record.
Post(j) ==
  /\ phase[j] = "idle"
  /\ phase' = [phase EXCEPT ![j] = "begin"]
  /\ LET kept == IF Full THEN Without(table, Head(order)) ELSE table
     IN  table' = With(kept, j, Record("queued", FALSE))
  /\ order' = Append(IF Full THEN Tail(order) ELSE order, j)
  /\ dropped' = dropped \cup Unfinished
  /\ UNCHANGED <<task, store>>

\* Faulty variant: the record is put back if it is not there.
Upsert(j, rec) == table' = With(table, j, rec)

\* A task updates its record where the table still has it.
Update(j, rec) ==
  table' = IF j \in DOMAIN table THEN [table EXCEPT ![j] = rec] ELSE table

(* The task of a job. *)

Go(j, from, to) ==
  /\ phase[j] = from
  /\ phase' = [phase EXCEPT ![j] = to]

\* Faulty variant: the error is dropped, and the task goes on to settle.
FailSilently(j) == UNCHANGED failing

Fail(j) == failing' = failing \cup {j}

Begin(j) ==
  /\ Go(j, "begin", "scan")
  /\ Update(j, Record("running", FALSE))
  /\ UNCHANGED <<index, task, store>>

AfterSave(j) == IF request[j].ephemeral THEN "settle" ELSE "look"

\* module.run returned Ok; run_quiet_job goes on to what the job asked for.
ScanOk(j) ==
  /\ Go(j, "scan", IF request[j].save THEN "save" ELSE AfterSave(j))
  /\ graph' = [graph EXCEPT ![j] = {j}]
  /\ UNCHANGED <<table, index, found, failing, store>>

\* result? returns before anything is stored.
ScanFails(j) ==
  /\ Go(j, "scan", "settle")
  /\ Fail(j)
  /\ UNCHANGED <<table, index, graph, found, store>>

\* What these tasks held is gone.
Drop(ended) ==
  /\ failing' = failing \ ended
  /\ graph' = [j \in Jobs |-> IF j \in ended THEN {} ELSE graph[j]]
  /\ found' = [j \in Jobs |-> IF j \in ended THEN {} ELSE found[j]]

\* The module panics: the runtime ends the task, no one settles the record.
Panic(j) ==
  /\ Go(j, "scan", "panicked")
  /\ Drop({j})
  /\ UNCHANGED <<table, index, store>>

SaveRun(j) ==
  /\ Go(j, "save", AfterSave(j))
  /\ clock' = clock + 1
  /\ rows' = Save(rows, clock', Row(j, RunName, graph[j]))
  /\ UNCHANGED <<table, index, task, merged, overlapped, torn>>

\* load_workspace, first statement: is there a row, and which?
Look(j) ==
  /\ found' = [found EXCEPT ![j] = LatestNamed(rows, WorkspaceName)]
  /\ Go(j, "look", IF found'[j] = {} THEN "delete" ELSE "load")
  /\ overlapped' = (overlapped \/ \E k \in Jobs : phase[k] \in Merging)
  /\ UNCHANGED <<table, index, graph, failing,
                 rows, clock, merged, torn>>

\* Faulty variant: the loaded graph replaces the task's own.
LoadInstead(j) ==
  \E row \in found[j] :
    IF Stored(rows, row)
    THEN /\ Go(j, "load", "delete")
         /\ graph' = [graph EXCEPT ![j] = row.graph]
         /\ UNCHANGED <<table, index, found, failing, store>>
    ELSE /\ Go(j, "load", "settle")
         /\ Fail(j)
         /\ UNCHANGED <<table, index, graph, found, store>>

\* load_workspace, second statement, and merge_from. The row may be gone.
Load(j) ==
  \E row \in found[j] :
    IF Stored(rows, row)
    THEN /\ Go(j, "load", "delete")
         /\ graph' = [graph EXCEPT ![j] = @ \cup row.graph]
         /\ UNCHANGED <<table, index, found, failing, store>>
    ELSE /\ Go(j, "load", "settle")
         /\ Fail(j)
         /\ UNCHANGED <<table, index, graph, found, store>>

\* upsert_workspace, first statement.
Delete(j) ==
  /\ Go(j, "delete", "insert")
  /\ rows' = DeleteNamed(rows, WorkspaceName)
  /\ UNCHANGED <<table, index, task, clock, merged, overlapped, torn>>

\* Faulty variant: the row is saved under the module's name.
InsertAsRun(j) ==
  /\ Go(j, "insert", "settle")
  /\ clock' = clock + 1
  /\ rows' = Save(rows, clock', Row(j, RunName, graph[j]))
  /\ merged' = merged \cup {j}
  /\ UNCHANGED <<table, index, task, overlapped, torn>>

\* upsert_workspace, second statement.
Insert(j) ==
  /\ Go(j, "insert", "settle")
  /\ clock' = clock + 1
  /\ rows' = Save(rows, clock', Row(j, WorkspaceName, graph[j]))
  /\ merged' = merged \cup {j}
  /\ UNCHANGED <<table, index, task, overlapped, torn>>

\* A statement fails (disk, lock timeout): `?` leaves run_quiet_job, and what
\* the statements before it did stays.
StoreFails(j) ==
  /\ \E step \in Merging \cup {"save", "look"} :
       /\ Go(j, step, "settle")
       /\ torn' = (torn \/ step = "insert")
  /\ Fail(j)
  /\ UNCHANGED <<table, index, graph, found,
                 rows, clock, merged, overlapped>>

Outcome(j) ==
  IF j \in failing THEN Record("failed", FALSE)
                   ELSE Record("completed", request[j].save)

\* Faulty variant: `?` leaves the task before it updates the record.
SettleSuccess(j) ==
  /\ Go(j, "settle", "done")
  /\ IF j \in failing THEN UNCHANGED table ELSE Update(j, Outcome(j))
  /\ Drop({j})
  /\ UNCHANGED <<index, store>>

\* The task ends and drops what it holds.
Settle(j) ==
  /\ Go(j, "settle", "done")
  /\ Update(j, Outcome(j))
  /\ Drop({j})
  /\ UNCHANGED <<index, store>>

Task(j) ==
  \/ Begin(j)
  \/ ScanOk(j) \/ ScanFails(j) \/ Panic(j)
  \/ SaveRun(j)
  \/ Look(j) \/ Load(j) \/ Delete(j) \/ Insert(j)
  \/ StoreFails(j)
  \/ Settle(j)

\* The server is killed and started again.
Crash ==
  /\ table' = <<>>
  /\ order' = <<>>
  /\ phase' = [j \in Jobs |-> IF phase[j] \in Steps THEN "killed" ELSE phase[j]]
  /\ torn' = (torn \/ \E j \in Jobs : phase[j] = "insert")
  /\ Drop(Jobs)
  /\ UNCHANGED <<dropped, rows, clock, merged, overlapped>>

Next ==
  /\ \/ \E j \in Jobs : Post(j) \/ Task(j)
     \/ Crash
  /\ UNCHANGED request

\* The runtime polls every task it holds, a module returns or panics and a
\* statement returns; nobody has to post a job or to kill the server.
Fairness == \A j \in Jobs : WF_vars(Task(j) /\ UNCHANGED request)

Spec == Init /\ [][Next]_vars /\ Fairness
-----------------------------------------------------------------------------
(* Properties *)

TypeOK ==
  /\ request \in Requests
  /\ DOMAIN table \subseteq Jobs
  /\ \A j \in DOMAIN table : /\ table[j].status \in Statuses
                             /\ table[j].run_id \in BOOLEAN
  /\ order \in Seq(Jobs)
  /\ dropped \subseteq Jobs
  /\ phase \in [Jobs -> Phases]
  /\ graph \in [Jobs -> SUBSET Jobs]
  /\ \A j \in Jobs : Cardinality(found[j]) <= 1
  /\ failing \subseteq Jobs
  /\ DOMAIN rows \subseteq 1 .. clock
  /\ merged \subseteq Jobs
  /\ {overlapped, torn} \subseteq BOOLEAN

\* The two halves of JobStore agree: `order` lists every record of the table
\* once and nothing else, and neither outgrows MAX_JOBS. A task that settles
\* after its record was dropped must not bring the record back (spawn_job).
IndexMatches ==
  /\ ToSet(order) = DOMAIN table
  /\ Len(order) = Cardinality(DOMAIN table)
  /\ Len(order) <= MaxJobs

\* A record tells the truth about the store, whatever failed half way: a job
\* with a run_id has its run stored, a completed job that is not ephemeral has
\* been merged, a failed one never has (run_quiet_job, the order of its ?s).
OutcomeIsTrue ==
  \A j \in DOMAIN table :
    /\ table[j].run_id => Stored(rows, Row(j, RunName, {j}))
    /\ table[j].status = "completed" => request[j].ephemeral \/ j \in merged
    /\ table[j].status = "failed" => j \notin merged

\* A workspace that exists stays: unless a merge was killed or failed between
\* its DELETE and its INSERT, there is a row to read or a merge about to insert
\* one, however many merges run at once (upsert_workspace, no transaction).
WorkspaceSurvives ==
  merged # {} /\ ~torn =>
    \/ LatestNamed(rows, WorkspaceName) # {}
    \/ \E j \in Jobs : phase[j] = "insert"

\* What a reader of the workspace gets.
Workspace == UNION {row.graph : row \in LatestNamed(rows, WorkspaceName)}

Inserting == {j \in Jobs : phase[j] = "insert"}

\* Merges that run one after the other lose nothing: everything merged so far
\* is in the workspace, or in the graph a merge is about to insert, even with
\* jobs that failed or were killed before their DELETE (merge_and_save).
SerialMergesAccumulate ==
  ~overlapped /\ ~torn => merged \subseteq Workspace \cup UNION {graph[j] : j \in Inserting}

\* The same without the condition that merges do not overlap, which the guide
\* does not make (docs/guides/workspace.md:3, "AresBird keeps a **workspace
\* graph** across scans/probes so hosts, open ports, and findings accumulate").
WorkspaceAccumulates ==
  ~torn => merged \subseteq Workspace \cup UNION {graph[j] : j \in Inserting}

\* A job that was posted is settled in the table for a reader to see, whatever
\* fails on the way, with three exceptions: the server was killed, the module
\* panicked, or the record made room for another job, and then the task still
\* comes to its end (spawn_job, the task).
Settles ==
  \A j \in Jobs :
    phase[j] = "begin" ~>
      \/ j \in DOMAIN table /\ table[j].status \in Terminal
      \/ phase[j] \in {"killed", "panicked"}
      \/ j \in dropped /\ phase[j] = "done"

\* What the comment says of a full table (serve.rs:701, "Drop oldest finished
\* jobs first."): a record that is not settled makes room only when the table
\* has no settled one.
FinishedFirst ==
  [][dropped' # dropped =>
       \A j \in DOMAIN table : table[j].status \notin Terminal]_vars
=============================================================================
