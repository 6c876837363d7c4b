-------------------------- MODULE JobServerProofs ---------------------------
(***************************************************************************)
(* Theorems about JobServer, for every finite set of jobs, whatever they   *)
(* ask for, and every size of the table.                                   *)
(*                                                                         *)
(* WorkspaceSurvives is inductive beside the types. The other properties   *)
(* need what a task is worth at each of its steps: that it has no record   *)
(* before it is posted (Index), what it has stored so far (Truth), and     *)
(* what the graph it is about to insert contains (Merges).                 *)
(***************************************************************************)
EXTENDS JobServer, FiniteSetTheorems, SequenceTheorems, TLAPS

Records == [status : Statuses, run_id : BOOLEAN]

RowType == [by : Jobs, name : {RunName, WorkspaceName}, graph : SUBSET Jobs]

\* TypeOK, and the types of the records and of the rows.
Types ==
  /\ request \in [Jobs -> [save : BOOLEAN, ephemeral : BOOLEAN]]
  /\ request \in Requests
  /\ DOMAIN table \subseteq Jobs /\ table \in [DOMAIN table -> Records]
  /\ order \in Seq(Jobs) /\ dropped \subseteq Jobs
  /\ phase \in [Jobs -> Phases]
  /\ graph \in [Jobs -> SUBSET Jobs]
  /\ found \in [Jobs -> SUBSET RowType]
  /\ \A j \in Jobs : \A r, s \in found[j] : r = s
  /\ failing \subseteq Jobs
  /\ clock \in Nat
  /\ DOMAIN rows \subseteq 1 .. clock /\ rows \in [DOMAIN rows -> RowType]
  /\ merged \subseteq Jobs
  /\ overlapped \in BOOLEAN /\ torn \in BOOLEAN

\* The order lists the records once each, all of jobs that were posted.
Index ==
  /\ \A j \in Jobs : j \in DOMAIN table <=> \E k \in DOMAIN order : order[k] = j
  /\ \A k, l \in DOMAIN order : order[k] = order[l] => k = l
  /\ Len(order) = Cardinality(DOMAIN table) /\ Len(order) <= MaxJobs
  /\ \A j \in DOMAIN table : phase[j] # "idle"

HasRun(j) == Stored(rows, Row(j, RunName, {j}))

\* From the scan on a task has what it found; past its save, its run is stored;
\* past its merge, it is merged; and only a task about to settle has failed.
TaskIsTrue(j) ==
  /\ j \in failing => phase[j] = "settle" /\ j \notin merged
  /\ j \in merged => phase[j] \in {"settle", "done", "killed"}
  /\ phase[j] = "save" => request[j].save
  /\ phase[j] \in {"save", "look"} => graph[j] = {j}
  /\ phase[j] \in Merging => j \in graph[j]
  /\ phase[j] \in {"look"} \cup Merging /\ request[j].save => HasRun(j)
  /\ phase[j] = "settle" /\ j \notin failing =>
       /\ request[j].save => HasRun(j)
       /\ request[j].ephemeral \/ j \in merged

\* A record says nothing of a task that is not done, and of one that is it does.
RecordIsTrue(j) ==
  /\ table[j].run_id => HasRun(j)
  /\ table[j].status = "completed" => request[j].ephemeral \/ j \in merged
  /\ table[j].status = "failed" => j \notin merged
  /\ table[j].run_id => table[j].status \in Terminal
  /\ IF table[j].status \in Terminal THEN phase[j] = "done"
     ELSE phase[j] \in Steps \cup {"panicked"}

Truth ==
  /\ \A j \in Jobs : TaskIsTrue(j)
  /\ \A j \in DOMAIN table : RecordIsTrue(j)

\* While merges do not overlap, the one that runs has found the latest workspace,
\* and after its load it holds all of it.
Merges ==
  ~overlapped =>
    /\ \A j, k \in Jobs : phase[j] \in Merging /\ phase[k] \in Merging => j = k
    /\ \A j \in Jobs :
         /\ phase[j] = "load" => found[j] = LatestNamed(rows, WorkspaceName)
         /\ phase[j] \in {"delete", "insert"} => Workspace \subseteq graph[j]

IInv == Types /\ Index /\ Truth /\ WorkspaceSurvives /\ Merges /\ SerialMergesAccumulate

-----------------------------------------------------------------------------
(* The store. *)

\* A row that is saved is stored beside the others, and is the latest of its name.
LEMMA SaveProperties ==
  ASSUME Types, NEW row \in RowType, clock' = clock + 1,
         rows' = Save(rows, clock', row)
  PROVE  /\ DOMAIN rows' \subseteq 1 .. clock' /\ rows' \in [DOMAIN rows' -> RowType]
         /\ Stored(rows', row)
         /\ \A r : Stored(rows, r) => Stored(rows', r)
         /\ LatestNamed(rows', row.name) = {row}
         /\ \A name : name # row.name => LatestNamed(rows', name) = LatestNamed(rows, name)
<1>1. /\ DOMAIN rows' = DOMAIN rows \cup {clock + 1}
      /\ rows'[clock + 1] = row
      /\ \A m \in DOMAIN rows : m \in 1 .. clock /\ rows'[m] = rows[m]
  BY DEF Save, Types
<1>2. DOMAIN rows' \subseteq 1 .. clock' /\ rows' \in [DOMAIN rows' -> RowType]
  BY <1>1 DEF Save, Types
<1>3. Stored(rows', row) /\ \A r : Stored(rows, r) => Stored(rows', r)
  BY <1>1 DEF Stored
<1>4. LatestNamed(rows', row.name) = {row}
  <2>1. clock + 1 \in Named(rows', row.name)
    BY <1>1 DEF Named
  <2>2. \A n \in Named(rows', row.name) :
          n \in Int /\ n <= clock + 1 /\ (clock + 1 <= n => n = clock + 1)
    BY <1>1 DEF Named, Types
  <2>3. {k \in Named(rows', row.name) : \A n \in Named(rows', row.name) : n <= k} = {clock + 1}
    BY <2>1, <2>2
  <2> QED
    BY <1>1, <2>3 DEF LatestNamed
<1>5. ASSUME NEW name, name # row.name
      PROVE  LatestNamed(rows', name) = LatestNamed(rows, name)
  <2>1. Named(rows', name) = Named(rows, name) /\ Named(rows, name) \subseteq DOMAIN rows
    BY <1>1, <1>5 DEF Named
  <2> QED
    BY <1>1, <2>1 DEF LatestNamed
<1> QED
  BY <1>2, <1>3, <1>4, <1>5

\* A row is deleted by its name only.
LEMMA DeleteProperties ==
  ASSUME Types, NEW name, rows' = DeleteNamed(rows, name)
  PROVE  /\ DOMAIN rows' \subseteq DOMAIN rows /\ rows' \in [DOMAIN rows' -> RowType]
         /\ \A r : Stored(rows, r) /\ r.name # name => Stored(rows', r)
         /\ LatestNamed(rows', name) = {}
<1>1. /\ DOMAIN rows' = DOMAIN rows \ Named(rows, name)
      /\ \A m \in DOMAIN rows' : rows'[m] = rows[m]
  BY DEF DeleteNamed
<1>2. rows' \in [DOMAIN rows' -> RowType]
  BY <1>1 DEF DeleteNamed, Types
<1>3. \A r : Stored(rows, r) /\ r.name # name => Stored(rows', r)
  BY <1>1 DEF Stored, Named
<1>4. Named(rows', name) = {}
  BY <1>1 DEF Named
<1> QED
  BY <1>1, <1>2, <1>3, <1>4 DEF LatestNamed

\* Of a name one row at most is the latest, and it is a row.
LEMMA LatestProperties ==
  ASSUME Types, NEW name
  PROVE  /\ LatestNamed(rows, name) \subseteq RowType
         /\ \A r, s \in LatestNamed(rows, name) : r = s
<1>1. \A m \in Named(rows, name) : m \in Int /\ rows[m] \in RowType
  BY DEF Named, Types
<1> QED
  BY <1>1 DEF LatestNamed

-----------------------------------------------------------------------------
(* The table of records. *)

LEMMA RecordType ==
  ASSUME NEW status \in Statuses, NEW run \in BOOLEAN
  PROVE  /\ Record(status, run) \in Records
         /\ Record(status, run).status = status /\ Record(status, run).run_id = run
BY DEF Record, Records

\* A task changes its own record at most.
LEMMA UpdateProperties ==
  ASSUME Types, NEW j \in Jobs, NEW rec \in Records, Update(j, rec)
  PROVE  /\ DOMAIN table' = DOMAIN table /\ table' \in [DOMAIN table' -> Records]
         /\ \A k \in DOMAIN table : table'[k] = IF k = j THEN rec ELSE table[k]
BY DEF Update, Types

-----------------------------------------------------------------------------
(* Types. *)

\* The server starts well typed.
LEMMA TypesInit == Init => Types
<1> SUFFICES ASSUME Init PROVE Types
  OBVIOUS
<1>1. DOMAIN table = {} /\ DOMAIN rows = {}
  BY DEF Init
<1>2. order \in Seq(Jobs)
  BY EmptySeq DEF Init
<1>3. table \in [DOMAIN table -> Records] /\ rows \in [DOMAIN rows -> RowType]
  BY DEF Init
<1>4. request \in [Jobs -> [save : BOOLEAN, ephemeral : BOOLEAN]] /\ request \in Requests
  BY RequestsType DEF Init
<1> QED
  BY <1>1, <1>2, <1>3, <1>4 DEF Init, Types, Phases

\* Every step of a task, and a restart, keeps the types.
LEMMA TypesStep ==
  ASSUME Types, [Next]_vars
  PROVE  Types'
<1> USE DEF store, task, index, Go, Phases, Steps
<1>1. ASSUME NEW j \in Jobs, Post(j), UNCHANGED request PROVE Types'
  <2> DEFINE kept == IF Full THEN Without(table, Head(order)) ELSE table
  <2>1. DOMAIN kept \subseteq DOMAIN table /\ kept \in [DOMAIN kept -> Records]
    BY DEF Types, Without
  <2>2. Record("queued", FALSE) \in Records
    BY RecordType DEF Statuses
  <2>3. DOMAIN table' \subseteq Jobs /\ table' \in [DOMAIN table' -> Records]
    BY <1>1, <2>1, <2>2 DEF Post, With, Types
  <2>4. order' \in Seq(Jobs)
    <3>1. Full => order # <<>>
      BY MaxJobsPositive DEF Full
    <3>2. Full => Tail(order) \in Seq(Jobs)
      BY <3>1, HeadTailProperties DEF Types
    <3> QED
      BY <1>1, <3>2, AppendProperties DEF Post, Types
  <2>5. dropped' \subseteq Jobs
    BY <1>1 DEF Post, Unfinished, Types
  <2> QED
    BY <1>1, <2>3, <2>4, <2>5 DEF Post, Types
<1>2. ASSUME NEW j \in Jobs, Begin(j), UNCHANGED request PROVE Types'
  <2>1. DOMAIN table' \subseteq Jobs /\ table' \in [DOMAIN table' -> Records]
    BY <1>2, UpdateProperties, RecordType DEF Begin, Types, Statuses
  <2> QED
    BY <1>2, <2>1 DEF Begin, Types
<1>3. ASSUME NEW j \in Jobs, ScanOk(j), UNCHANGED request PROVE Types'
  BY <1>3 DEF ScanOk, AfterSave, Types
<1>4. ASSUME NEW j \in Jobs, ScanFails(j), UNCHANGED request PROVE Types'
  BY <1>4 DEF ScanFails, Fail, Types
<1>5. ASSUME NEW j \in Jobs, SaveRun(j), UNCHANGED request PROVE Types'
  <2>1. Row(j, RunName, graph[j]) \in RowType
    BY DEF Row, RowType, Types
  <2>2. DOMAIN rows' \subseteq 1 .. clock' /\ rows' \in [DOMAIN rows' -> RowType]
    BY <1>5, <2>1, SaveProperties DEF SaveRun
  <2> QED
    BY <1>5, <2>2 DEF SaveRun, AfterSave, Types
<1>6. ASSUME NEW j \in Jobs, Look(j), UNCHANGED request PROVE Types'
  <2>1. found' \in [Jobs -> SUBSET RowType] /\ \A k \in Jobs : \A r, s \in found'[k] : r = s
    BY <1>6, LatestProperties DEF Look, Types
  <2> QED
    BY <1>6, <2>1 DEF Look, Types
<1>7. ASSUME NEW j \in Jobs, Load(j), UNCHANGED request PROVE Types'
  <2>1. PICK row \in found[j] :
          \/ /\ Go(j, "load", "delete")
             /\ graph' = [graph EXCEPT ![j] = @ \cup row.graph]
             /\ UNCHANGED failing
          \/ /\ Go(j, "load", "settle") /\ Fail(j)
             /\ UNCHANGED graph
    BY <1>7 DEF Load
  <2>2. row.graph \subseteq Jobs
    BY DEF Types, RowType
  <2>3. UNCHANGED <<request, table, index, found, store>>
    BY <1>7 DEF Load
  <2>4. graph' \in [Jobs -> SUBSET Jobs] /\ failing' \subseteq Jobs
    BY <2>1, <2>2 DEF Fail, Types
  <2>5. phase' \in [Jobs -> Phases]
    BY <2>1 DEF Types
  <2> QED
    BY <2>3, <2>4, <2>5 DEF Types
<1>8. ASSUME NEW j \in Jobs, Delete(j), UNCHANGED request PROVE Types'
  <2>1. DOMAIN rows' \subseteq 1 .. clock' /\ rows' \in [DOMAIN rows' -> RowType]
    BY <1>8, DeleteProperties DEF Delete, Types
  <2> QED
    BY <1>8, <2>1 DEF Delete, Types
<1>9. ASSUME NEW j \in Jobs, Insert(j), UNCHANGED request PROVE Types'
  <2>1. Row(j, WorkspaceName, graph[j]) \in RowType
    BY DEF Row, RowType, Types
  <2>2. DOMAIN rows' \subseteq 1 .. clock' /\ rows' \in [DOMAIN rows' -> RowType]
    BY <1>9, <2>1, SaveProperties DEF Insert
  <2> QED
    BY <1>9, <2>2 DEF Insert, Types
<1>10. ASSUME NEW j \in Jobs, StoreFails(j), UNCHANGED request PROVE Types'
  BY <1>10 DEF StoreFails, Fail, Types
<1>11. ASSUME NEW j \in Jobs, Settle(j), UNCHANGED request PROVE Types'
  <2>1. Outcome(j) \in Records
    BY RecordType DEF Outcome, Statuses, Types
  <2>2. DOMAIN table' \subseteq Jobs /\ table' \in [DOMAIN table' -> Records]
    BY <1>11, <2>1, UpdateProperties DEF Settle, Types
  <2> QED
    BY <1>11, <2>2 DEF Settle, Drop, Types
<1>12. CASE Crash /\ UNCHANGED request
  <2>1. DOMAIN table' = {} /\ order' \in Seq(Jobs)
    BY <1>12, EmptySeq DEF Crash
  <2> QED
    BY <1>12, <2>1 DEF Crash, Drop, Types
<1>13. CASE UNCHANGED vars
  BY <1>13 DEF vars, Types
<1>14. ASSUME NEW j \in Jobs, Panic(j), UNCHANGED request PROVE Types'
  BY <1>14 DEF Panic, Drop, Types
<1> QED
  BY <1>1, <1>2, <1>3, <1>4, <1>5, <1>6, <1>7, <1>8, <1>9, <1>10, <1>11, <1>12, <1>13, <1>14 DEF Next, Task

-----------------------------------------------------------------------------
(* The order lists the table. *)

\* A table without records has an empty order.
LEMMA IndexOfNothing ==
  ASSUME DOMAIN table = {}, order = <<>>
  PROVE  Index
BY MaxJobsPositive, FS_EmptySet DEF Index

\* A post drops the record the order lists first, from both, and adds its own to
\* both; no other step changes which records there are, but a restart.
LEMMA IndexStep ==
  ASSUME Types, Index, [Next]_vars
  PROVE  Index'
<1> USE DEF store, task, index, Go, Phases, Steps
<1>1. ASSUME NEW j \in Jobs, Post(j), UNCHANGED request PROVE Index'
  <2> DEFINE kept == IF Full THEN Without(table, Head(order)) ELSE table
             left == IF Full THEN Tail(order) ELSE order
  <2>1. Full <=> Len(order) = MaxJobs
    BY MaxJobsPositive, LenProperties DEF Full, Index, Types
  <2>2. /\ left \in Seq(Jobs) /\ Len(left) + 1 <= MaxJobs
        /\ Full => /\ order # <<>> /\ Len(left) = Len(order) - 1
                   /\ Head(order) = order[1]
                   /\ \A k \in 1 .. Len(left) : left[k] = order[k + 1]
    <3>1. CASE Full
      BY <2>1, <3>1, MaxJobsPositive, EmptySeq, HeadTailProperties DEF Types
    <3>2. CASE ~Full
      BY <2>1, <3>2, MaxJobsPositive, LenProperties DEF Index, Types
    <3> QED
      BY <3>1, <3>2
  <2>3. DOMAIN order = 1 .. Len(order) /\ Len(order) \in Nat
    BY LenProperties DEF Types
  <2>4. /\ \A i \in Jobs : i \in DOMAIN kept <=> \E k \in 1 .. Len(left) : left[k] = i
        /\ \A k, l \in 1 .. Len(left) : left[k] = left[l] => k = l
        /\ Len(left) = Cardinality(DOMAIN kept)
        /\ DOMAIN kept \subseteq DOMAIN table
    <3>1. CASE Full
      <4>1. DOMAIN kept = DOMAIN table \ {order[1]} /\ order[1] \in DOMAIN table
        BY <2>2, <2>3, <3>1, ElementOfSeq, EmptySeq DEF Without, Index, Types
      <4>2. IsFiniteSet(DOMAIN table)
        BY JobsFinite, FS_Subset DEF Types
      <4>3. Cardinality(DOMAIN kept) = Cardinality(DOMAIN table) - 1
        BY <4>1, <4>2, FS_RemoveElement
      <4>4. \A k \in 1 .. Len(left) : k + 1 \in DOMAIN order /\ left[k] = order[k + 1]
        BY <2>2, <2>3, <3>1
      <4>5. \A k \in DOMAIN order : k # 1 => k - 1 \in 1 .. Len(left) /\ left[k - 1] = order[k]
        BY <2>2, <2>3, <3>1
      <4>6. ASSUME NEW i \in Jobs
            PROVE  i \in DOMAIN kept <=> \E k \in 1 .. Len(left) : left[k] = i
        <5>1. ASSUME i \in DOMAIN kept PROVE \E k \in 1 .. Len(left) : left[k] = i
          <6>1. PICK k \in DOMAIN order : order[k] = i
            BY <4>1, <5>1 DEF Index
          <6>2. k # 1
            BY <4>1, <5>1, <6>1
          <6> QED
            BY <4>5, <6>1, <6>2
        <5>2. ASSUME NEW k \in 1 .. Len(left), left[k] = i PROVE i \in DOMAIN kept
          <6>1. order[k + 1] = i /\ k + 1 \in DOMAIN order /\ k + 1 # 1 /\ 1 \in DOMAIN order
            BY <2>2, <2>3, <3>1, <4>4, <5>2
          <6>2. i \in DOMAIN table /\ i # order[1]
            BY <6>1 DEF Index
          <6> QED
            BY <4>1, <6>2
        <5> QED
          BY <5>1, <5>2
      <4>7. ASSUME NEW k \in 1 .. Len(left), NEW l \in 1 .. Len(left), left[k] = left[l]
            PROVE  k = l
        <5>1. k + 1 \in DOMAIN order /\ l + 1 \in DOMAIN order /\ order[k + 1] = order[l + 1]
          BY <4>4, <4>7
        <5>2. k + 1 = l + 1
          BY <5>1 DEF Index
        <5> QED
          BY <2>2, <5>2, LenProperties
      <4> QED
        BY <2>2, <3>1, <4>1, <4>3, <4>6, <4>7 DEF Index
    <3>2. CASE ~Full
      BY <2>3, <3>2 DEF Index
    <3> QED
      BY <3>1, <3>2
  <2>5. order' = Append(left, j) /\ DOMAIN table' = DOMAIN kept \cup {j}
    BY <1>1 DEF Post, With
  <2>6. j \notin DOMAIN kept
    BY <1>1, <2>4 DEF Post, Index
  <2>7. /\ Len(order') = Len(left) + 1 /\ DOMAIN order' = 1 .. Len(left) + 1
        /\ order'[Len(left) + 1] = j
        /\ \A k \in 1 .. Len(left) : order'[k] = left[k]
    BY <2>2, <2>5, AppendProperties, LenProperties
  <2>8. Len(left) \in Nat
    BY <2>2, LenProperties
  <2>9. Len(order') = Cardinality(DOMAIN table')
    <3>1. IsFiniteSet(DOMAIN kept)
      BY <2>4, JobsFinite, FS_Subset DEF Types
    <3> QED
      BY <2>4, <2>5, <2>6, <2>7, <3>1, FS_AddElement
  <2>10. \A i \in Jobs : i \in DOMAIN table' <=> \E k \in DOMAIN order' : order'[k] = i
    <3>1. ASSUME NEW i \in DOMAIN table' PROVE \E k \in DOMAIN order' : order'[k] = i
      <4>1. CASE i = j
        BY <2>7, <2>8, <4>1
      <4>2. CASE i # j
        <5>1. i \in DOMAIN kept /\ i \in Jobs
          BY <2>4, <2>5, <3>1, <4>2 DEF Types
        <5>2. PICK k \in 1 .. Len(left) : left[k] = i
          BY <2>4, <5>1
        <5>3. k \in DOMAIN order' /\ order'[k] = i
          BY <2>7, <2>8, <5>2
        <5> QED
          BY <5>3
      <4> QED
        BY <4>1, <4>2
    <3>2. ASSUME NEW k \in DOMAIN order' PROVE order'[k] \in DOMAIN table'
      <4>1. CASE k = Len(left) + 1
        BY <2>5, <2>7, <4>1
      <4>2. CASE k # Len(left) + 1
        <5>1. k \in 1 .. Len(left) /\ order'[k] = left[k]
          BY <2>7, <2>8, <4>2
        <5>2. left[k] \in Jobs
          BY <2>2, <5>1, ElementOfSeq
        <5> QED
          BY <2>4, <2>5, <5>1, <5>2
      <4> QED
        BY <4>1, <4>2
    <3> QED
      BY <3>1, <3>2
  <2>11. \A k, l \in DOMAIN order' : order'[k] = order'[l] => k = l
    <3>1. \A k \in 1 .. Len(left) : order'[k] # j
      BY <2>4, <2>6, <2>7
    <3> QED
      BY <2>4, <2>7, <2>8, <3>1
  <2>12. \A i \in DOMAIN table' : phase'[i] # "idle"
    <3>1. \A i \in DOMAIN kept : i \in Jobs /\ phase[i] # "idle"
      BY <2>4 DEF Index, Types
    <3>2. phase' = [phase EXCEPT ![j] = "begin"]
      BY <1>1 DEF Post
    <3> QED
      BY <2>5, <3>1, <3>2 DEF Types
  <2> QED
    BY <2>2, <2>7, <2>9, <2>10, <2>11, <2>12 DEF Index
<1>2. ASSUME NEW j \in Jobs, Begin(j), UNCHANGED request PROVE Index'
  <2>1. DOMAIN table' = DOMAIN table
    BY <1>2, UpdateProperties, RecordType DEF Begin, Statuses
  <2> QED
    BY <1>2, <2>1 DEF Begin, Index, Types
<1>3. ASSUME NEW j \in Jobs, ScanOk(j), UNCHANGED request PROVE Index'
  BY <1>3 DEF ScanOk, AfterSave, Index, Types
<1>4. ASSUME NEW j \in Jobs, ScanFails(j), UNCHANGED request PROVE Index'
  BY <1>4 DEF ScanFails, Index, Types
<1>5. ASSUME NEW j \in Jobs, SaveRun(j), UNCHANGED request PROVE Index'
  BY <1>5 DEF SaveRun, AfterSave, Index, Types
<1>6. ASSUME NEW j \in Jobs, Look(j), UNCHANGED request PROVE Index'
  BY <1>6 DEF Look, Index, Types
<1>7. ASSUME NEW j \in Jobs, Load(j), UNCHANGED request PROVE Index'
  <2>1. UNCHANGED <<table, order>>
    BY <1>7 DEF Load
  <2>2. Go(j, "load", "delete") \/ Go(j, "load", "settle")
    BY <1>7 DEF Load
  <2> QED
    BY <2>1, <2>2 DEF Index, Types
<1>8. ASSUME NEW j \in Jobs, Delete(j), UNCHANGED request PROVE Index'
  BY <1>8 DEF Delete, Index, Types
<1>9. ASSUME NEW j \in Jobs, Insert(j), UNCHANGED request PROVE Index'
  BY <1>9 DEF Insert, Index, Types
<1>10. ASSUME NEW j \in Jobs, StoreFails(j), UNCHANGED request PROVE Index'
  BY <1>10 DEF StoreFails, Index, Types
<1>11. ASSUME NEW j \in Jobs, Settle(j), UNCHANGED request PROVE Index'
  <2>1. Outcome(j) \in Records
    BY RecordType DEF Outcome, Statuses, Types
  <2>2. DOMAIN table' = DOMAIN table
    BY <1>11, <2>1, UpdateProperties DEF Settle
  <2> QED
    BY <1>11, <2>2 DEF Settle, Index, Types
<1>12. CASE Crash /\ UNCHANGED request
  <2>1. DOMAIN table' = {} /\ order' = <<>>
    BY <1>12 DEF Crash
  <2> QED
    BY <2>1, MaxJobsPositive, FS_EmptySet DEF Index
<1>13. CASE UNCHANGED vars
  BY <1>13 DEF vars, Index, Types
<1>14. ASSUME NEW j \in Jobs, Panic(j), UNCHANGED request PROVE Index'
  BY <1>14 DEF Panic, Index, Types
<1> QED
  BY <1>1, <1>2, <1>3, <1>4, <1>5, <1>6, <1>7, <1>8, <1>9, <1>10, <1>11, <1>12, <1>13, <1>14 DEF Next, Task

-----------------------------------------------------------------------------
(* Records tell the truth. *)

\* Nothing is claimed before anything is posted.
LEMMA TruthInit == Init => Truth
BY DEF Init, Truth, TaskIsTrue, Merging

\* What a step of j does not touch stays true of the others, if no run is lost.
LEMMA OthersStayTrue ==
  ASSUME Types, Truth, NEW j \in Jobs, UNCHANGED request,
         \A k \in Jobs \ {j} :
           /\ phase'[k] = phase[k] /\ graph'[k] = graph[k]
           /\ k \in failing' <=> k \in failing
           /\ k \in merged' <=> k \in merged,
         \A k \in DOMAIN table' \ {j} : k \in DOMAIN table /\ table'[k] = table[k],
         DOMAIN table' \subseteq Jobs,
         \A k \in Jobs : HasRun(k) => HasRun(k)',
         TaskIsTrue(j)',
         j \in DOMAIN table' => RecordIsTrue(j)'
  PROVE  Truth'
<1>1. ASSUME NEW k \in Jobs \ {j} PROVE TaskIsTrue(k)'
  <2>1. TaskIsTrue(k)
    BY DEF Truth
  <2> QED
    BY <2>1 DEF TaskIsTrue
<1>2. ASSUME NEW k \in DOMAIN table' \ {j} PROVE RecordIsTrue(k)'
  <2>1. k \in Jobs /\ k \in DOMAIN table /\ table'[k] = table[k]
    OBVIOUS
  <2>2. RecordIsTrue(k)
    BY <2>1 DEF Truth
  <2> QED
    BY <2>1, <2>2 DEF RecordIsTrue
<1> QED
  BY <1>1, <1>2 DEF Truth

\* The record of a task that is not done says nothing.
LEMMA RecordOfOne ==
  ASSUME Truth, NEW j \in DOMAIN table, phase[j] # "done", table'[j] = table[j],
         phase'[j] \in Steps \cup {"panicked"}
  PROVE  RecordIsTrue(j)'
<1>1. RecordIsTrue(j)
  BY DEF Truth
<1> QED
  BY <1>1 DEF RecordIsTrue, Terminal

\* A run that is stored stays: only workspaces are deleted.
LEMMA RunsStay ==
  ASSUME Types, NEW k \in Jobs,
         \/ UNCHANGED rows
         \/ \E row \in RowType : clock' = clock + 1 /\ rows' = Save(rows, clock', row)
         \/ rows' = DeleteNamed(rows, WorkspaceName)
  PROVE  HasRun(k) => HasRun(k)'
<1>1. Row(k, RunName, {k}).name # WorkspaceName
  BY DEF Row, RunName, WorkspaceName
<1> QED
  BY <1>1, SaveProperties, DeleteProperties DEF HasRun

\* Each step of a task keeps it and its record true.
LEMMA TruthStep ==
  ASSUME Types, Types', Index, Truth, [Next]_vars
  PROVE  Truth'
<1> USE DEF store, task, index, Go, Phases, Steps, Merging
<1>1. ASSUME NEW j \in Jobs, Post(j), UNCHANGED request PROVE Truth'
  <2>1. TaskIsTrue(j) /\ phase[j] = "idle" /\ phase' = [phase EXCEPT ![j] = "begin"]
    BY <1>1 DEF Post, Truth
  <2>2. UNCHANGED <<graph, failing, rows, merged>>
    BY <1>1 DEF Post
  <2>3. /\ DOMAIN table' \subseteq DOMAIN table \cup {j}
        /\ \A k \in DOMAIN table' \ {j} : k \in DOMAIN table /\ table'[k] = table[k]
        /\ table'[j] = Record("queued", FALSE)
    BY <1>1 DEF Post, With, Without, Types
  <2>4. TaskIsTrue(j)'
    BY <2>1, <2>2 DEF TaskIsTrue, Types
  <2>5. RecordIsTrue(j)'
    BY <2>1, <2>3, RecordType DEF RecordIsTrue, Statuses, Terminal, Types
  <2>6. \A k \in Jobs : HasRun(k) => HasRun(k)'
    BY <2>2, RunsStay
  <2> QED
    BY <1>1, <2>1, <2>2, <2>3, <2>4, <2>5, <2>6, OthersStayTrue DEF Types
<1>2. ASSUME NEW j \in Jobs, Begin(j), UNCHANGED request PROVE Truth'
  <2>1. \A k \in Jobs : HasRun(k) => HasRun(k)'
    BY <1>2, RunsStay DEF Begin
  <2>2. TaskIsTrue(j)
    BY DEF Truth
  <2>3. TaskIsTrue(j)'
    BY <1>2, <2>1, <2>2 DEF Begin, TaskIsTrue, Types
  <2>4. j \in DOMAIN table' => RecordIsTrue(j)'
    <3> SUFFICES ASSUME j \in DOMAIN table' PROVE RecordIsTrue(j)'
      OBVIOUS
    <3>1. table'[j] = Record("running", FALSE)
      BY <1>2, UpdateProperties, RecordType DEF Begin, Statuses
    <3>2. phase'[j] = "scan"
      BY <1>2 DEF Begin, Types
    <3> QED
      BY <3>1, <3>2, RecordType DEF RecordIsTrue, Statuses, Terminal
  <2>5. \A k \in DOMAIN table' \ {j} : k \in DOMAIN table /\ table'[k] = table[k]
    BY <1>2, UpdateProperties, RecordType DEF Begin, Statuses
  <2> HIDE DEF Merging
  <2> QED
    BY <1>2, <2>1, <2>3, <2>4, <2>5, OthersStayTrue DEF Begin, Types
<1>3. ASSUME NEW j \in Jobs, ScanOk(j), UNCHANGED request PROVE Truth'
  <2>1. \A k \in Jobs : HasRun(k) => HasRun(k)'
    BY <1>3, RunsStay DEF ScanOk, AfterSave
  <2>2. TaskIsTrue(j)
    BY DEF Truth
  <2>3. TaskIsTrue(j)'
    BY <1>3, <2>1, <2>2 DEF ScanOk, AfterSave, TaskIsTrue, Types
  <2>4. j \in DOMAIN table' => RecordIsTrue(j)'
    BY <1>3, RecordOfOne DEF ScanOk, AfterSave, Types
  <2> HIDE DEF Merging
  <2> QED
    BY <1>3, <2>1, <2>3, <2>4, OthersStayTrue DEF ScanOk, AfterSave, Types
<1>4. ASSUME NEW j \in Jobs, ScanFails(j), UNCHANGED request PROVE Truth'
  <2>1. \A k \in Jobs : HasRun(k) => HasRun(k)'
    BY <1>4, RunsStay DEF ScanFails, Fail
  <2>2. TaskIsTrue(j)
    BY DEF Truth
  <2>3. TaskIsTrue(j)'
    BY <1>4, <2>1, <2>2 DEF ScanFails, Fail, TaskIsTrue, Types
  <2>4. j \in DOMAIN table' => RecordIsTrue(j)'
    BY <1>4, RecordOfOne DEF ScanFails, Fail, Types
  <2> HIDE DEF Merging
  <2> QED
    BY <1>4, <2>1, <2>3, <2>4, OthersStayTrue DEF ScanFails, Fail, Types
<1>5. ASSUME NEW j \in Jobs, SaveRun(j), UNCHANGED request PROVE Truth'
  <2>0. Row(j, RunName, graph[j]) \in RowType
    BY DEF Row, RowType, Types
  <2>5. phase[j] = "save" /\ graph[j] = {j}
    BY <1>5 DEF SaveRun, Truth, TaskIsTrue
  <2>6. HasRun(j)'
    BY <1>5, <2>0, <2>5, SaveProperties DEF SaveRun, HasRun

  <2>1. \A k \in Jobs : HasRun(k) => HasRun(k)'
    BY <1>5, RunsStay, <2>0 DEF SaveRun, AfterSave
  <2>2. TaskIsTrue(j)
    BY DEF Truth
  <2>3. TaskIsTrue(j)'
    BY <1>5, <2>1, <2>2, <2>5, <2>6 DEF SaveRun, AfterSave, TaskIsTrue, Types
  <2>4. j \in DOMAIN table' => RecordIsTrue(j)'
    BY <1>5, RecordOfOne DEF SaveRun, AfterSave, Types
  <2> HIDE DEF Merging
  <2> QED
    BY <1>5, <2>1, <2>3, <2>4, OthersStayTrue DEF SaveRun, AfterSave, Types
<1>6. ASSUME NEW j \in Jobs, Look(j), UNCHANGED request PROVE Truth'
  <2>1. \A k \in Jobs : HasRun(k) => HasRun(k)'
    BY <1>6, RunsStay DEF Look
  <2>2. TaskIsTrue(j)
    BY DEF Truth
  <2>3. TaskIsTrue(j)'
    BY <1>6, <2>1, <2>2 DEF Look, TaskIsTrue, Types
  <2>4. j \in DOMAIN table' => RecordIsTrue(j)'
    BY <1>6, RecordOfOne DEF Look, Types
  <2> HIDE DEF Merging
  <2> QED
    BY <1>6, <2>1, <2>3, <2>4, OthersStayTrue DEF Look, Types
<1>7. ASSUME NEW j \in Jobs, Load(j), UNCHANGED request PROVE Truth'
  <2>1. PICK row \in found[j] :
          \/ /\ Go(j, "load", "delete")
             /\ graph' = [graph EXCEPT ![j] = @ \cup row.graph]
             /\ UNCHANGED failing
          \/ /\ Go(j, "load", "settle") /\ Fail(j)
             /\ UNCHANGED graph
    BY <1>7 DEF Load
  <2>2. UNCHANGED <<request, table, index, found, store>>
    BY <1>7 DEF Load
  <2>3. TaskIsTrue(j) /\ phase[j] = "load"
    BY <2>1 DEF Truth
  <2>4. \A k \in Jobs : HasRun(k) => HasRun(k)'
    BY <2>2, RunsStay
  <2>5. TaskIsTrue(j)'
    BY <2>1, <2>2, <2>3, <2>4 DEF TaskIsTrue, Fail, Types
  <2>6. j \in DOMAIN table' => RecordIsTrue(j)'
    <3>1. phase'[j] \in Steps
      BY <2>1 DEF Types
    <3> QED
      BY <2>2, <2>3, <3>1, RecordOfOne
  <2>7. \A k \in Jobs \ {j} :
          /\ phase'[k] = phase[k] /\ graph'[k] = graph[k]
          /\ k \in failing' <=> k \in failing
    BY <2>1 DEF Fail, Types
  <2> QED
    BY <2>2, <2>4, <2>5, <2>6, <2>7, OthersStayTrue DEF Types
<1>8. ASSUME NEW j \in Jobs, Delete(j), UNCHANGED request PROVE Truth'
  <2>1. \A k \in Jobs : HasRun(k) => HasRun(k)'
    BY <1>8, RunsStay DEF Delete
  <2>2. TaskIsTrue(j)
    BY DEF Truth
  <2>3. TaskIsTrue(j)'
    BY <1>8, <2>1, <2>2 DEF Delete, TaskIsTrue, Types
  <2>4. j \in DOMAIN table' => RecordIsTrue(j)'
    BY <1>8, RecordOfOne DEF Delete, Types
  <2> HIDE DEF Merging
  <2> QED
    BY <1>8, <2>1, <2>3, <2>4, OthersStayTrue DEF Delete, Types
<1>9. ASSUME NEW j \in Jobs, Insert(j), UNCHANGED request PROVE Truth'
  <2>0. Row(j, WorkspaceName, graph[j]) \in RowType
    BY DEF Row, RowType, Types

  <2>1. \A k \in Jobs : HasRun(k) => HasRun(k)'
    BY <1>9, RunsStay, <2>0 DEF Insert
  <2>2. TaskIsTrue(j)
    BY DEF Truth
  <2>3. TaskIsTrue(j)'
    BY <1>9, <2>1, <2>2 DEF Insert, TaskIsTrue, Types
  <2>4. j \in DOMAIN table' => RecordIsTrue(j)'
    BY <1>9, RecordOfOne DEF Insert, Types
  <2> HIDE DEF Merging
  <2> QED
    BY <1>9, <2>1, <2>3, <2>4, OthersStayTrue DEF Insert, Types
<1>10. ASSUME NEW j \in Jobs, StoreFails(j), UNCHANGED request PROVE Truth'
  <2>1. \A k \in Jobs : HasRun(k) => HasRun(k)'
    BY <1>10, RunsStay DEF StoreFails, Fail
  <2>2. TaskIsTrue(j)
    BY DEF Truth
  <2>3. TaskIsTrue(j)'
    BY <1>10, <2>1, <2>2 DEF StoreFails, Fail, TaskIsTrue, Types
  <2>4. j \in DOMAIN table' => RecordIsTrue(j)'
    BY <1>10, RecordOfOne DEF StoreFails, Fail, Types
  <2> HIDE DEF Merging
  <2> QED
    BY <1>10, <2>1, <2>3, <2>4, OthersStayTrue DEF StoreFails, Fail, Types
<1>11. ASSUME NEW j \in Jobs, Settle(j), UNCHANGED request PROVE Truth'
  <2>1. TaskIsTrue(j) /\ phase[j] = "settle" /\ phase' = [phase EXCEPT ![j] = "done"]
    BY <1>11 DEF Settle, Truth
  <2>2. /\ failing' = failing \ {j} /\ UNCHANGED <<rows, merged>>
        /\ \A k \in Jobs \ {j} : graph'[k] = graph[k]
    BY <1>11 DEF Settle, Drop
  <2>3. Outcome(j) \in Records
    BY RecordType DEF Outcome, Statuses, Types
  <2>4. /\ DOMAIN table' = DOMAIN table
        /\ \A k \in DOMAIN table : table'[k] = IF k = j THEN Outcome(j) ELSE table[k]
    BY <1>11, <2>3, UpdateProperties DEF Settle
  <2>5. \A k \in Jobs : HasRun(k) => HasRun(k)'
    BY <2>2, RunsStay
  <2>6. TaskIsTrue(j)'
    BY <2>1, <2>2 DEF TaskIsTrue, Types
  <2>7. ASSUME j \in DOMAIN table PROVE RecordIsTrue(j)'
    <3>1. CASE j \in failing
      <4>1. table'[j].status = "failed" /\ table'[j].run_id = FALSE
        BY <2>4, <2>7, <3>1, RecordType DEF Outcome, Statuses
      <4> QED
        BY <2>1, <2>2, <3>1, <4>1 DEF TaskIsTrue, RecordIsTrue, Terminal, Types
    <3>2. CASE j \notin failing
      <4>1. table'[j].status = "completed" /\ table'[j].run_id = request[j].save
        BY <2>4, <2>7, <3>2, RecordType DEF Outcome, Statuses, Types
      <4> QED
        BY <1>11, <2>1, <2>2, <2>5, <3>2, <4>1 DEF TaskIsTrue, RecordIsTrue, Terminal, Types
    <3> QED
      BY <3>1, <3>2
  <2> QED
    BY <1>11, <2>1, <2>2, <2>4, <2>5, <2>6, <2>7, OthersStayTrue DEF Types
<1>12. CASE Crash /\ UNCHANGED request
  <2>1. DOMAIN table' = {} /\ failing' = {} /\ UNCHANGED <<rows, merged>>
    BY <1>12 DEF Crash, Drop, Types
  <2>2. \A k \in Jobs : /\ phase'[k] = IF phase[k] \in Steps THEN "killed" ELSE phase[k]
                        /\ phase[k] \in Phases
    BY <1>12 DEF Crash, Types
  <2>3. ASSUME NEW k \in Jobs PROVE TaskIsTrue(k)'
    <3>1. TaskIsTrue(k)
      BY DEF Truth
    <3> QED
      BY <2>1, <2>2, <3>1 DEF TaskIsTrue
  <2> QED
    BY <2>1, <2>3 DEF Truth
<1>13. CASE UNCHANGED vars
  BY <1>13 DEF vars, Truth, TaskIsTrue, RecordIsTrue, HasRun
<1>14. ASSUME NEW j \in Jobs, Panic(j), UNCHANGED request PROVE Truth'
  <2>1. \A k \in Jobs : HasRun(k) => HasRun(k)'
    BY <1>14, RunsStay DEF Panic
  <2>2. TaskIsTrue(j)
    BY DEF Truth
  <2>3. TaskIsTrue(j)'
    BY <1>14, <2>1, <2>2 DEF Panic, Drop, TaskIsTrue, Types
  <2>4. j \in DOMAIN table' => RecordIsTrue(j)'
    BY <1>14, RecordOfOne DEF Panic, Types
  <2> HIDE DEF Merging
  <2> QED
    BY <1>14, <2>1, <2>3, <2>4, OthersStayTrue DEF Panic, Drop, Types
<1> QED
  BY <1>1, <1>2, <1>3, <1>4, <1>5, <1>6, <1>7, <1>8, <1>9, <1>10, <1>11, <1>12, <1>13, <1>14 DEF Next, Task

-----------------------------------------------------------------------------
(* The workspace survives. *)

\* There is no workspace before the first merge.
LEMMA SurvivesInit == Init => WorkspaceSurvives
BY DEF Init, WorkspaceSurvives

\* A step that leaves the workspace and the tasks about to insert one alone, or
\* tears a merge, keeps the workspace.
LEMMA WorkspaceUntouched ==
  ASSUME WorkspaceSurvives, UNCHANGED merged, torn => torn',
         LatestNamed(rows', WorkspaceName) = LatestNamed(rows, WorkspaceName),
         ~torn' => \A k \in Jobs : phase[k] = "insert" => phase'[k] = "insert"
  PROVE  WorkspaceSurvives'
BY DEF WorkspaceSurvives

\* The row that a task deletes is the one it is about to replace.
LEMMA SurvivesStep ==
  ASSUME Types, WorkspaceSurvives, [Next]_vars
  PROVE  WorkspaceSurvives'
<1> USE DEF store, task, index, Go, Phases, Steps, Merging, Types
<1>1. ASSUME NEW j \in Jobs, Post(j), UNCHANGED request PROVE WorkspaceSurvives'
  BY <1>1, WorkspaceUntouched DEF Post
<1>2. ASSUME NEW j \in Jobs, Begin(j), UNCHANGED request PROVE WorkspaceSurvives'
  BY <1>2, WorkspaceUntouched DEF Begin
<1>3. ASSUME NEW j \in Jobs, ScanOk(j), UNCHANGED request PROVE WorkspaceSurvives'
  BY <1>3, WorkspaceUntouched DEF ScanOk, AfterSave
<1>4. ASSUME NEW j \in Jobs, ScanFails(j), UNCHANGED request PROVE WorkspaceSurvives'
  BY <1>4, WorkspaceUntouched DEF ScanFails
<1>5. ASSUME NEW j \in Jobs, SaveRun(j), UNCHANGED request PROVE WorkspaceSurvives'
  <2>1. Row(j, RunName, graph[j]) \in RowType /\ Row(j, RunName, graph[j]).name # WorkspaceName
    BY DEF Row, RowType, RunName, WorkspaceName
  <2>2. LatestNamed(rows', WorkspaceName) = LatestNamed(rows, WorkspaceName)
    BY <1>5, <2>1, SaveProperties DEF SaveRun
  <2> QED
    BY <1>5, <2>2, WorkspaceUntouched DEF SaveRun
<1>6. ASSUME NEW j \in Jobs, Look(j), UNCHANGED request PROVE WorkspaceSurvives'
  BY <1>6, WorkspaceUntouched DEF Look
<1>7. ASSUME NEW j \in Jobs, Load(j), UNCHANGED request PROVE WorkspaceSurvives'
  <2>1. UNCHANGED <<rows, merged, torn>>
    BY <1>7 DEF Load
  <2>2. Go(j, "load", "delete") \/ Go(j, "load", "settle")
    BY <1>7 DEF Load
  <2> QED
    BY <2>1, <2>2, WorkspaceUntouched
<1>8. ASSUME NEW j \in Jobs, Delete(j), UNCHANGED request PROVE WorkspaceSurvives'
  BY <1>8 DEF Delete, WorkspaceSurvives
<1>9. ASSUME NEW j \in Jobs, Insert(j), UNCHANGED request PROVE WorkspaceSurvives'
  <2>1. /\ Row(j, WorkspaceName, graph[j]) \in RowType
        /\ Row(j, WorkspaceName, graph[j]).name = WorkspaceName
    BY DEF Row, RowType
  <2>2. LatestNamed(rows', WorkspaceName) # {}
    BY <1>9, <2>1, SaveProperties DEF Insert
  <2> QED
    BY <2>2 DEF WorkspaceSurvives
<1>10. ASSUME NEW j \in Jobs, StoreFails(j), UNCHANGED request PROVE WorkspaceSurvives'
  BY <1>10, WorkspaceUntouched DEF StoreFails
<1>11. ASSUME NEW j \in Jobs, Settle(j), UNCHANGED request PROVE WorkspaceSurvives'
  BY <1>11, WorkspaceUntouched DEF Settle
<1>12. CASE Crash /\ UNCHANGED request
  BY <1>12, WorkspaceUntouched DEF Crash
<1>13. CASE UNCHANGED vars
  BY <1>13, WorkspaceUntouched DEF vars
<1>14. ASSUME NEW j \in Jobs, Panic(j), UNCHANGED request PROVE WorkspaceSurvives'
  BY <1>14, WorkspaceUntouched DEF Panic
<1> QED
  BY <1>1, <1>2, <1>3, <1>4, <1>5, <1>6, <1>7, <1>8, <1>9, <1>10, <1>11, <1>12, <1>13, <1>14 DEF Next, Task

-----------------------------------------------------------------------------
(* Merges that do not overlap lose nothing. *)

LEMMA MergesInit == Init => Merges /\ SerialMergesAccumulate
BY DEF Init, Merges, SerialMergesAccumulate, Merging

\* A step that leaves the workspace alone and starts or goes on with no merge.
LEMMA MergesUntouched ==
  ASSUME Merges, overlapped => overlapped',
         LatestNamed(rows', WorkspaceName) = LatestNamed(rows, WorkspaceName),
         \A k \in Jobs : phase'[k] \in Merging =>
           phase[k] = phase'[k] /\ found'[k] = found[k] /\ graph'[k] = graph[k]
  PROVE  Merges'
<1>1. Workspace' = Workspace
  BY DEF Workspace
<1> QED
  BY <1>1 DEF Merges, Merging

\* A merge that finds no other one running has the workspace to itself.
LEMMA MergesStep ==
  ASSUME Types, Merges, [Next]_vars
  PROVE  Merges'
<1> USE DEF store, task, index, Go, Phases, Steps, Merging, Types
<1>1. ASSUME NEW j \in Jobs, Post(j), UNCHANGED request PROVE Merges'
  BY <1>1, MergesUntouched DEF Post
<1>2. ASSUME NEW j \in Jobs, Begin(j), UNCHANGED request PROVE Merges'
  BY <1>2, MergesUntouched DEF Begin
<1>3. ASSUME NEW j \in Jobs, ScanOk(j), UNCHANGED request PROVE Merges'
  BY <1>3, MergesUntouched DEF ScanOk, AfterSave
<1>4. ASSUME NEW j \in Jobs, ScanFails(j), UNCHANGED request PROVE Merges'
  BY <1>4, MergesUntouched DEF ScanFails
<1>5. ASSUME NEW j \in Jobs, SaveRun(j), UNCHANGED request PROVE Merges'
  <2>1. Row(j, RunName, graph[j]) \in RowType /\ Row(j, RunName, graph[j]).name # WorkspaceName
    BY DEF Row, RowType, RunName, WorkspaceName
  <2>2. LatestNamed(rows', WorkspaceName) = LatestNamed(rows, WorkspaceName)
    BY <1>5, <2>1, SaveProperties DEF SaveRun
  <2> QED
    BY <1>5, <2>2, MergesUntouched DEF SaveRun, AfterSave
<1>6. ASSUME NEW j \in Jobs, Look(j), UNCHANGED request PROVE Merges'
  <2> SUFFICES ASSUME ~overlapped' PROVE Merges'
    BY DEF Merges
  <2>1. ~overlapped /\ \A k \in Jobs : phase[k] \notin Merging
    BY <1>6 DEF Look
  <2>2. /\ \A k \in Jobs \ {j} : phase'[k] = phase[k]
        /\ UNCHANGED <<rows, graph>> /\ found'[j] = LatestNamed(rows, WorkspaceName)
        /\ phase'[j] = IF found'[j] = {} THEN "delete" ELSE "load"
    BY <1>6 DEF Look
  <2>3. phase'[j] = "delete" => Workspace' = {}
    BY <2>2 DEF Workspace
  <2> QED
    BY <2>1, <2>2, <2>3 DEF Merges
<1>7. ASSUME NEW j \in Jobs, Load(j), UNCHANGED request PROVE Merges'
  <2> SUFFICES ASSUME ~overlapped' PROVE Merges'
    BY DEF Merges
  <2>1. PICK row \in found[j] :
          \/ Go(j, "load", "delete") /\ graph' = [graph EXCEPT ![j] = @ \cup row.graph]
          \/ Go(j, "load", "settle") /\ UNCHANGED graph
    BY <1>7 DEF Load
  <2>2. UNCHANGED <<found, rows, overlapped>>
    BY <1>7 DEF Load
  <2>3. /\ \A k \in Jobs \ {j} : phase[k] \notin Merging
        /\ found[j] = LatestNamed(rows, WorkspaceName) /\ phase[j] = "load"
    BY <2>1, <2>2 DEF Merges
  <2>4. Workspace' = row.graph
    <3>1. LatestNamed(rows, WorkspaceName) = {row}
      BY <2>1, <2>3
    <3> QED
      BY <2>2, <3>1 DEF Workspace
  <2>5. \A k \in Jobs \ {j} : phase'[k] \notin Merging
    BY <2>1, <2>3
  <2> QED
    BY <2>1, <2>4, <2>5 DEF Merges
<1>8. ASSUME NEW j \in Jobs, Delete(j), UNCHANGED request PROVE Merges'
  <2> SUFFICES ASSUME ~overlapped' PROVE Merges'
    BY DEF Merges
  <2>1. \A k \in Jobs \ {j} : phase[k] \notin Merging
    BY <1>8 DEF Delete, Merges
  <2>2. Workspace' = {}
    BY <1>8, DeleteProperties DEF Delete, Workspace
  <2> QED
    BY <1>8, <2>1, <2>2 DEF Delete, Merges
<1>9. ASSUME NEW j \in Jobs, Insert(j), UNCHANGED request PROVE Merges'
  <2> SUFFICES ASSUME ~overlapped' PROVE Merges'
    BY DEF Merges
  <2>1. \A k \in Jobs : phase'[k] \notin Merging
    BY <1>9 DEF Insert, Merges
  <2> QED
    BY <2>1 DEF Merges
<1>10. ASSUME NEW j \in Jobs, StoreFails(j), UNCHANGED request PROVE Merges'
  BY <1>10, MergesUntouched DEF StoreFails
<1>11. ASSUME NEW j \in Jobs, Settle(j), UNCHANGED request PROVE Merges'
  BY <1>11, MergesUntouched DEF Settle, Drop
<1>12. CASE Crash /\ UNCHANGED request
  BY <1>12, MergesUntouched DEF Crash, Drop
<1>13. CASE UNCHANGED vars
  BY <1>13, MergesUntouched DEF vars
<1>14. ASSUME NEW j \in Jobs, Panic(j), UNCHANGED request PROVE Merges'
  BY <1>14, MergesUntouched DEF Panic, Drop
<1> QED
  BY <1>1, <1>2, <1>3, <1>4, <1>5, <1>6, <1>7, <1>8, <1>9, <1>10, <1>11, <1>12, <1>13, <1>14 DEF Next, Task

\* A step that leaves the workspace and what is about to be inserted alone, or
\* tears a merge.
LEMMA SerialUntouched ==
  ASSUME SerialMergesAccumulate, overlapped => overlapped', torn => torn',
         UNCHANGED merged,
         LatestNamed(rows', WorkspaceName) = LatestNamed(rows, WorkspaceName),
         ~torn' => \A k \in Jobs : phase[k] = "insert" =>
                     phase'[k] = "insert" /\ graph'[k] = graph[k]
  PROVE  SerialMergesAccumulate'
<1> SUFFICES ASSUME ~overlapped', ~torn', NEW a \in merged
             PROVE  \/ a \in Workspace'
                    \/ \E k \in Jobs : phase'[k] = "insert" /\ a \in graph'[k]
  BY DEF SerialMergesAccumulate, Inserting
<1>1. Workspace' = Workspace
  BY DEF Workspace
<1>2. a \in Workspace \/ \E k \in Jobs : phase[k] = "insert" /\ a \in graph[k]
  BY DEF SerialMergesAccumulate, Inserting
<1> QED
  BY <1>1, <1>2

\* What the only merge takes out of the workspace it puts back, with its own.
LEMMA SerialStep ==
  ASSUME Types, Truth, Merges, SerialMergesAccumulate, [Next]_vars
  PROVE  SerialMergesAccumulate'
<1> USE DEF store, task, index, Go, Phases, Steps, Merging, Types
<1>1. ASSUME NEW j \in Jobs, Post(j), UNCHANGED request PROVE SerialMergesAccumulate'
  BY <1>1, SerialUntouched DEF Post
<1>2. ASSUME NEW j \in Jobs, Begin(j), UNCHANGED request PROVE SerialMergesAccumulate'
  BY <1>2, SerialUntouched DEF Begin
<1>3. ASSUME NEW j \in Jobs, ScanOk(j), UNCHANGED request PROVE SerialMergesAccumulate'
  BY <1>3, SerialUntouched DEF ScanOk, AfterSave
<1>4. ASSUME NEW j \in Jobs, ScanFails(j), UNCHANGED request PROVE SerialMergesAccumulate'
  BY <1>4, SerialUntouched DEF ScanFails
<1>5. ASSUME NEW j \in Jobs, SaveRun(j), UNCHANGED request PROVE SerialMergesAccumulate'
  <2>1. Row(j, RunName, graph[j]) \in RowType /\ Row(j, RunName, graph[j]).name # WorkspaceName
    BY DEF Row, RowType, RunName, WorkspaceName
  <2>2. LatestNamed(rows', WorkspaceName) = LatestNamed(rows, WorkspaceName)
    BY <1>5, <2>1, SaveProperties DEF SaveRun
  <2> QED
    BY <1>5, <2>2, SerialUntouched DEF SaveRun, AfterSave
<1>6. ASSUME NEW j \in Jobs, Look(j), UNCHANGED request PROVE SerialMergesAccumulate'
  BY <1>6, SerialUntouched DEF Look
<1>7. ASSUME NEW j \in Jobs, Load(j), UNCHANGED request PROVE SerialMergesAccumulate'
  <2>1. UNCHANGED <<rows, merged, overlapped, torn>>
    BY <1>7 DEF Load
  <2>2. /\ Go(j, "load", "delete") \/ Go(j, "load", "settle")
        /\ \A k \in Jobs \ {j} : graph'[k] = graph[k]
    BY <1>7 DEF Load
  <2> QED
    BY <2>1, <2>2, SerialUntouched
<1>8. ASSUME NEW j \in Jobs, Delete(j), UNCHANGED request PROVE SerialMergesAccumulate'
  <2> SUFFICES ASSUME ~overlapped', ~torn', NEW a \in merged
               PROVE  \E k \in Jobs : phase'[k] = "insert" /\ a \in graph'[k]
    BY <1>8 DEF Delete, SerialMergesAccumulate, Inserting
  <2>1. ~overlapped /\ ~torn /\ UNCHANGED graph /\ phase[j] = "delete" /\ phase'[j] = "insert"
    BY <1>8 DEF Delete
  <2>2. \A k \in Jobs : phase[k] # "insert"
    BY <2>1 DEF Merges
  <2>3. a \in Workspace /\ Workspace \subseteq graph[j]
    BY <2>1, <2>2 DEF Merges, SerialMergesAccumulate, Inserting
  <2> QED
    BY <2>1, <2>3
<1>9. ASSUME NEW j \in Jobs, Insert(j), UNCHANGED request PROVE SerialMergesAccumulate'
  <2> SUFFICES ASSUME ~overlapped', ~torn', NEW a \in merged'
               PROVE  a \in Workspace'
    BY DEF SerialMergesAccumulate
  <2>1. /\ ~overlapped /\ ~torn /\ phase[j] = "insert"
        /\ merged' = merged \cup {j}
    BY <1>9 DEF Insert
  <2>2. \A k \in Jobs : phase[k] = "insert" => k = j
    BY <2>1 DEF Merges
  <2>3. Workspace \subseteq graph[j] /\ j \in graph[j]
    BY <2>1 DEF Merges, Truth, TaskIsTrue
  <2>4. a \in graph[j]
    BY <2>1, <2>2, <2>3 DEF SerialMergesAccumulate, Inserting
  <2>5. /\ Row(j, WorkspaceName, graph[j]) \in RowType
        /\ Row(j, WorkspaceName, graph[j]).name = WorkspaceName
        /\ Row(j, WorkspaceName, graph[j]).graph = graph[j]
    BY DEF Row, RowType
  <2>6. LatestNamed(rows', WorkspaceName) = {Row(j, WorkspaceName, graph[j])}
    BY <1>9, <2>5, SaveProperties DEF Insert
  <2> QED
    BY <2>4, <2>5, <2>6 DEF Workspace
<1>10. ASSUME NEW j \in Jobs, StoreFails(j), UNCHANGED request PROVE SerialMergesAccumulate'
  BY <1>10, SerialUntouched DEF StoreFails
<1>11. ASSUME NEW j \in Jobs, Settle(j), UNCHANGED request PROVE SerialMergesAccumulate'
  BY <1>11, SerialUntouched DEF Settle, Drop
<1>12. CASE Crash /\ UNCHANGED request
  BY <1>12, SerialUntouched DEF Crash, Drop
<1>13. CASE UNCHANGED vars
  BY <1>13, SerialUntouched DEF vars
<1>14. ASSUME NEW j \in Jobs, Panic(j), UNCHANGED request PROVE SerialMergesAccumulate'
  BY <1>14, SerialUntouched DEF Panic, Drop
<1> QED
  BY <1>1, <1>2, <1>3, <1>4, <1>5, <1>6, <1>7, <1>8, <1>9, <1>10, <1>11, <1>12, <1>13, <1>14 DEF Next, Task

-----------------------------------------------------------------------------
\* The invariant that the others follow from holds in every reachable state.
THEOREM Invariance == Spec => []IInv
<1>1. Init => IInv
  <2>1. Init => Index
    BY IndexOfNothing DEF Init
  <2> QED
    BY <2>1, TypesInit, TruthInit, SurvivesInit, MergesInit DEF IInv
<1>2. IInv /\ [Next]_vars => IInv'
  <2> SUFFICES ASSUME IInv, [Next]_vars PROVE IInv'
    OBVIOUS
  <2> USE DEF IInv
  <2>1. Types'
    BY TypesStep
  <2>2. Index' /\ Truth'
    BY <2>1, IndexStep, TruthStep
  <2>3. WorkspaceSurvives' /\ Merges' /\ SerialMergesAccumulate'
    BY SurvivesStep, MergesStep, SerialStep
  <2> QED
    BY <2>1, <2>2, <2>3
<1> QED
  BY <1>1, <1>2, PTL DEF Spec

\* Every state of the server is well typed, and a task never holds two rows.
THEOREM TypeCorrect == Spec => []TypeOK
<1>1. IInv => TypeOK
  <2> SUFFICES ASSUME IInv PROVE TypeOK
    OBVIOUS
  <2>1. Types
    BY DEF IInv
  <2>2. ASSUME NEW j \in Jobs PROVE Cardinality(found[j]) <= 1
    <3>1. CASE found[j] = {}
      BY <3>1, FS_EmptySet
    <3>2. CASE found[j] # {}
      <4>1. PICK r \in found[j] : found[j] = {r}
        BY <2>1, <3>2 DEF Types
      <4> QED
        BY <4>1, FS_Singleton
    <3> QED
      BY <3>1, <3>2
  <2>3. \A j \in DOMAIN table : table[j].status \in Statuses /\ table[j].run_id \in BOOLEAN
    BY <2>1 DEF Types, Records
  <2> QED
    BY <2>1, <2>2, <2>3 DEF Types, TypeOK
<1> QED
  BY <1>1, Invariance, PTL

\* The two halves of the job table agree and stay within MAX_JOBS (spawn_job).
THEOREM TableIsIndexed == Spec => []IndexMatches
<1>1. IInv => IndexMatches
  <2> SUFFICES ASSUME Types, Index PROVE IndexMatches
    BY DEF IInv
  <2>1. \A k \in DOMAIN order : order[k] \in Jobs
    BY ElementOfSeq, LenProperties DEF Types
  <2>2. \A i : i \in ToSet(order) <=> i \in DOMAIN table
    BY <2>1 DEF ToSet, Index, Types
  <2> QED
    BY <2>2 DEF Index, IndexMatches
<1> QED
  BY <1>1, Invariance, PTL

\* What a record says of a job is what the store has of it (run_quiet_job).
THEOREM RecordsAreTrue == Spec => []OutcomeIsTrue
<1>1. IInv => OutcomeIsTrue
  BY DEF IInv, Truth, RecordIsTrue, HasRun, OutcomeIsTrue
<1> QED
  BY <1>1, Invariance, PTL

\* A record that is not settled has a task that goes on, unless it panicked: no
\* way out of a task but the panic leaves the record as it is (spawn_job).
THEOREM UnsettledRunsOn ==
  Spec => [](\A j \in DOMAIN table :
               table[j].status \notin Terminal => phase[j] \in Steps \cup {"panicked"})
<1>1. IInv => \A j \in DOMAIN table :
                table[j].status \notin Terminal => phase[j] \in Steps \cup {"panicked"}
  BY DEF IInv, Truth, RecordIsTrue
<1> QED
  BY <1>1, Invariance, PTL

\* Unless a merge is torn a workspace stays (upsert_workspace).
THEOREM WorkspaceStays == Spec => []WorkspaceSurvives
<1>1. IInv => WorkspaceSurvives
  BY DEF IInv
<1> QED
  BY <1>1, Invariance, PTL

\* Merges that neither overlap nor are torn accumulate (merge_and_save).
THEOREM MergesAccumulate == Spec => []SerialMergesAccumulate
<1>1. IInv => SerialMergesAccumulate
  BY DEF IInv
<1> QED
  BY <1>1, Invariance, PTL
=============================================================================
