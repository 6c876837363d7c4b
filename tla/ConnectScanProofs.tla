------------------------- MODULE ConnectScanProofs --------------------------
(***************************************************************************)
(* Theorems about ConnectScan, for every finite set of pairs, every        *)
(* concurrency and every number of retries.                                *)
(*                                                                         *)
(* ResultConservation and PermitAccounting are not inductive by            *)
(* themselves: IInv adds what the counters are worth (Counting), what the  *)
(* sequencing of main and collector implies (Sequencing) and why a pair    *)
(* may be missing (SkippedOnlyIfCancelled).                                *)
(***************************************************************************)
EXTENDS ConnectScan, FiniteSetTheorems, TLAPS

\* An outcome is recorded for a pair exactly when its future has sent it, and
\* the counters count the outcomes.
Counting ==
  /\ \A t \in Targets : outcome[t] # NoResult <=> stage[t] = "sent"
  /\ tally = Tally(outcome)

\* drop(tx) comes after the last future, the collector ends after the last
\* message, Stats after the collector.
Sequencing ==
  /\ main # "scanning" => \A t \in Targets : stage[t] \in {"sent", "skipped"}
  /\ collector = "ended" =>
       /\ main # "scanning"
       /\ \A t \in Targets : channel[t] = 0
  /\ main = "done" => collector = "ended"

SkippedOnlyIfCancelled ==
  \A t \in Targets : stage[t] = "skipped" => cancelled

\* for_each_concurrent's limit, which keeps a permit free for every future
\* that asks for one.
Admission ==
  /\ permits + Cardinality(InStage(Holding)) = Concurrency
  /\ Cardinality(InStage(Active)) <= Concurrency

IInv ==
  /\ TypeOK
  /\ ResultConservation
  /\ Counting
  /\ Sequencing
  /\ SkippedOnlyIfCancelled
  /\ Admission

-----------------------------------------------------------------------------
(* Cardinalities of the sets of futures in given stages. *)

\* The futures in some stages form a finite set.
LEMMA InStageFinite ==
  ASSUME NEW S
  PROVE  /\ IsFiniteSet(InStage(S))
         /\ Cardinality(InStage(S)) \in Nat
  BY TargetsFinite, FS_Subset, FS_CardinalityType DEF InStage

\* A step of one future adds it to the futures in the stages S, removes it or
\* leaves their number alone (used for Active and for Holding).
LEMMA InStageMove ==
  ASSUME NEW S, NEW t \in Targets, stage \in [Targets -> Stages],
         NEW from, NEW to, Move(t, from, to)
  PROVE  Cardinality(InStage(S))' =
           Cardinality(InStage(S))
             + (IF to \in S THEN 1 ELSE 0) - (IF from \in S THEN 1 ELSE 0)
<1> DEFINE A == InStage(S)
           B == InStage(S)'
<1>1. IsFiniteSet(A) /\ Cardinality(A) \in Nat
  BY InStageFinite
<1>2. stage' = [stage EXCEPT ![t] = to] /\ stage[t] = from
  BY DEF Move
<1>3. B = IF to \in S THEN A \cup {t} ELSE A \ {t}
  BY <1>2 DEF InStage
<1>4. t \in A <=> from \in S
  BY <1>2 DEF InStage
<1>5. /\ Cardinality(A \cup {t}) = IF t \in A THEN Cardinality(A) ELSE Cardinality(A) + 1
      /\ Cardinality(A \ {t}) = IF t \in A THEN Cardinality(A) - 1 ELSE Cardinality(A)
  BY <1>1, FS_AddElement, FS_RemoveElement
<1>6. Cardinality(B) = Cardinality(A)
             + (IF to \in S THEN 1 ELSE 0) - (IF from \in S THEN 1 ELSE 0)
  BY <1>1, <1>3, <1>4, <1>5
<1>7. QED
  BY <1>6

\* Counting one more outcome adds one to its state's counter, if the pair had
\* none.
LEMMA TallyOneMore ==
  ASSUME NEW found \in [Targets -> States \cup {NoResult}],
         NEW t \in Targets, NEW s \in States, found[t] = NoResult,
         NEW after, after = [found EXCEPT ![t] = s]
  PROVE  \A r \in States :
           Tally(after)[r] = IF r = s THEN Tally(found)[r] + 1 ELSE Tally(found)[r]
<1> DEFINE In(f, r) == {u \in Targets : f[u] = r}
<1>1. \A r \in States : r # NoResult
  BY DEF States, NoResult
<1>2. \A r \in States : IsFiniteSet(In(found, r)) /\ Cardinality(In(found, r)) \in Nat
  BY TargetsFinite, FS_Subset, FS_CardinalityType
<1>3. ASSUME NEW r \in States
      PROVE  Cardinality(In(after, r)) =
               IF r = s THEN Cardinality(In(found, r)) + 1
                        ELSE Cardinality(In(found, r))
  <2>1. CASE r = s
    <3>1. In(after, r) = In(found, r) \cup {t}
      BY <2>1
    <3>2. t \notin In(found, r)
      BY <1>1
    <3>3. QED
      BY <2>1, <3>1, <3>2, <1>2, FS_AddElement
  <2>2. CASE r # s
    <3>1. In(after, r) = In(found, r)
      BY <2>2, <1>1
    <3>2. QED
      BY <2>2, <3>1
  <2>3. QED
    BY <2>1, <2>2
<1>4. QED
  BY <1>3 DEF Tally

LEMMA TallyType ==
  ASSUME NEW found
  PROVE  Tally(found) \in [States -> Nat]
  BY TargetsFinite, FS_Subset, FS_CardinalityType DEF Tally

-----------------------------------------------------------------------------
LEMMA InitIInv == Init => IInv
<1> SUFFICES ASSUME Init PROVE IInv
  OBVIOUS
<1>1. \A S : "queued" \notin S => InStage(S) = {}
  BY DEF Init, InStage
<1>2. InStage(Holding) = {} /\ InStage(Active) = {}
  BY <1>1 DEF Holding, Active
<1>3. Cardinality({}) = 0
  BY FS_EmptySet
<1>4. \A s \in States : {t \in Targets : outcome[t] = s} = {}
  BY DEF Init, States, NoResult
<1>5. tally = Tally(outcome)
  BY <1>3, <1>4 DEF Init, Tally
<1>6. TypeOK
  BY ConcurrencyPositive, RetriesNatural DEF Init, TypeOK, Stages, States
<1>7. Admission
  BY <1>2, <1>3, ConcurrencyPositive DEF Admission, Init
<1>8. QED
  BY <1>5, <1>6, <1>7
     DEF Init, IInv, ResultConservation, Counting, Sequencing,
         SkippedOnlyIfCancelled, NoResult

\* How a step of one future changes the two numbers Admission is about.
LEMMA MoveCounts ==
  ASSUME TypeOK, NEW t \in Targets, NEW from, NEW to, Move(t, from, to)
  PROVE  LET h == Cardinality(InStage(Holding))
             a == Cardinality(InStage(Active))
         IN  /\ h \in Nat /\ a \in Nat /\ h' \in Nat /\ a' \in Nat
             /\ h' = h + (IF to \in Holding THEN 1 ELSE 0)
                       - (IF from \in Holding THEN 1 ELSE 0)
             /\ a' = a + (IF to \in Active THEN 1 ELSE 0)
                       - (IF from \in Active THEN 1 ELSE 0)
<1>1. stage \in [Targets -> Stages]
  BY DEF TypeOK
<1>2. \A S : Cardinality(InStage(S)) \in Nat /\ Cardinality(InStage(S))' \in Nat
  BY TargetsFinite, FS_Subset, FS_CardinalityType DEF InStage
<1>3. QED
  BY <1>1, <1>2, InStageMove

\* A waiting future finds a permit: it is active and holds none.
LEMMA PermitForWaiting ==
  ASSUME TypeOK, Admission
  PROVE  InStage({"waiting"}) # {} => permits > 0
<1> SUFFICES ASSUME NEW t \in InStage({"waiting"}) PROVE permits > 0
  OBVIOUS
<1> DEFINE H == InStage(Holding)
           A == InStage(Active)
<1>1. IsFiniteSet(A) /\ Cardinality(H) \in Nat /\ Cardinality(A) \in Nat
  BY InStageFinite
<1>2. H \in SUBSET A /\ t \in A /\ t \notin H
  BY DEF InStage, Holding, Active
<1>3. Cardinality(H) < Cardinality(A)
  BY <1>1, <1>2, FS_Subset
<1>4. QED
  BY <1>1, <1>3, ConcurrencyPositive DEF Admission, TypeOK

-----------------------------------------------------------------------------
(* One lemma per kind of step of a future: the invariant is kept. In each,
   Admission follows from MoveCounts and the rest from the guards. *)

LEMMA SpawnIInv ==
  ASSUME IInv, NEW t \in Targets, Spawn(t),
         UNCHANGED <<emitted, collector, main, cancelled, report>>
  PROVE  IInv'
<1> USE DEF IInv, Spawn
<1>1. TypeOK'
  BY DEF TypeOK, Move, Stages
<1>2. Admission'
  BY MoveCounts, ConcurrencyPositive DEF Admission, Holding, Active, TypeOK
<1>3. ResultConservation' /\ Counting'
  BY DEF ResultConservation, Counting, Move, TypeOK, Tally
<1>4. Sequencing' /\ SkippedOnlyIfCancelled'
  BY DEF Sequencing, SkippedOnlyIfCancelled, Move, TypeOK
<1>5. QED
  BY <1>1, <1>2, <1>3, <1>4

LEMMA StartIInv ==
  ASSUME IInv, NEW t \in Targets, Start(t),
         UNCHANGED <<emitted, collector, main, cancelled, report>>
  PROVE  IInv'
<1> DEFINE to == IF cancelled THEN "skipped" ELSE "waiting"
<1>0. /\ Move(t, "spawned", to)
      /\ UNCHANGED <<attempts, outcome, permits, tally, channel>>
  BY DEF Start
<1> USE DEF IInv
<1>1. TypeOK'
  BY <1>0 DEF TypeOK, Move, Stages
<1>2. Admission'
  BY <1>0, MoveCounts, ConcurrencyPositive DEF Admission, Holding, Active, TypeOK
<1>3. ResultConservation' /\ Counting'
  BY <1>0 DEF ResultConservation, Counting, Move, TypeOK, Tally
<1>4. Sequencing' /\ SkippedOnlyIfCancelled'
  BY <1>0 DEF Sequencing, SkippedOnlyIfCancelled, Move, TypeOK
<1>5. QED
  BY <1>1, <1>2, <1>3, <1>4

LEMMA AcquireIInv ==
  ASSUME IInv, NEW t \in Targets, Acquire(t),
         UNCHANGED <<emitted, collector, main, cancelled, report>>
  PROVE  IInv'
<1> USE DEF IInv, Acquire
<1>1. TypeOK'
  BY ConcurrencyPositive DEF TypeOK, Move, Stages
<1>2. Admission'
  BY MoveCounts, ConcurrencyPositive DEF Admission, Holding, Active, TypeOK
<1>3. ResultConservation' /\ Counting'
  BY DEF ResultConservation, Counting, Move, TypeOK, Tally
<1>4. Sequencing' /\ SkippedOnlyIfCancelled'
  BY DEF Sequencing, SkippedOnlyIfCancelled, Move, TypeOK
<1>5. QED
  BY <1>1, <1>2, <1>3, <1>4

LEMMA ConnectIInv ==
  ASSUME IInv, NEW t \in Targets, Connect(t),
         UNCHANGED <<emitted, collector, main, cancelled, report>>
  PROVE  IInv'
<1> USE DEF IInv, Connect
<1>1. TypeOK'
  BY RetriesNatural DEF TypeOK, Move, Stages
<1>2. Admission'
  BY MoveCounts, ConcurrencyPositive DEF Admission, Holding, Active, TypeOK
<1>3. ResultConservation' /\ Counting'
  BY DEF ResultConservation, Counting, Move, TypeOK, Tally
<1>4. Sequencing' /\ SkippedOnlyIfCancelled'
  BY DEF Sequencing, SkippedOnlyIfCancelled, Move, TypeOK
<1>5. QED
  BY <1>1, <1>2, <1>3, <1>4

LEMMA GiveUpIInv ==
  ASSUME IInv, NEW t \in Targets, GiveUp(t),
         UNCHANGED <<emitted, collector, main, cancelled, report>>
  PROVE  IInv'
<1> USE DEF IInv, GiveUp
<1>1. Admission'
  BY MoveCounts, ConcurrencyPositive DEF Admission, Holding, Active, TypeOK
<1>2. permits' \in 0 .. Concurrency
  BY <1>1, MoveCounts, ConcurrencyPositive DEF Admission, TypeOK
<1>3. TypeOK'
  BY <1>2 DEF TypeOK, Move, Stages
<1>4. ResultConservation' /\ Counting'
  BY DEF ResultConservation, Counting, Move, TypeOK, Tally
<1>5. Sequencing' /\ SkippedOnlyIfCancelled'
  BY DEF Sequencing, SkippedOnlyIfCancelled, Move, TypeOK
<1>6. QED
  BY <1>1, <1>3, <1>4, <1>5

LEMMA RetryIInv ==
  ASSUME IInv, NEW t \in Targets, Retry(t),
         UNCHANGED <<emitted, collector, main, cancelled, report>>
  PROVE  IInv'
<1> USE DEF IInv, Retry, MayRetry
<1>1. TypeOK'
  BY RetriesNatural DEF TypeOK
<1>2. Admission'
  BY DEF Admission, InStage
<1>3. ResultConservation' /\ Counting' /\ Sequencing' /\ SkippedOnlyIfCancelled'
  BY DEF ResultConservation, Counting, Tally, Sequencing, SkippedOnlyIfCancelled
<1>4. QED
  BY <1>1, <1>2, <1>3

LEMMA FinishIInv ==
  ASSUME IInv, NEW t \in Targets, NEW s \in States, Finish(t, s),
         UNCHANGED <<emitted, collector, main, cancelled, report>>
  PROVE  IInv'
<1> USE DEF IInv, Finish
<1>0. stage[t] = "probing" /\ outcome[t] = NoResult /\ s # NoResult
  BY DEF Counting, Move, States, NoResult
<1>1. Admission'
  BY MoveCounts, ConcurrencyPositive DEF Admission, Holding, Active, TypeOK
<1>2. permits' \in 0 .. Concurrency
  BY <1>1, MoveCounts, ConcurrencyPositive DEF Admission, TypeOK
<1>3. TypeOK'
  BY <1>2 DEF TypeOK, Move, Stages
<1>4. tally' = Tally(outcome')
  <2>1. outcome \in [Targets -> States \cup {NoResult}] /\ tally = Tally(outcome)
    BY DEF TypeOK, Counting
  <2>2. outcome' = [outcome EXCEPT ![t] = s] /\ tally' = [tally EXCEPT ![s] = @ + 1]
    OBVIOUS
  <2>3. \A r \in States :
          Tally(outcome')[r] = IF r = s THEN Tally(outcome)[r] + 1
                                        ELSE Tally(outcome)[r]
    <3>1. \A after : after = [outcome EXCEPT ![t] = s] =>
            \A r \in States :
              Tally(after)[r] = IF r = s THEN Tally(outcome)[r] + 1
                                         ELSE Tally(outcome)[r]
      BY <1>0, <2>1, TallyOneMore
    <3>2. QED
      BY <2>2, <3>1
  <2>4. Tally(outcome') \in [States -> Nat] /\ tally \in [States -> Nat]
    BY TallyType DEF TypeOK
  <2>5. QED
    BY <2>1, <2>2, <2>3, <2>4
<1>5. Counting'
  BY <1>0, <1>4 DEF Counting, Move, TypeOK, Tally
<1>6. ResultConservation'
  BY <1>0 DEF ResultConservation, Move, TypeOK
<1>7. Sequencing' /\ SkippedOnlyIfCancelled'
  BY <1>0 DEF Sequencing, SkippedOnlyIfCancelled, Move, TypeOK
<1>8. QED
  BY <1>1, <1>3, <1>5, <1>6, <1>7

LEMMA ReceiveIInv ==
  ASSUME IInv, NEW t \in Targets, Receive(t)
  PROVE  IInv'
<1> USE DEF IInv, Receive
<1>1. TypeOK'
  BY DEF TypeOK
<1>2. Admission'
  BY DEF Admission, InStage
<1>3. ResultConservation'
  BY DEF ResultConservation, TypeOK
<1>4. Counting' /\ Sequencing' /\ SkippedOnlyIfCancelled'
  BY DEF Counting, Tally, Sequencing, SkippedOnlyIfCancelled
<1>5. QED
  BY <1>1, <1>2, <1>3, <1>4

\* No future is active or queued when the set of those is empty.
LEMMA NoneLeft ==
  ASSUME TypeOK, InStage(Active \cup {"queued"}) = {}
  PROVE  \A t \in Targets : stage[t] \in {"sent", "skipped"}
  BY DEF TypeOK, InStage, Active, Stages

LEMMA StepIInv == IInv /\ [Next]_vars => IInv'
<1> SUFFICES ASSUME IInv, [Next]_vars PROVE IInv'
  OBVIOUS
<1>1. CASE \E t \in Targets : Future(t)
  <2>1. PICK t \in Targets : Future(t)
    BY <1>1
  <2>2. UNCHANGED <<emitted, collector, main, cancelled, report>>
    BY <2>1 DEF Future
  <2>3. QED
    BY <2>1, <2>2, SpawnIInv, StartIInv, AcquireIInv, ConnectIInv, GiveUpIInv,
       RetryIInv, FinishIInv DEF Future
<1>2. CASE \E t \in Targets : Receive(t)
  BY <1>2, ReceiveIInv
<1>3. CASE CollectorEnds
  <2> USE <1>3 DEF CollectorEnds, futures
  <2>1. TypeOK' /\ Admission'
    BY DEF IInv, TypeOK, Admission, InStage
  <2>2. QED
    BY <2>1 DEF IInv, ResultConservation, Counting, Tally, Sequencing,
                SkippedOnlyIfCancelled
<1>4. CASE DropSender
  <2> USE <1>4 DEF DropSender, futures
  <2>1. TypeOK' /\ Admission'
    BY DEF IInv, TypeOK, Admission, InStage
  <2>2. Sequencing'
    BY NoneLeft DEF IInv, Sequencing
  <2>3. QED
    BY <2>1, <2>2 DEF IInv, ResultConservation, Counting, Tally,
                      SkippedOnlyIfCancelled
<1>5. CASE EmitStats
  <2> USE <1>5 DEF EmitStats, futures
  <2>1. TypeOK' /\ Admission'
    BY DEF IInv, TypeOK, Admission, InStage
  <2>2. QED
    BY <2>1 DEF IInv, ResultConservation, Counting, Tally, Sequencing,
                SkippedOnlyIfCancelled
<1>6. CASE Cancel
  <2> USE <1>6 DEF Cancel, futures
  <2>1. TypeOK' /\ Admission'
    BY DEF IInv, TypeOK, Admission, InStage
  <2>2. QED
    BY <2>1 DEF IInv, ResultConservation, Counting, Tally, Sequencing,
                SkippedOnlyIfCancelled
<1>7. CASE UNCHANGED vars
  BY <1>7 DEF vars, futures, IInv, TypeOK, Admission, InStage, ResultConservation,
              Counting, Tally, Sequencing, SkippedOnlyIfCancelled
<1>8. QED
  BY <1>1, <1>2, <1>3, <1>4, <1>5, <1>6, <1>7 DEF Next

-----------------------------------------------------------------------------
(* The theorems. *)

\* IInv is an invariant of the scan.
THEOREM Invariance == Spec => []IInv
  BY InitIInv, StepIInv, PTL DEF Spec

\* Type correctness: in particular a pair is never connected to more than
\* Retries + 1 times (the while loop of scan_emit).
THEOREM TypeCorrect == Spec => []TypeOK
<1>1. IInv => TypeOK
  BY DEF IInv
<1>2. QED
  BY <1>1, Invariance, PTL

\* Each result is in exactly one place: the channel or the events.
THEOREM Conservation == Spec => []ResultConservation
<1>1. IInv => ResultConservation
  BY DEF IInv
<1>2. QED
  BY <1>1, Invariance, PTL

\* Permits are neither leaked nor oversubscribed and never waited for.
THEOREM Permits == Spec => []PermitAccounting
<1>1. IInv => PermitAccounting
  BY PermitForWaiting DEF IInv, PermitAccounting, Admission
<1>2. QED
  BY <1>1, Invariance, PTL

\* No connect starts after a cancellation.
THEOREM CancelStopsConnects == Spec => NoConnectAfterCancel
<1>1. [Next]_vars => [cancelled => attempts' = attempts]_vars
  <2> SUFFICES ASSUME [Next]_vars, cancelled PROVE attempts' = attempts
    BY DEF vars
  <2>1. CASE \E t \in Targets : Future(t)
    BY <2>1 DEF Future, Spawn, Start, Acquire, Connect, GiveUp, Retry, MayRetry,
                Finish
  <2>2. CASE \E t \in Targets : Receive(t)
    BY <2>2 DEF Receive
  <2>3. CASE CollectorEnds \/ DropSender \/ EmitStats \/ Cancel \/ UNCHANGED vars
    BY <2>3 DEF CollectorEnds, DropSender, EmitStats, Cancel, vars, futures
  <2>4. QED
    BY <2>1, <2>2, <2>3 DEF Next
<1>2. QED
  BY <1>1, PTL DEF Spec, NoConnectAfterCancel

\* The connect scan implements the contract of the scanners: a Receive is a
\* Publish, EmitStats is Conclude, Cancel is Cancel, the rest stutters.
THEOREM Refinement == Spec => KeepsContract
<1>0. /\ Contract!States = States /\ Contract!NoResult = NoResult
      /\ \A found : Contract!Tally(found) = Tally(found)
  <2>1. \A S : Contract!Cardinality(S) = Cardinality(S)
    BY DEF Cardinality, Contract!Cardinality
  <2>2. QED
    BY <2>1 DEF Contract!States, States, Contract!NoResult, NoResult,
                Contract!Tally, Tally
<1>1. Init => Contract!Init
  <2> SUFFICES ASSUME Init PROVE Contract!Init
    OBVIOUS
  <2>1. Reported = [t \in Targets |-> Contract!NoResult]
    BY <1>0 DEF Init, Reported, NoResult
  <2>2. (main = "done") = FALSE
    BY DEF Init
  <2>3. QED
    BY <1>0, <2>1, <2>2 DEF Init, Contract!Init
<1>2. IInv /\ IInv' /\ [Next]_vars => [Contract!Next]_(Contract!vars)
  <2> SUFFICES ASSUME IInv, IInv', [Next]_vars
               PROVE  Contract!Next \/ UNCHANGED Contract!vars
    OBVIOUS
  <2> USE DEF Contract!Next, Contract!vars
  <2>1. CASE \E t \in Targets : Future(t)
    <3>1. PICK t \in Targets : Future(t)
      BY <2>1
    <3>2. UNCHANGED <<emitted, collector, main, cancelled, report>>
      BY <3>1 DEF Future
    <3>3. \A u \in Targets : emitted[u] = 1 => outcome'[u] = outcome[u]
      <4>1. emitted[t] = 1 => stage[t] = "sent"
        BY DEF IInv, ResultConservation, TypeOK
      <4>2. QED
        BY <3>1, <4>1 DEF Future, Spawn, Start, Acquire, Connect, GiveUp, Retry,
                          Finish, Move, IInv, TypeOK
    <3>4. Reported' = Reported
      BY <3>2, <3>3 DEF Reported
    <3>5. QED
      BY <3>2, <3>4
  <2>2. CASE \E t \in Targets : Receive(t)
    <3>1. PICK t \in Targets : Receive(t)
      BY <2>2
    <3>2. stage[t] = "sent" /\ emitted[t] = 0 /\ emitted' = [emitted EXCEPT ![t] = 1]
      <4>1. channel[t] > 0 /\ channel[t] \in Nat /\ emitted[t] \in Nat
        BY <3>1 DEF Receive, IInv, TypeOK
      <4>2. channel[t] + emitted[t] = IF stage[t] = "sent" THEN 1 ELSE 0
        BY DEF IInv, ResultConservation
      <4>3. stage[t] = "sent" /\ emitted[t] = 0
        BY <4>1, <4>2
      <4>4. QED
        BY <3>1, <4>3 DEF Receive
    <3>3. main # "done" /\ main' = main
      BY <3>1 DEF Receive, IInv, Sequencing
    <3>4. outcome[t] \in States
      BY <3>2 DEF IInv, Counting, TypeOK, NoResult, States
    <3>5. Reported' = [Reported EXCEPT ![t] = outcome[t]] /\ Reported[t] = NoResult
      <4>1. outcome' = outcome /\ emitted \in [Targets -> Nat]
        BY <3>1 DEF Receive, IInv, TypeOK
      <4>2. Reported[t] = NoResult
        BY <3>2 DEF Reported
      <4>3. \A u \in Targets :
              Reported'[u] = IF u = t THEN outcome[t] ELSE Reported[u]
        BY <3>2, <4>1 DEF Reported
      <4>4. QED
        BY <4>2, <4>3 DEF Reported
    <3>6. Contract!Publish(t, outcome[t])
      BY <1>0, <3>1, <3>3, <3>5 DEF Receive, Contract!Publish
    <3>7. QED
      BY <1>0, <3>4, <3>6
  <2>3. CASE EmitStats
    <3> USE <2>3 DEF EmitStats, futures
    <3>1. \A t \in Targets : stage[t] \in {"sent", "skipped"} /\ channel[t] = 0
      BY DEF IInv, Sequencing
    <3>2. \A t \in Targets : emitted[t] = IF stage[t] = "sent" THEN 1 ELSE 0
      BY <3>1 DEF IInv, ResultConservation, TypeOK
    <3>3. Reported = outcome
      BY <3>1, <3>2 DEF Reported, IInv, Counting, TypeOK
    <3>4. report' = Tally(Reported)
      BY <3>3 DEF IInv, Counting
    <3>5. cancelled \/ \A t \in Targets : Reported[t] # NoResult
      BY <3>1, <3>3 DEF IInv, Counting, SkippedOnlyIfCancelled
    <3>6. Reported' = Reported
      BY DEF Reported
    <3>7. Contract!Conclude
      <4>1. (main = "done") = FALSE /\ (main = "done")' = TRUE
        OBVIOUS
      <4>2. QED
        BY <1>0, <3>4, <3>5, <3>6, <4>1 DEF Contract!Conclude
    <3>8. QED
      BY <3>7
  <2>4. CASE Cancel
    <3>1. Reported' = Reported
      BY <2>4 DEF Cancel, futures, Reported
    <3>2. Contract!Cancel
      BY <2>4, <3>1 DEF Cancel, Contract!Cancel
    <3>3. QED
      BY <3>2
  <2>5. CASE CollectorEnds \/ DropSender \/ UNCHANGED vars
    <3>1. UNCHANGED <<emitted, outcome, cancelled, report>> /\ (main' = "done" <=> main = "done")
      BY <2>5 DEF CollectorEnds, DropSender, vars, futures
    <3>2. QED
      BY <3>1 DEF Reported
  <2>6. QED
    BY <2>1, <2>2, <2>3, <2>4, <2>5 DEF Next
<1>3. QED
  BY <1>1, <1>2, Invariance, PTL DEF Spec, KeepsContract, Contract!Spec

-----------------------------------------------------------------------------
(* Termination: every step uses one up, and until the end one is possible. *)

\* The steps of the future of t before its result is recorded, connects apart.
Rank(s) ==
  CASE s = "queued" -> 4
    [] s = "spawned" -> 3
    [] s = "waiting" -> 2
    [] s \in {"pacing", "probing"} -> 1
    [] OTHER -> 0

\* The steps a pair may still take: those, its connects, and its event.
StepsOf(t) == Rank(stage[t]) + (Retries + 1 - attempts[t]) + (1 - emitted[t])

AheadOfPairs == {step \in Targets \X (1 .. Retries + 6) : step[2] <= StepsOf(step[1])}

\* Those of scan_emit, the collector and whoever holds the token.
AheadOfTasks ==
  (CASE main = "scanning" -> 2 [] main = "joining" -> 1 [] OTHER -> 0)
    + (IF collector = "running" THEN 1 ELSE 0)
    + (IF cancelled THEN 0 ELSE 1)

StepsAhead == Cardinality(AheadOfPairs) + AheadOfTasks

\* Whatever the futures wait for and in whatever order they are polled, a scan
\* comes nearer to its end with every step: it cannot go round in circles, retry
\* for ever or report for ever (the while loop of scan_emit and its channel).
EveryStepCounts == [][StepsAhead' < StepsAhead]_vars

\* A scan that has not ended can go on: some future, the collector or scan_emit
\* finds what it waits for, so they never all wait for each other.
SomeoneGoesOn ==
  main # "done" =>
    \/ \E t \in Targets :
         \/ stage[t] \in {"spawned", "pacing", "probing"}
         \/ stage[t] = "waiting" /\ permits > 0
         \/ stage[t] = "queued" /\ main = "scanning"
              /\ Cardinality(InStage(Active)) < Concurrency
         \/ channel[t] > 0 /\ collector = "running"
    \/ main = "scanning" /\ InStage(Active \cup {"queued"}) = {}
    \/ main = "joining" /\ collector = "ended"
    \/ /\ collector = "running" /\ main # "scanning"
       /\ InStage(Active) = {} /\ \A t \in Targets : channel[t] = 0

\* A future that has not come to its first connect has tried none.
Untried ==
  \A t \in Targets :
    stage[t] \in {"queued", "spawned", "waiting", "pacing"} => attempts[t] = 0

LEMMA UntriedInvariant == Spec => []Untried
<1>1. Init => Untried
  BY DEF Init, Untried
<1>2. TypeOK /\ Untried /\ [Next]_vars => Untried'
  <2> SUFFICES ASSUME TypeOK, Untried, [Next]_vars PROVE Untried'
    OBVIOUS
  <2>1. CASE \E t \in Targets : Future(t)
    <3>1. PICK t \in Targets : Future(t)
      BY <2>1
    <3> QED
      BY <3>1 DEF Future, Spawn, Start, Acquire, Connect, GiveUp, Retry, Finish, Move,
                  TypeOK, Untried
  <2>2. CASE UNCHANGED <<stage, attempts>>
    BY <2>2 DEF Untried
  <2>3. [Next]_vars => (\E t \in Targets : Future(t)) \/ UNCHANGED <<stage, attempts>>
    BY DEF Next, Receive, CollectorEnds, DropSender, EmitStats, Cancel, vars, futures
  <2> QED
    BY <2>1, <2>2, <2>3
<1> QED
  BY <1>1, <1>2, TypeCorrect, PTL DEF Spec

LEMMA EmittedOnce == IInv => \A t \in Targets : emitted[t] \in 0 .. 1
<1> SUFFICES ASSUME IInv, NEW t \in Targets PROVE emitted[t] \in 0 .. 1
  OBVIOUS
<1>1. channel[t] \in Nat /\ emitted[t] \in Nat
  BY DEF IInv, TypeOK
<1>2. channel[t] + emitted[t] = 0 \/ channel[t] + emitted[t] = 1
  BY DEF IInv, ResultConservation
<1> QED
  BY <1>1, <1>2

StepsInRange == \A t \in Targets : StepsOf(t) \in 0 .. Retries + 6

LEMMA StepsOfType == IInv => StepsInRange
<1> SUFFICES ASSUME IInv, NEW t \in Targets PROVE StepsOf(t) \in 0 .. Retries + 6
  BY DEF StepsInRange
<1>1. Rank(stage[t]) \in 0 .. 4
  BY DEF Rank
<1>2. attempts[t] \in 0 .. Retries + 1
  BY DEF IInv, TypeOK
<1>3. emitted[t] \in 0 .. 1
  BY EmittedOnce
<1> QED
  BY <1>1, <1>2, <1>3, RetriesNatural DEF StepsOf

LEMMA AheadFinite ==
  /\ IsFiniteSet(AheadOfPairs)
  /\ Cardinality(AheadOfPairs) \in Nat
  /\ Cardinality(AheadOfPairs) <= Cardinality(Targets) * (Retries + 6)
<1> DEFINE P == Targets \X (1 .. Retries + 6)
<1>1. IsFiniteSet(1 .. Retries + 6) /\ Cardinality(1 .. Retries + 6) = Retries + 6
  BY FS_Interval, RetriesNatural
<1>2. IsFiniteSet(P) /\ Cardinality(P) = Cardinality(Targets) * (Retries + 6)
  BY <1>1, TargetsFinite, FS_Product
<1>3. AheadOfPairs \in SUBSET P
  BY DEF AheadOfPairs
<1> QED
  BY <1>2, <1>3, FS_Subset, FS_CardinalityType

\* One pair has fewer steps ahead and none has more.
LEMMA FewerAhead ==
  ASSUME IInv, IInv', NEW t \in Targets, StepsOf(t)' < StepsOf(t),
         \A u \in Targets : StepsOf(u)' <= StepsOf(u)
  PROVE  Cardinality(AheadOfPairs)' < Cardinality(AheadOfPairs)
<1> DEFINE A == AheadOfPairs
           B == AheadOfPairs'
<1>1. \A u \in Targets : StepsOf(u) \in 0 .. Retries + 6 /\ StepsOf(u)' \in 0 .. Retries + 6
  <2>1. StepsInRange /\ StepsInRange'
    BY StepsOfType, PTL
  <2> QED
    BY <2>1 DEF StepsInRange
<1>2. B \in SUBSET A
  BY <1>1, RetriesNatural DEF AheadOfPairs
<1>3. <<t, StepsOf(t)>> \in A /\ <<t, StepsOf(t)>> \notin B
  BY <1>1, RetriesNatural DEF AheadOfPairs
<1>4. IsFiniteSet(A) /\ Cardinality(A) \in Nat
  BY AheadFinite
<1>5. Cardinality(B) <= Cardinality(A) /\ (Cardinality(A) = Cardinality(B) => A = B)
  BY <1>2, <1>4, FS_Subset
<1>6. Cardinality(B) \in Nat
  BY <1>2, <1>4, FS_Subset, FS_CardinalityType
<1> QED
  BY <1>3, <1>4, <1>5, <1>6

\* A step of a future is one the future had ahead.
LEMMA FutureStep ==
  ASSUME IInv, Untried, NEW t \in Targets, Future(t)
  PROVE  /\ StepsOf(t)' < StepsOf(t)
         /\ \A u \in Targets : StepsOf(u)' <= StepsOf(u)
<1>1. /\ stage \in [Targets -> Stages]
      /\ attempts \in [Targets -> 0 .. Retries + 1]
      /\ \A u \in Targets : emitted[u] \in 0 .. 1
  BY EmittedOnce DEF IInv, TypeOK
<1>2. \A s : Rank(s) \in 0 .. 4
  BY DEF Rank
<1>3. emitted' = emitted
  BY DEF Future
<1>4. \/ /\ attempts' = attempts
         /\ \E from, to \in Stages : Move(t, from, to) /\ Rank(to) < Rank(from)
      \/ /\ attempts' = [attempts EXCEPT ![t] = attempts[t] + 1]
         /\ stage' = stage \/ Move(t, "pacing", "probing")
  BY <1>1 DEF Future, Spawn, Start, Acquire, Connect, GiveUp, Retry, Finish, Rank,
              Stages, Untried, Move
<1>5. CASE attempts' = attempts
           /\ \E from, to \in Stages : Move(t, from, to) /\ Rank(to) < Rank(from)
  <2>1. Rank(stage'[t]) < Rank(stage[t]) /\ \A u \in Targets \ {t} : stage'[u] = stage[u]
    BY <1>1, <1>5 DEF Move
  <2>2. Rank(stage[t]) \in 0 .. 4 /\ Rank(stage'[t]) \in 0 .. 4
    BY <1>2
  <2>3. StepsOf(t)' < StepsOf(t)
    BY <1>1, <1>3, <1>5, <2>1, <2>2, RetriesNatural DEF StepsOf
  <2>4. \A u \in Targets \ {t} : StepsOf(u)' = StepsOf(u)
    BY <1>3, <1>5, <2>1 DEF StepsOf
  <2>5. \A u \in Targets : StepsOf(u) \in Nat \/ StepsOf(u) \in Int
    BY <1>1, <1>2, RetriesNatural DEF StepsOf
  <2>6. StepsOf(t)' \in Int
    BY <1>1, <1>2, <1>3, <1>5, RetriesNatural DEF StepsOf
  <2> QED
    BY <2>3, <2>4, <2>5, <2>6
<1>6. CASE /\ attempts' = [attempts EXCEPT ![t] = attempts[t] + 1]
           /\ stage' = stage \/ Move(t, "pacing", "probing")
  <2>1. /\ Rank(stage'[t]) = Rank(stage[t])
        /\ \A u \in Targets \ {t} : stage'[u] = stage[u]
    BY <1>1, <1>6 DEF Move, Rank
  <2>2. attempts'[t] = attempts[t] + 1 /\ \A u \in Targets \ {t} : attempts'[u] = attempts[u]
    BY <1>1, <1>6
  <2>3. \A u \in Targets : StepsOf(u) \in Int
    BY <1>1, <1>2, RetriesNatural DEF StepsOf
  <2>4. StepsOf(t)' = StepsOf(t) - 1
    <3>1. Rank(stage[t]) \in Int /\ attempts[t] \in Int /\ emitted[t] \in Int
      BY <1>1, <1>2
    <3> QED
      BY <1>3, <2>1, <2>2, <3>1, RetriesNatural DEF StepsOf
  <2>5. \A u \in Targets \ {t} : StepsOf(u)' = StepsOf(u)
    BY <1>3, <2>1, <2>2 DEF StepsOf
  <2> QED
    BY <2>3, <2>4, <2>5
<1> QED
  BY <1>4, <1>5, <1>6

LEMMA AheadStep == IInv /\ Untried /\ IInv' /\ Next => StepsAhead' < StepsAhead
<1> SUFFICES ASSUME IInv, Untried, IInv', Next PROVE StepsAhead' < StepsAhead
  OBVIOUS
<1>1. Cardinality(AheadOfPairs) \in Nat /\ Cardinality(AheadOfPairs)' \in Nat
  <2>1. Cardinality(AheadOfPairs) \in Nat
    BY AheadFinite
  <2>2. (Cardinality(AheadOfPairs) \in Nat)'
    BY <2>1, AheadFinite, PTL
  <2> QED
    BY <2>1, <2>2
<1>2. AheadOfTasks \in Nat /\ AheadOfTasks' \in Nat
  BY DEF AheadOfTasks
<1>3. ASSUME NEW t \in Targets, Future(t) PROVE StepsAhead' < StepsAhead
  <2>1. Cardinality(AheadOfPairs)' < Cardinality(AheadOfPairs)
    BY <1>3, FutureStep, FewerAhead
  <2>2. AheadOfTasks' = AheadOfTasks
    BY <1>3 DEF Future, AheadOfTasks
  <2> QED
    BY <1>1, <1>2, <2>1, <2>2 DEF StepsAhead
<1>4. ASSUME NEW t \in Targets, Receive(t) PROVE StepsAhead' < StepsAhead
  <2>1. stage' = stage /\ attempts' = attempts
        /\ emitted' = [emitted EXCEPT ![t] = @ + 1]
    BY <1>4 DEF Receive
  <2>2. \A u \in Targets : StepsOf(u) \in Int
    BY StepsOfType, RetriesNatural DEF StepsInRange
  <2>3. emitted \in [Targets -> Nat] /\ Rank(stage[t]) \in Int /\ attempts[t] \in Int
    BY DEF IInv, TypeOK, Rank
  <2>4. StepsOf(t)' = StepsOf(t) - 1
    BY <2>1, <2>3, RetriesNatural DEF StepsOf
  <2>5. \A u \in Targets \ {t} : StepsOf(u)' = StepsOf(u)
    BY <2>1, <2>3 DEF StepsOf
  <2>6. Cardinality(AheadOfPairs)' < Cardinality(AheadOfPairs)
    BY <2>2, <2>4, <2>5, FewerAhead
  <2>7. AheadOfTasks' = AheadOfTasks
    BY <1>4 DEF Receive, AheadOfTasks
  <2> QED
    BY <1>1, <1>2, <2>6, <2>7 DEF StepsAhead
<1>5. CASE CollectorEnds \/ DropSender \/ EmitStats \/ Cancel
  <2>1. stage' = stage /\ attempts' = attempts /\ emitted' = emitted
    BY <1>5 DEF CollectorEnds, DropSender, EmitStats, Cancel, futures
  <2>2. AheadOfPairs' = AheadOfPairs
    BY <2>1 DEF AheadOfPairs, StepsOf
  <2>3. AheadOfTasks' < AheadOfTasks
    BY <1>5 DEF CollectorEnds, DropSender, EmitStats, Cancel, AheadOfTasks
  <2> QED
    BY <1>1, <1>2, <2>2, <2>3 DEF StepsAhead
<1> QED
  BY <1>3, <1>4, <1>5 DEF Next

\* From any state a scan takes no more steps than this: a bound, with no fairness
\* and however the futures are scheduled, on the connects, events and waits of a
\* call of scan_emit.
THEOREM StepsBounded ==
  Spec => [](StepsAhead \in Nat /\ StepsAhead <= Cardinality(Targets) * (Retries + 6) + 4)
<1>1. StepsAhead \in Nat /\ StepsAhead <= Cardinality(Targets) * (Retries + 6) + 4
  <2>1. AheadOfTasks \in 0 .. 4
    BY DEF AheadOfTasks
  <2>2. Cardinality(Targets) * (Retries + 6) \in Nat
    BY TargetsFinite, FS_CardinalityType, RetriesNatural
  <2> QED
    BY <2>1, <2>2, AheadFinite DEF StepsAhead
<1> QED
  BY <1>1, PTL

\* Every step of the scan is one of those: no behaviour goes on for ever.
THEOREM Shrinks == Spec => EveryStepCounts
<1>1. IInv /\ Untried /\ IInv' /\ [Next]_vars => [StepsAhead' < StepsAhead]_vars
  BY AheadStep
<1> QED
  BY <1>1, Invariance, UntriedInvariant, PTL DEF Spec, EveryStepCounts

\* Until it is done, a scan can take a step that nobody has to cancel for.
THEOREM NeverStuck == Spec => []SomeoneGoesOn
<1>1. IInv => SomeoneGoesOn
  <2> SUFFICES ASSUME IInv, main # "done" PROVE SomeoneGoesOn
    BY DEF SomeoneGoesOn
  <2>1. CASE \E t \in Targets : stage[t] \in {"spawned", "pacing", "probing"}
    BY <2>1 DEF SomeoneGoesOn
  <2>2. CASE \E t \in Targets : stage[t] = "waiting"
    BY <2>2, PermitForWaiting DEF SomeoneGoesOn, IInv, InStage
  <2>3. CASE \A t \in Targets : stage[t] \notin Active
    <3>1. InStage(Active) = {} /\ Cardinality(InStage(Active)) = 0
      BY <2>3, FS_EmptySet DEF InStage
    <3>2. CASE \E t \in Targets : stage[t] = "queued"
      BY <3>1, <3>2, ConcurrencyPositive DEF SomeoneGoesOn, IInv, Sequencing
    <3>3. CASE \A t \in Targets : stage[t] # "queued"
      <4>1. InStage(Active \cup {"queued"}) = {}
        BY <2>3, <3>3 DEF InStage
      <4>2. CASE main = "scanning"
        BY <4>1, <4>2 DEF SomeoneGoesOn
      <4>3. CASE main = "joining"
        <5>1. channel \in [Targets -> Nat] /\ collector \in {"running", "ended"}
          BY DEF IInv, TypeOK
        <5>2. (\E t \in Targets : channel[t] > 0) \/ \A t \in Targets : channel[t] = 0
          BY <5>1
        <5> QED
          BY <3>1, <4>3, <5>1, <5>2 DEF SomeoneGoesOn
      <4> QED
        BY <4>2, <4>3 DEF IInv, TypeOK
    <3> QED
      BY <3>2, <3>3
  <2> QED
    BY <2>1, <2>2, <2>3 DEF Active
<1> QED
  BY <1>1, Invariance, PTL
=============================================================================
