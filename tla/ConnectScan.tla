---------------------------- MODULE ConnectScan -----------------------------
(***************************************************************************)
(* ConnectScanner::scan_emit of ares-net/src/connect.rs: a TCP connect     *)
(* scan of a list of (address, port) pairs.                                *)
(*                                                                         *)
(* One future per pair is pulled from the list, at most Concurrency at a   *)
(* time (for_each_concurrent). Each takes a semaphore permit, waits for    *)
(* the pace (rate limiter, adaptive pause, jitter), connects, retries      *)
(* while the answer is "filtered", counts the outcome and sends it through *)
(* an unbounded channel to a collector task that emits the events. When    *)
(* every future is done the sender is dropped, the collector is joined and *)
(* the Stats event is emitted. Another task may cancel at any moment.      *)
(*                                                                         *)
(* The futures run on one task, so a future is interleaved with the others *)
(* only where it awaits: an action is what it does between two awaits. A   *)
(* cancel() from another thread that lands between a check and the connect *)
(* the check permits is the same behaviour as one that lands just after:   *)
(* nobody reads the token in between. The order of the list (shuffled or   *)
(* not) is not modelled, nor are durations: a wait may end at any moment   *)
(* and a connect may have any outcome. The channel is a bag: no property   *)
(* tells the order of the results.                                         *)
(***************************************************************************)
EXTENDS ScanTargets

CONSTANTS
  Concurrency,  \* timing.concurrency.max(1)
  Retries       \* timing.retries

ASSUME ConcurrencyPositive == Concurrency \in Nat \ {0}
ASSUME RetriesNatural == Retries \in Nat

Stages ==
  {"queued", "spawned", "waiting", "pacing", "probing", "sent", "skipped"}

VARIABLES
  stage,      \* how far the future of each pair is
  attempts,   \* connects started for each pair
  outcome,    \* the PortScanResult of each pair
  permits,    \* permits left in the semaphore
  tally,      \* the open, closed and filtered counters
  channel,    \* results of each pair sent and not yet received
  emitted,    \* PortResult events emitted for each pair
  collector,  \* the collector task: "running" or "ended"
  main,       \* scan_emit itself: "scanning", "joining" or "done"
  cancelled,  \* the cancellation token
  report      \* the counters in the Stats event

futures == <<stage, attempts, outcome, permits, tally, channel>>
vars == <<futures, emitted, collector, main, cancelled, report>>

Active == {"spawned", "waiting", "pacing", "probing"}   \* unresolved futures
Holding == {"pacing", "probing"}                        \* those with a permit

InStage(S) == {t \in Targets : stage[t] \in S}

Init ==
  /\ stage = [t \in Targets |-> "queued"]
  /\ attempts = [t \in Targets |-> 0]
  /\ outcome = [t \in Targets |-> NoResult]
  /\ permits = Concurrency
  /\ tally = [s \in States |-> 0]
  /\ channel = [t \in Targets |-> 0]
  /\ emitted = [t \in Targets |-> 0]
  /\ collector = "running"
  /\ main = "scanning"
  /\ cancelled \in BOOLEAN
  /\ report = [s \in States |-> 0]

(* The futures. *)

Move(t, from, to) ==
  /\ stage[t] = from
  /\ stage' = [stage EXCEPT ![t] = to]

\* for_each_concurrent pulls the next pair while fewer than Concurrency run.
Spawn(t) ==
  /\ main = "scanning"
  /\ Cardinality(InStage(Active)) < Concurrency
  /\ Move(t, "queued", "spawned")
  /\ UNCHANGED <<attempts, outcome, permits, tally, channel>>

\* The first poll: a cancelled future returns before it asks for a permit.
Start(t) ==
  /\ IF cancelled THEN Move(t, "spawned", "skipped")
                  ELSE Move(t, "spawned", "waiting")
  /\ UNCHANGED <<attempts, outcome, permits, tally, channel>>

Acquire(t) ==
  /\ permits > 0
  /\ permits' = permits - 1
  /\ Move(t, "waiting", "pacing")
  /\ UNCHANGED <<attempts, outcome, tally, channel>>

\* Faulty variant: the token is not read again after the wait.
ConnectUnchecked(t) ==
  /\ Move(t, "pacing", "probing")
  /\ attempts' = [attempts EXCEPT ![t] = 1]
  /\ UNCHANGED <<outcome, permits, tally, channel>>

\* The pace is over: the token is read a second time, then the connect starts.
Connect(t) ==
  /\ ~cancelled
  /\ Move(t, "pacing", "probing")
  /\ attempts' = [attempts EXCEPT ![t] = 1]
  /\ UNCHANGED <<outcome, permits, tally, channel>>

\* Faulty variant: the early return forgets the permit.
GiveUpWithPermit(t) ==
  /\ cancelled
  /\ Move(t, "pacing", "skipped")
  /\ UNCHANGED <<attempts, outcome, permits, tally, channel>>

GiveUp(t) ==
  /\ cancelled
  /\ Move(t, "pacing", "skipped")
  /\ permits' = permits + 1
  /\ UNCHANGED <<attempts, outcome, tally, channel>>

\* Faulty variant: one retry too many.
MayRetryOnceMore(t, s) ==
  s = "filtered" /\ attempts[t] <= Retries + 1 /\ ~cancelled

MayRetry(t, s) == s = "filtered" /\ attempts[t] <= Retries /\ ~cancelled

\* Faulty variant: the answer of the attempt to be repeated is sent as well.
RetryAndSend(t) ==
  /\ stage[t] = "probing"
  /\ MayRetry(t, "filtered")
  /\ attempts' = [attempts EXCEPT ![t] = @ + 1]
  /\ channel' = [channel EXCEPT ![t] = @ + 1]
  /\ UNCHANGED <<stage, outcome, permits, tally>>

\* The connect timed out and is tried again, with the same timeout.
Retry(t) ==
  /\ stage[t] = "probing"
  /\ MayRetry(t, "filtered")
  /\ attempts' = [attempts EXCEPT ![t] = @ + 1]
  /\ UNCHANGED <<stage, outcome, permits, tally, channel>>

\* Faulty variant: the permit is kept.
FinishWithPermit(t, s) ==
  /\ ~MayRetry(t, s)
  /\ Move(t, "probing", "sent")
  /\ outcome' = [outcome EXCEPT ![t] = s]
  /\ tally' = [tally EXCEPT ![s] = @ + 1]
  /\ channel' = [channel EXCEPT ![t] = @ + 1]
  /\ UNCHANGED <<attempts, permits>>

\* The outcome is counted and sent, and the permit dropped, with no await.
Finish(t, s) ==
  /\ ~MayRetry(t, s)
  /\ Move(t, "probing", "sent")
  /\ outcome' = [outcome EXCEPT ![t] = s]
  /\ tally' = [tally EXCEPT ![s] = @ + 1]
  /\ channel' = [channel EXCEPT ![t] = @ + 1]
  /\ permits' = permits + 1
  /\ UNCHANGED attempts

Future(t) ==
  /\ \/ Spawn(t)
     \/ Start(t)
     \/ Acquire(t)
     \/ Connect(t)
     \/ GiveUp(t)
     \/ Retry(t)
     \/ \E s \in States : Finish(t, s)
  /\ UNCHANGED <<emitted, collector, main, cancelled, report>>

(* The collector task. *)

Receive(t) ==
  /\ collector = "running"
  /\ channel[t] > 0
  /\ channel' = [channel EXCEPT ![t] = @ - 1]
  /\ emitted' = [emitted EXCEPT ![t] = @ + 1]
  /\ UNCHANGED <<stage, attempts, outcome, permits, tally,
                 collector, main, cancelled, report>>

\* recv() returns None: no message is left and no sender is alive.
CollectorEnds ==
  /\ collector = "running"
  /\ \A t \in Targets : channel[t] = 0
  /\ main # "scanning" /\ InStage(Active) = {}
  /\ collector' = "ended"
  /\ UNCHANGED <<futures, emitted, main, cancelled, report>>

(* scan_emit itself. *)

\* The stream is exhausted and every future resolved: drop(tx).
DropSender ==
  /\ main = "scanning"
  /\ InStage(Active \cup {"queued"}) = {}
  /\ main' = "joining"
  /\ UNCHANGED <<futures, emitted, collector, cancelled, report>>

\* Faulty variant: the collector is not awaited.
EmitStatsEarly ==
  /\ main = "joining"
  /\ main' = "done"
  /\ report' = tally
  /\ UNCHANGED <<futures, emitted, collector, cancelled>>

\* collector.await returned: the counters go into the Stats event.
EmitStats ==
  /\ main = "joining"
  /\ collector = "ended"
  /\ main' = "done"
  /\ report' = tally
  /\ UNCHANGED <<futures, emitted, collector, cancelled>>

Cancel ==
  /\ ~cancelled
  /\ cancelled' = TRUE
  /\ UNCHANGED <<futures, emitted, collector, main, report>>

Next ==
  \/ \E t \in Targets : Future(t) \/ Receive(t)
  \/ CollectorEnds
  \/ DropSender
  \/ EmitStats
  \/ Cancel

\* Every wait of a future ends: permits are released, the pace is a sleep and
\* a connect has a timeout. The runtime polls both tasks. Nobody has to cancel.
Fairness ==
  /\ \A t \in Targets : WF_vars(Future(t)) /\ WF_vars(Receive(t))
  /\ WF_vars(CollectorEnds)
  /\ WF_vars(DropSender)
  /\ WF_vars(EmitStats)

Spec == Init /\ [][Next]_vars /\ Fairness
-----------------------------------------------------------------------------
(* Properties *)

TypeOK ==
  /\ stage \in [Targets -> Stages]
  /\ attempts \in [Targets -> 0 .. Retries + 1]
  /\ outcome \in [Targets -> States \cup {NoResult}]
  /\ permits \in 0 .. Concurrency
  /\ tally \in [States -> Nat]
  /\ channel \in [Targets -> Nat]
  /\ emitted \in [Targets -> Nat]
  /\ collector \in {"running", "ended"}
  /\ main \in {"scanning", "joining", "done"}
  /\ cancelled \in BOOLEAN
  /\ report \in [States -> Nat]

\* A pair that was probed to the end has exactly one result, in the channel or
\* emitted, and a pair that was not has none: retries do not report twice and
\* the collector loses nothing (connect.rs, the channel between the futures
\* and the collector task).
ResultConservation ==
  \A t \in Targets :
    channel[t] + emitted[t] = IF stage[t] = "sent" THEN 1 ELSE 0

\* The permits in the semaphore and those held add up to the concurrency, so
\* an early return never leaks one, and no more connects than that are in
\* flight; since the stream admits no more futures than there are permits, a
\* future that asks for one finds it.
PermitAccounting ==
  /\ permits + Cardinality(InStage(Holding)) = Concurrency
  /\ InStage({"waiting"}) # {} => permits > 0

\* Once the token is cancelled no connect starts, neither a first one of a
\* future that waited for its pace nor a retry (connect.rs, the three reads of
\* the token).
NoConnectAfterCancel == [][cancelled => attempts' = attempts]_vars

\* What scan_emit's caller sees of this module.
Reported == [t \in Targets |-> IF emitted[t] = 1 THEN outcome[t] ELSE NoResult]

Contract == INSTANCE ScanContract
              WITH result <- Reported, concluded <- (main = "done")

\* scan_emit keeps the scanners' contract: its Stats event comes last, counts
\* what the PortResult events said, and only a cancelled scan omits a pair.
KeepsContract == Contract!Spec

\* Every call of scan_emit returns, cancelled or not.
Terminates == <>(main = "done")
=============================================================================
