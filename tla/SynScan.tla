------------------------------ MODULE SynScan -------------------------------
(***************************************************************************)
(* syn_scan_emit of ares-net/src/syn_linux.rs: the raw SYN scan, used with *)
(* --syn on Linux.                                                         *)
(*                                                                         *)
(* The caller sends one SYN per IPv4 pair, each from a source port no      *)
(* pending probe uses, and notes the probe in a map; a pair of another     *)
(* family is passed over without a word. A thread reads every packet on    *)
(* the link; one that answers a pending probe (source port, address and    *)
(* sequence cookie) is counted and taken out of the map under its lock and *)
(* listed after it. The thread looks at its deadline and at the token only *)
(* between two packets, and the read of a packet has no timeout. When all  *)
(* is sent, or the scan cancelled, the caller sleeps, joins the thread,    *)
(* lists what is still pending as filtered, and emits the list and the     *)
(* Stats event.                                                            *)
(*                                                                         *)
(* Answers come late, twice or never. The cookie is injective in the two   *)
(* ports for a fixed pair of addresses and the address is compared as      *)
(* well, so an answer is identified by the pair it was sent for. Durations *)
(* are left out: the deadline passes at any moment. A source port is any   *)
(* free one; in the code it is the next free one in a circle, looked for   *)
(* without end and without a look at the token.                            *)
(***************************************************************************)
EXTENDS ScanTargets, Sequences, SequencesExt

CONSTANTS
  Ipv4,     \* the pairs whose address is an IPv4 address
  Sports    \* the source ports, 30000 .. 65535

ASSUME Ipv4Pairs == Ipv4 \subseteq Targets
ASSUME SportsFinite == IsFiniteSet(Sports)

Free == "free"

ASSUME FreeIsNoTarget == Free \notin Targets

VARIABLES
  nature,     \* what each IPv4 pair is: "open", "closed" or "silent"
  unsent,     \* the pairs the sending loop has not come to
  pending,    \* the pair whose probe uses each source port
  probes,     \* the (pair, source port) probes sent
  answers,    \* those of them answered: the answers are on the link
  tally,      \* the open, closed and filtered counters
  results,    \* the list of results
  held,       \* the result the thread has counted and not yet listed
  thread,     \* the receiving thread: "checking", "blocked" or "ended"
  expired,    \* the thread's deadline has passed
  main,       \* the caller: "sending", "choosing" a source port for the
              \* next probe, "joining", "emitting" or "done"
  emitted,    \* the PortResult events
  cancelled,  \* the cancellation token
  report      \* the counters in the Stats event

link == <<nature, probes, answers>>
receiver == <<held, thread>>
vars == <<link, unsent, pending, tally, results, receiver, expired, main,
          emitted, cancelled, report>>

Init ==
  /\ nature \in [Ipv4 -> {"open", "closed", "silent"}]
  /\ unsent = Targets
  /\ pending = [p \in Sports |-> Free]
  /\ probes = {}
  /\ answers = {}
  /\ tally = [s \in States |-> 0]
  /\ results = <<>>
  /\ held = <<>>
  /\ thread = "checking"
  /\ expired = FALSE
  /\ main = "sending"
  /\ emitted = <<>>
  /\ cancelled \in BOOLEAN
  /\ report = [s \in States |-> 0]

(* The caller. *)

\* let IpAddr::V4(dst_ip) = addr else { continue; }: nothing is said of the pair.
Skip(t) ==
  /\ main = "sending" /\ ~cancelled
  /\ t \in unsent \ Ipv4
  /\ unsent' = unsent \ {t}
  /\ UNCHANGED <<link, pending, tally, results, receiver, expired, main,
                 emitted, cancelled, report>>

\* The next pair gets a probe. This is the last look at the token before it.
Choose ==
  /\ main = "sending" /\ ~cancelled
  /\ unsent \cap Ipv4 # {}
  /\ main' = "choosing"
  /\ UNCHANGED <<link, unsent, pending, tally, results, receiver, expired,
                 emitted, cancelled, report>>

\* Faulty variant: a source port is taken whether it is free or not.
SendAnywhere(t, p) ==
  /\ main = "choosing"
  /\ t \in unsent \cap Ipv4
  /\ unsent' = unsent \ {t}
  /\ pending' = [pending EXCEPT ![p] = t]
  /\ probes' = probes \cup {<<t, p>>}
  /\ main' = "sending"
  /\ UNCHANGED <<nature, answers, tally, results, receiver, expired, emitted,
                 cancelled, report>>

\* While no source port is free the caller sleeps and looks again: no step.
\* The probe is noted before the SYN goes out, so an answer finds it.
Send(t, p) ==
  /\ main = "choosing"
  /\ t \in unsent \cap Ipv4
  /\ pending[p] = Free
  /\ unsent' = unsent \ {t}
  /\ pending' = [pending EXCEPT ![p] = t]
  /\ probes' = probes \cup {<<t, p>>}
  /\ main' = "sending"
  /\ UNCHANGED <<nature, answers, tally, results, receiver, expired, emitted,
                 cancelled, report>>

StopSending ==
  /\ main = "sending"
  /\ cancelled \/ unsent = {}
  /\ main' = "joining"
  /\ UNCHANGED <<link, unsent, pending, tally, results, receiver, expired,
                 emitted, cancelled, report>>

Unanswered == {p \in Sports : pending[p] # Free}

\* Faulty variant: the thread is not joined.
CollectEarly ==
  /\ main = "joining"
  /\ main' = "emitting"
  /\ tally' = [tally EXCEPT !["filtered"] = @ + Cardinality(Unanswered)]
  /\ results' = results \o SetToSeq({<<pending[p], "filtered">> : p \in Unanswered})
  /\ UNCHANGED <<link, unsent, pending, receiver, expired, emitted, cancelled,
                 report>>

\* join() returned: what is still pending is filtered, in any order.
Collect ==
  /\ main = "joining"
  /\ thread = "ended"
  /\ main' = "emitting"
  /\ tally' = [tally EXCEPT !["filtered"] = @ + Cardinality(Unanswered)]
  /\ results' = results \o SetToSeq({<<pending[p], "filtered">> : p \in Unanswered})
  /\ UNCHANGED <<link, unsent, pending, receiver, expired, emitted, cancelled,
                 report>>

Emit ==
  /\ main = "emitting"
  /\ results # <<>>
  /\ emitted' = Append(emitted, Head(results))
  /\ results' = Tail(results)
  /\ UNCHANGED <<link, unsent, pending, tally, receiver, expired, main,
                 cancelled, report>>

EmitStats ==
  /\ main = "emitting"
  /\ results = <<>>
  /\ main' = "done"
  /\ report' = tally
  /\ UNCHANGED <<link, unsent, pending, tally, results, receiver, expired,
                 emitted, cancelled>>

(* The receiving thread. *)


\* while Instant::now() < deadline && !cancelled: rx.next()
Check ==
  /\ thread = "checking" /\ held = <<>>
  /\ thread' = IF expired \/ cancelled THEN "ended" ELSE "blocked"
  /\ UNCHANGED <<link, unsent, pending, tally, results, held, expired, main,
                 emitted, cancelled, report>>

\* Faulty variant: the cookie is not compared.
AnswersByPort(answer) == pending[answer[2]] # Free

\* The packet's port has a pending probe, with its address and its cookie.
Answers(answer) == pending[answer[2]] = answer[1]

\* Faulty variant: the probe stays in the map.
MatchOnly(answer) ==
  /\ thread = "blocked"
  /\ answer \in answers
  /\ Answers(answer)
  /\ held' = <<pending[answer[2]], nature[answer[1]]>>
  /\ tally' = [tally EXCEPT ![nature[answer[1]]] = @ + 1]
  /\ thread' = "checking"
  /\ UNCHANGED <<link, unsent, pending, results, expired, main, emitted,
                 cancelled, report>>

\* Under the lock of the map: count the answer, take its probe out.
Match(answer) ==
  /\ thread = "blocked"
  /\ answer \in answers
  /\ Answers(answer)
  /\ held' = <<pending[answer[2]], nature[answer[1]]>>
  /\ tally' = [tally EXCEPT ![nature[answer[1]]] = @ + 1]
  /\ pending' = [pending EXCEPT ![answer[2]] = Free]
  /\ thread' = "checking"
  /\ UNCHANGED <<link, unsent, results, expired, main, emitted, cancelled,
                 report>>

\* After it: list the result.
Push ==
  /\ held # <<>>
  /\ results' = Append(results, held)
  /\ held' = <<>>
  /\ UNCHANGED <<link, unsent, pending, tally, thread, expired, main, emitted,
                 cancelled, report>>

\* Any other packet, answers that are late or duplicated among them.
Ignore ==
  /\ thread = "blocked"
  /\ thread' = "checking"
  /\ UNCHANGED <<link, unsent, pending, tally, results, held, expired, main,
                 emitted, cancelled, report>>

\* rx.next() fails.
ReadFails ==
  /\ thread = "blocked"
  /\ thread' = "ended"
  /\ UNCHANGED <<link, unsent, pending, tally, results, held, expired, main,
                 emitted, cancelled, report>>

(* The environment. *)

Answer(probe) ==
  /\ probe \in probes
  /\ nature[probe[1]] # "silent"
  /\ answers' = answers \cup {probe}
  /\ UNCHANGED <<nature, unsent, pending, probes, tally, results, receiver,
                 expired, main, emitted, cancelled, report>>

Expire ==
  /\ ~expired
  /\ expired' = TRUE
  /\ UNCHANGED <<link, unsent, pending, tally, results, receiver, main,
                 emitted, cancelled, report>>

Cancel ==
  /\ ~cancelled
  /\ cancelled' = TRUE
  /\ UNCHANGED <<link, unsent, pending, tally, results, receiver, expired,
                 main, emitted, report>>

Main ==
  \/ \E t \in Targets : Skip(t)
  \/ Choose
  \/ \E t \in Targets, p \in Sports : Send(t, p)
  \/ StopSending \/ Collect \/ Emit \/ EmitStats

\* What the thread does by itself, and what takes a packet on the link.
OwnSteps == Check \/ Push
Reads == Ignore \/ ReadFails \/ \E answer \in answers : Match(answer)

Next ==
  \/ Main
  \/ OwnSteps
  \/ Reads
  \/ \E probe \in probes : Answer(probe)
  \/ Expire
  \/ Cancel

\* Both threads are scheduled and the deadline passes. Nobody has to answer, and
\* no packet has to come: the read has no timeout, so Reads gets no fairness.
Fairness == WF_vars(Main) /\ WF_vars(OwnSteps) /\ WF_vars(Expire)

Spec == Init /\ [][Next]_vars /\ Fairness
-----------------------------------------------------------------------------
(* Properties *)

TypeOK ==
  /\ unsent \subseteq Targets
  /\ pending \in [Sports -> Ipv4 \cup {Free}]
  /\ answers \subseteq probes /\ probes \subseteq Ipv4 \X Sports
  /\ tally \in [States -> 0 .. Cardinality(Ipv4)]
  /\ \A r \in ToSet(results \o emitted) \cup ({held} \ {<<>>}) :
       r \in Ipv4 \X States
  /\ thread \in {"checking", "blocked", "ended"}
  /\ main \in {"sending", "choosing", "joining", "emitting", "done"}
  /\ {expired, cancelled} \subseteq BOOLEAN
  /\ report \in [States -> 0 .. Cardinality(Ipv4)]

\* An answer is credited to the pair it came from and says what that pair is,
\* though source ports are used again for other pairs and answers to the
\* earlier probe may still arrive (syn_linux.rs:4, "each probe uses a unique
\* source port + seq cookie so SYN-ACK/RST replies map back").
RepliesMapBack ==
  \A r \in ToSet(results \o emitted) \cup ({held} \ {<<>>}) :
    r[2] # "filtered" => r[2] = nature[r[1]]

\* Every probe is accounted for once, pending, held or listed, at every moment
\* between the two threads' steps, until it is listed as filtered; a pair that
\* gets no probe is nowhere.
ProbesAreCounted ==
  main \in {"sending", "choosing", "joining"} =>
    \A t \in Targets :
      Cardinality({p \in Sports : pending[p] = t})
        + Cardinality({k \in DOMAIN results : results[k][1] = t})
        + (IF held # <<>> /\ held[1] = t THEN 1 ELSE 0)
        = (IF t \in unsent \/ t \notin Ipv4 THEN 0 ELSE 1)

EmittedAt(t) == {k \in DOMAIN emitted : emitted[k][1] = t}

\* What the caller of this engine sees of the IPv4 pairs; TypeOK has no event of
\* any other pair.
Reported ==
  [t \in Ipv4 |-> IF Cardinality(EmittedAt(t)) = 1
                  THEN emitted[CHOOSE k \in EmittedAt(t) : TRUE][2]
                  ELSE NoResult]

Contract == INSTANCE ScanContract
              WITH Targets <- Ipv4,
                   result <- Reported, concluded <- (main = "done")

\* For the IPv4 pairs the raw engine keeps the contract the connect engine keeps
\* for all pairs: every one is reported once, only a cancelled scan omits one,
\* the summary comes last and counts what was reported although the counters
\* belong to two threads. The pairs of another family are never reported
\* (syn_linux.rs:177).
KeepsContract == Contract!Spec

NoPortFree == \A p \in Sports : pending[p] # Free

\* The scan ends, however many answers are missing, cancelled or not, but for the
\* two waits the code puts no end to: the receiving thread's for a packet on a
\* link that has fallen silent (syn_linux.rs:105), and the caller's for a source
\* port when unanswered probes use all of them (syn_linux.rs:185). The deadline
\* and the token end neither.
Terminates ==
  \/ <>(main = "done")
  \/ <>[](main = "joining" /\ thread = "blocked")
  \/ <>[](main = "choosing" /\ NoPortFree)
=============================================================================
