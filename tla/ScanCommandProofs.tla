------------------------- MODULE ScanCommandProofs --------------------------
(***************************************************************************)
(* Theorems about ScanCommand, for every finite set of addresses, all sets *)
(* of options, every concurrency and every number of probe ports and       *)
(* commands.                                                               *)
(*                                                                         *)
(* None of the invariants is inductive by itself: each needs the types and *)
(* what holds on the way to the states that it speaks of (Kept, Bounded,   *)
(* Covered).                                                               *)
(***************************************************************************)
EXTENDS ScanCommand, FiniteSetTheorems, TLAPS

HostStages == {"queued", "waiting", "pinging", "probing", "up", "down", "left"}

Steps == Scanning \cup {"scanned", "asked", "service", "pack", "save", "over", "failed"}

\* TypeOK, and what the futures of discovery and of the UDP scan look like.
Types ==
  /\ plan \in Plans /\ commands \in 1..MaxCommands
  /\ pc \in Steps
  /\ token \in BOOLEAN
  /\ hosts \in [Hosts -> HostStages]
  /\ tries \in [Hosts -> 0..ProbePorts]
  /\ \A h \in Hosts : /\ hosts[h] \in {"queued", "waiting", "pinging"} => tries[h] = 0
                      /\ hosts[h] = "probing" => tries[h] < ProbePorts
  /\ live \subseteq Hosts /\ todo \subseteq Pair
  /\ DOMAIN datagrams \subseteq Hosts \X plan.udp
  /\ late \in Nat
  /\ cut \subseteq {"scan", "service", "pack"}
  /\ prior \subseteq Results /\ results \subseteq Results
  /\ saved \subseteq Results /\ workspace \subseteq Results

\* A token that is set is of the module that runs, and that module was cut.
Tokens == token => Running \in cut \/ pc \in {"scanned", "failed"}

\* What was found is in the workspace whenever a command may end, and in the run
\* when it has.
Kept ==
  /\ pc = "resolve" => results = {}
  /\ pc \in {"asked", "save", "over", "failed"} /\ ~plan.ephemeral => results \subseteq workspace
  /\ pc = "over" /\ plan.save => saved = collector

Waiting == {pair \in DOMAIN datagrams : datagrams[pair] = "waiting"}

\* No probe is late before the UDP scan; there each pair that waits may become
\* one that is.
Bounded ==
  /\ pc \in {"resolve", "discover", "tcp"} => datagrams = <<>>
  /\ datagrams = <<>> => late = 0
  /\ pc \in Scanning /\ ~token => late = 0
  /\ late <= Concurrency
  /\ pc = "udp" => late + Cardinality(Waiting) <= Concurrency

After == {"scanned", "asked", "service", "pack", "save", "over"}

Uncut == "scan" \notin cut

\* A pair that was to be scanned over TCP, or over UDP, has been, or the engine
\* does not scan it.
Tcp(pair) ==
  pair \in scanned_pairs(prior) \/ HasResult(pair, "tcp", results) \/ Skipped(pair)

Udp(pair) == HasResult(pair, "udp", results)

\* While the scan is not cut: discovery leaves no address out but the silent, the
\* scanner no pair but those it has to report yet, the UDP scan none but those
\* whose future is not done.
Covered ==
  /\ pc = "discover" => plan.discover
  /\ pc = "scanned" /\ token => "scan" \in cut
  /\ Uncut => \A h \in Hosts : hosts[h] # "left" /\ (hosts[h] = "down" => Silent(h))
  /\ Uncut /\ pc \in After \cup {"tcp", "udp"} =>
       \A h \in Hosts \ live : plan.discover /\ Silent(h)
  /\ Uncut /\ pc = "tcp" => \A pair \in live \X plan.tcp : pair \in todo \/ Tcp(pair)
  /\ Uncut /\ pc \in After \cup {"udp"} => \A pair \in live \X plan.tcp : Tcp(pair)
  /\ Uncut /\ pc = "udp" =>
       \A pair \in live \X plan.udp :
         /\ pair \in DOMAIN datagrams /\ datagrams[pair] # "left"
         /\ datagrams[pair] = "done" => Udp(pair)
  /\ Uncut /\ pc \in After => \A pair \in live \X plan.udp : Udp(pair)

IInv == Types /\ Tokens /\ Kept /\ Bounded /\ Covered

-----------------------------------------------------------------------------
(* Types. *)

\* What a command is asked to scan is made of pairs.
LEMMA PairsOfPlan ==
  ASSUME plan \in Plans
  PROVE  Hosts \X plan.tcp \subseteq Pair /\ Hosts \X plan.udp \subseteq Pair
BY DEF Pair

\* A result of a pair is a result.
LEMMA ResultType ==
  ASSUME NEW pair \in Pair, NEW protocol \in {"tcp", "udp"}, NEW s \in States
  PROVE  Result(pair, protocol, s) \in Results
BY DEF Result, Results

\* What a set of results says of pairs is said of pairs.
LEMMA PairsOfResults ==
  ASSUME NEW rs \in SUBSET Results
  PROVE  scanned_pairs(rs) \subseteq Pair /\ open_ports(rs) \subseteq Pair
BY DEF scanned_pairs, open_ports, Results

\* The service module visits pairs only.
LEMMA ServicePairs ==
  ASSUME Types
  PROVE  Hosts \X ServicePorts \subseteq Pair
<1>1. open_ports(collector) \subseteq Pair
  BY PairsOfResults DEF Types, collector
<1>2. CASE open_ports(collector) = {}
  BY <1>2, PairsOfPlan DEF Types, ServicePorts
<1>3. CASE open_ports(collector) # {}
  <2>1. \A p \in open_ports(collector) : p[2] \in UNION {q.tcp \cup q.udp : q \in Plans}
    BY <1>1 DEF Pair
  <2> QED
    BY <1>3, <2>1 DEF ServicePorts, Pair
<1> QED
  BY <1>2, <1>3

\* What the command goes on to after the scan and the service module.
LEMMA ToPackType ==
  ASSUME Types, ToPack
  PROVE  /\ pc' \in {"save", "failed", "pack"}
         /\ todo' \subseteq Pair
<1>1. open_ports(collector) \subseteq Pair
  BY PairsOfResults DEF Types, collector
<1> QED
  BY <1>1 DEF ToPack

\* <<>> is the function without arguments.
LEMMA NoDatagrams == DOMAIN <<>> = {}
OBVIOUS

\* A command starts well typed.
LEMMA TypesInit == Init => Types
<1> SUFFICES ASSUME Init PROVE Types
  OBVIOUS
<1>1. commands \in 1..MaxCommands
  BY ScanAssumption DEF Init
<1>2. /\ hosts \in [Hosts -> HostStages] /\ tries \in [Hosts -> 0..ProbePorts]
      /\ \A h \in Hosts : hosts[h] = "queued" /\ tries[h] = 0
  BY ScanAssumption DEF Init, HostStages
<1>3. DOMAIN datagrams = {}
  BY NoDatagrams DEF Init
<1>4. /\ live = {} /\ todo = {} /\ late = 0 /\ cut = {}
      /\ prior = {} /\ results = {} /\ saved = {} /\ workspace = {}
  BY DEF Init
<1>5. plan \in Plans /\ pc \in Steps /\ token \in BOOLEAN
  BY DEF Init, Steps, Scanning
<1> QED
  BY <1>1, <1>2, <1>3, <1>4, <1>5 DEF Types

\* Every step of a command keeps the types.
LEMMA TypesStep ==
  ASSUME Types, [Next]_vars
  PROVE  Types'
<1> USE DEF Types, progress, discovery, records
<1>1. CASE Unresolved
  BY <1>1 DEF Unresolved, Steps, Scanning
<1>2. CASE Resolved
  BY <1>2, PairsOfPlan DEF Resolved, Steps, Scanning, Pairs
<1>3. ASSUME NEW h \in Hosts, Admit(h) PROVE Types'
  BY <1>3 DEF Admit, HostStages
<1>4. ASSUME NEW h \in Hosts, Wake(h) PROVE Types'
  BY <1>4 DEF Wake, Sends, HostStages
<1>5. ASSUME NEW h \in Hosts, Pinged(h) PROVE Types'
  BY <1>5, ScanAssumption DEF Pinged, Probe, Sends, HostStages
<1>6. ASSUME NEW h \in Hosts, Tried(h) PROVE Types'
  BY <1>6, ScanAssumption DEF Tried, Probe, Sends, HostStages
<1>7. CASE Discovered
  BY <1>7, PairsOfPlan DEF Discovered, Up, Pairs, Steps, Scanning
<1>8. ASSUME NEW pair \in todo, Publish(pair) PROVE Types'
  BY <1>8, ResultType DEF Publish
<1>9. ASSUME NEW pair \in todo, Visit(pair) PROVE Types'
  BY <1>9, ResultType DEF Visit, States
<1>10. CASE Conclude
  BY <1>10 DEF Conclude, Steps, Scanning
<1>11. ASSUME NEW pair \in live \X plan.udp, AdmitPair(pair) PROVE Types'
  BY <1>11 DEF AdmitPair
<1>12. ASSUME NEW pair \in live \X plan.udp, Send(pair) PROVE Types'
  BY <1>12 DEF Send, Sends
<1>13. ASSUME NEW pair \in live \X plan.udp, Probed(pair) PROVE Types'
  BY <1>13, ResultType, PairsOfPlan DEF Probed
<1>14. CASE UdpScanned
  BY <1>14 DEF UdpScanned, Steps, Scanning
<1>15. CASE Scanned
  BY <1>15, ToPackType DEF Scanned, Merged, Steps, Scanning
<1>16. CASE ServiceStarts
  BY <1>16, ServicePairs DEF ServiceStarts, Steps, Scanning
<1>17. CASE ServiceFails
  BY <1>17 DEF ServiceFails, Steps, Scanning
<1>18. CASE ServiceEnds
  BY <1>18, ToPackType DEF ServiceEnds, Merged, Steps, Scanning
<1>19. CASE PackEnds
  BY <1>19 DEF PackEnds, Merged, collector, Steps, Scanning
<1>20. CASE Save
  BY <1>20 DEF Save, collector, Steps, Scanning
<1>21. CASE Cancel
  BY <1>21 DEF Cancel
<1>22. CASE Resume
  <2>1. commands' \in 1..MaxCommands
    BY <1>22, ScanAssumption DEF Resume
  <2>2. /\ hosts' \in [Hosts -> HostStages] /\ tries' \in [Hosts -> 0..ProbePorts]
        /\ \A h \in Hosts : hosts'[h] = "queued" /\ tries'[h] = 0
    BY <1>22, ScanAssumption DEF Resume, HostStages
  <2>3. DOMAIN datagrams' = {}
    BY <1>22, NoDatagrams DEF Resume
  <2>4. /\ live' = {} /\ todo' = {} /\ late' = 0 /\ cut' = {}
        /\ prior' = saved /\ results' = {}
        /\ saved' = saved /\ workspace' = workspace
    BY <1>22 DEF Resume
  <2>5. plan' \in Plans /\ pc' \in Steps /\ token' \in BOOLEAN
    BY <1>22 DEF Resume, Steps, Scanning
  <2> QED
    BY <2>1, <2>2, <2>3, <2>4, <2>5
<1>23. CASE UNCHANGED vars
  BY <1>23 DEF vars
<1> QED
  BY <1>1, <1>2, <1>3, <1>4, <1>5, <1>6, <1>7, <1>8, <1>9, <1>10, <1>11, <1>12, <1>13,
     <1>14, <1>15, <1>16, <1>17, <1>18, <1>19, <1>20, <1>21, <1>22, <1>23
  DEF Next, Run, Discovery, UdpScan
-----------------------------------------------------------------------------
(* The token. *)

\* A command starts with its token clear.
LEMMA TokensInit == Init => Tokens
BY DEF Init, Tokens

\* Only Ctrl+C sets a token, and the next module has one of its own.
LEMMA TokensStep ==
  ASSUME Types, Tokens, [Next]_vars
  PROVE  Tokens'
<1> USE DEF Tokens, Running, Scanning, progress, discovery, records
<1>1. CASE Unresolved
  BY <1>1 DEF Unresolved
<1>2. CASE Resolved
  BY <1>2 DEF Resolved
<1>3. ASSUME NEW h \in Hosts, Admit(h) PROVE Tokens'
  BY <1>3 DEF Admit
<1>4. ASSUME NEW h \in Hosts, Wake(h) PROVE Tokens'
  BY <1>4 DEF Wake
<1>5. ASSUME NEW h \in Hosts, Pinged(h) PROVE Tokens'
  BY <1>5 DEF Pinged
<1>6. ASSUME NEW h \in Hosts, Tried(h) PROVE Tokens'
  BY <1>6 DEF Tried
<1>7. CASE Discovered
  BY <1>7 DEF Discovered
<1>8. ASSUME NEW pair \in todo, Publish(pair) PROVE Tokens'
  BY <1>8 DEF Publish
<1>9. ASSUME NEW pair \in todo, Visit(pair) PROVE Tokens'
  BY <1>9 DEF Visit
<1>10. CASE Conclude
  BY <1>10 DEF Conclude
<1>11. ASSUME NEW pair \in live \X plan.udp, AdmitPair(pair) PROVE Tokens'
  BY <1>11 DEF AdmitPair
<1>12. ASSUME NEW pair \in live \X plan.udp, Send(pair) PROVE Tokens'
  BY <1>12 DEF Send
<1>13. ASSUME NEW pair \in live \X plan.udp, Probed(pair) PROVE Tokens'
  BY <1>13 DEF Probed
<1>14. CASE UdpScanned
  BY <1>14 DEF UdpScanned
<1>15. CASE Scanned
  BY <1>15 DEF Scanned, ToPack
<1>16. CASE ServiceStarts
  BY <1>16 DEF ServiceStarts
<1>17. CASE ServiceFails
  BY <1>17 DEF ServiceFails
<1>18. CASE ServiceEnds
  BY <1>18 DEF ServiceEnds, ToPack
<1>19. CASE PackEnds
  BY <1>19 DEF PackEnds
<1>20. CASE Save
  BY <1>20 DEF Save, Types
<1>21. CASE Cancel
  BY <1>21 DEF Cancel
<1>22. CASE Resume
  BY <1>22 DEF Resume
<1>23. CASE UNCHANGED vars
  BY <1>23 DEF vars
<1> QED
  BY <1>1, <1>2, <1>3, <1>4, <1>5, <1>6, <1>7, <1>8, <1>9, <1>10, <1>11, <1>12, <1>13,
     <1>14, <1>15, <1>16, <1>17, <1>18, <1>19, <1>20, <1>21, <1>22, <1>23
  DEF Next, Run, Discovery, UdpScan

-----------------------------------------------------------------------------
(* What was found is kept. *)

\* Nothing has been found when a command starts.
LEMMA KeptInit == Init => Kept
BY DEF Init, Kept

\* What a module finds is merged before the command goes on or ends.
LEMMA KeptStep ==
  ASSUME Types, Kept, [Next]_vars
  PROVE  Kept'
<1> USE DEF Kept, collector, progress, discovery, records
<1>1. CASE Unresolved
  BY <1>1 DEF Unresolved
<1>2. CASE Resolved
  BY <1>2 DEF Resolved
<1>3. ASSUME NEW h \in Hosts, Admit(h) PROVE Kept'
  BY <1>3 DEF Admit
<1>4. ASSUME NEW h \in Hosts, Wake(h) PROVE Kept'
  BY <1>4 DEF Wake
<1>5. ASSUME NEW h \in Hosts, Pinged(h) PROVE Kept'
  BY <1>5 DEF Pinged
<1>6. ASSUME NEW h \in Hosts, Tried(h) PROVE Kept'
  BY <1>6 DEF Tried
<1>7. CASE Discovered
  BY <1>7 DEF Discovered
<1>8. ASSUME NEW pair \in todo, Publish(pair) PROVE Kept'
  BY <1>8 DEF Publish
<1>9. ASSUME NEW pair \in todo, Visit(pair) PROVE Kept'
  BY <1>9 DEF Visit
<1>10. CASE Conclude
  BY <1>10 DEF Conclude
<1>11. ASSUME NEW pair \in live \X plan.udp, AdmitPair(pair) PROVE Kept'
  BY <1>11 DEF AdmitPair
<1>12. ASSUME NEW pair \in live \X plan.udp, Send(pair) PROVE Kept'
  BY <1>12 DEF Send
<1>13. ASSUME NEW pair \in live \X plan.udp, Probed(pair) PROVE Kept'
  BY <1>13 DEF Probed
<1>14. CASE UdpScanned
  BY <1>14 DEF UdpScanned
<1>15. CASE Scanned
  BY <1>15 DEF Scanned, Merged, ToPack
<1>16. CASE ServiceStarts
  BY <1>16 DEF ServiceStarts
<1>17. CASE ServiceFails
  BY <1>17 DEF ServiceFails
<1>18. CASE ServiceEnds
  BY <1>18 DEF ServiceEnds, Merged, ToPack
<1>19. CASE PackEnds
  BY <1>19 DEF PackEnds, Merged
<1>20. CASE Save
  BY <1>20 DEF Save
<1>21. CASE Cancel
  BY <1>21 DEF Cancel
<1>22. CASE Resume
  BY <1>22 DEF Resume
<1>23. CASE UNCHANGED vars
  BY <1>23 DEF vars
<1> QED
  BY <1>1, <1>2, <1>3, <1>4, <1>5, <1>6, <1>7, <1>8, <1>9, <1>10, <1>11, <1>12, <1>13,
     <1>14, <1>15, <1>16, <1>17, <1>18, <1>19, <1>20, <1>21, <1>22, <1>23
  DEF Next, Run, Discovery, UdpScan

-----------------------------------------------------------------------------
(* Probes stop. *)

\* The futures of the UDP scan can be counted.
LEMMA WaitingFinite ==
  ASSUME Types
  PROVE  IsFiniteSet(Waiting) /\ IsFiniteSet(Active(datagrams))
<1>1. IsFiniteSet(Hosts) /\ IsFiniteSet(plan.udp)
  BY ScanAssumption DEF Types
<1>2. IsFiniteSet(DOMAIN datagrams)
  BY <1>1, FS_Product, FS_Subset DEF Types
<1> QED
  BY <1>2, FS_Subset DEF Waiting, Active

\* No probe has been sent when a command starts.
LEMMA BoundedInit == Init => Bounded
BY ScanAssumption DEF Init, Bounded

\* A late probe is of a pair that was waiting; none is admitted once the token is set.
LEMMA BoundedStep ==
  ASSUME Types, Bounded, [Next]_vars
  PROVE  Bounded'
<1> USE DEF Bounded, Scanning, progress, discovery, records
<1>1. CASE Unresolved
  BY <1>1 DEF Unresolved
<1>2. CASE Resolved
  BY <1>2 DEF Resolved
<1>3. ASSUME NEW h \in Hosts, Admit(h) PROVE Bounded'
  BY <1>3 DEF Admit
<1>4. ASSUME NEW h \in Hosts, Wake(h) PROVE Bounded'
  BY <1>4 DEF Wake, Sends
<1>5. ASSUME NEW h \in Hosts, Pinged(h) PROVE Bounded'
  BY <1>5 DEF Pinged, Probe, Sends
<1>6. ASSUME NEW h \in Hosts, Tried(h) PROVE Bounded'
  BY <1>6 DEF Tried, Probe, Sends
<1>7. CASE Discovered
  BY <1>7 DEF Discovered
<1>8. ASSUME NEW pair \in todo, Publish(pair) PROVE Bounded'
  BY <1>8 DEF Publish
<1>9. ASSUME NEW pair \in todo, Visit(pair) PROVE Bounded'
  BY <1>9 DEF Visit
<1>10. CASE Conclude
  <2>1. late = 0 \/ token
    BY <1>10 DEF Conclude
  <2>2. CASE pc' = "udp"
    <3>1. /\ late' = 0 /\ token' = token
          /\ datagrams' = [pair \in live \X plan.udp |-> "queued"]
      BY <1>10, <2>2 DEF Conclude
    <3>2. Waiting' = {}
      BY <3>1 DEF Waiting
    <3> QED
      BY <2>2, <3>1, <3>2, FS_EmptySet, ScanAssumption
  <2>3. CASE pc' # "udp"
    BY <1>10, <2>3 DEF Conclude
  <2> QED
    BY <2>2, <2>3
<1>11. ASSUME NEW pair \in live \X plan.udp, AdmitPair(pair) PROVE Bounded'
  <2>1. pc = "udp" /\ pc' = pc /\ token' = token /\ late' = late
    BY <1>11 DEF AdmitPair
  <2>2. datagrams' # <<>>
    BY <1>11, NoDatagrams DEF AdmitPair
  <2>3. CASE token
    <3>1. Waiting' = Waiting
      BY <1>11, <2>3 DEF AdmitPair, Waiting
    <3> QED
      BY <2>1, <2>2, <2>3, <3>1
  <2>4. CASE ~token
    <3>1. Waiting' = Waiting \cup {pair} /\ pair \notin Waiting
      BY <1>11, <2>4 DEF AdmitPair, Waiting
    <3>2. Cardinality(Waiting') = Cardinality(Waiting) + 1
      BY <3>1, WaitingFinite, FS_AddElement
    <3>3. Waiting \subseteq Active(datagrams)
      BY DEF Waiting, Active
    <3>4. /\ Cardinality(Waiting) \in Nat /\ Cardinality(Active(datagrams)) \in Nat
          /\ Cardinality(Waiting) <= Cardinality(Active(datagrams))
      BY <3>3, WaitingFinite, FS_Subset, FS_CardinalityType
    <3>5. Cardinality(Active(datagrams)) < Concurrency
      BY <1>11 DEF AdmitPair
    <3>6. late' = 0
      BY <2>1, <2>4
    <3>7. Cardinality(Waiting') <= Concurrency /\ Cardinality(Waiting') \in Nat
      BY <3>2, <3>4, <3>5, ScanAssumption
    <3> QED
      BY <2>1, <2>2, <2>4, <3>6, <3>7, ScanAssumption
  <2> QED
    BY <2>3, <2>4
<1>12. ASSUME NEW pair \in live \X plan.udp, Send(pair) PROVE Bounded'
  <2>1. /\ pc = "udp" /\ pc' = pc /\ token' = token
        /\ late' = IF token THEN late + 1 ELSE late
    BY <1>12 DEF Send, Sends
  <2>2. datagrams' # <<>>
    BY <1>12, NoDatagrams DEF Send
  <2>3. Waiting' = Waiting \ {pair} /\ pair \in Waiting
    BY <1>12 DEF Send, Waiting
  <2>4. /\ Cardinality(Waiting') = Cardinality(Waiting) - 1
        /\ Cardinality(Waiting) \in Nat /\ Cardinality(Waiting') \in Nat
    BY <2>3, WaitingFinite, FS_RemoveElement, FS_CardinalityType
  <2>5. late' + Cardinality(Waiting') <= Concurrency
    BY <2>1, <2>4, ScanAssumption DEF Types
  <2>6. late' <= Concurrency
    BY <2>1, <2>4, <2>5, ScanAssumption DEF Types
  <2> QED
    BY <2>1, <2>2, <2>5, <2>6
<1>13. ASSUME NEW pair \in live \X plan.udp, Probed(pair) PROVE Bounded'
  <2>1. pc = "udp" /\ pc' = pc /\ token' = token /\ late' = late
    BY <1>13 DEF Probed
  <2>2. datagrams' # <<>>
    BY <1>13, NoDatagrams DEF Probed
  <2>3. Waiting' = Waiting
    BY <1>13 DEF Probed, Waiting
  <2> QED
    BY <2>1, <2>2, <2>3
<1>14. CASE UdpScanned
  BY <1>14 DEF UdpScanned
<1>15. CASE Scanned
  BY <1>15 DEF Scanned, ToPack
<1>16. CASE ServiceStarts
  BY <1>16 DEF ServiceStarts
<1>17. CASE ServiceFails
  BY <1>17 DEF ServiceFails
<1>18. CASE ServiceEnds
  BY <1>18 DEF ServiceEnds, ToPack
<1>19. CASE PackEnds
  BY <1>19 DEF PackEnds
<1>20. CASE Save
  BY <1>20 DEF Save
<1>21. CASE Cancel
  BY <1>21 DEF Cancel, Waiting
<1>22. CASE Resume
  BY <1>22, ScanAssumption DEF Resume
<1>23. CASE UNCHANGED vars
  BY <1>23 DEF vars, Waiting
<1> QED
  BY <1>1, <1>2, <1>3, <1>4, <1>5, <1>6, <1>7, <1>8, <1>9, <1>10, <1>11, <1>12, <1>13,
     <1>14, <1>15, <1>16, <1>17, <1>18, <1>19, <1>20, <1>21, <1>22, <1>23
  DEF Next, Run, Discovery, UdpScan

-----------------------------------------------------------------------------
(* Nothing is passed over. *)

\* A result is not lost when others are added.
LEMMA ResultsStay ==
  ASSUME NEW rs, NEW more, NEW pair, NEW protocol, HasResult(pair, protocol, rs)
  PROVE  HasResult(pair, protocol, rs \cup more)
BY DEF HasResult

\* A result that is added is there.
LEMMA ResultsGrow ==
  ASSUME NEW rs, NEW pair, NEW protocol, NEW s \in States
  PROVE  HasResult(pair, protocol, rs \cup {Result(pair, protocol, s)})
BY DEF HasResult

\* A command starts with nothing to cover.
LEMMA CoveredInit == Init => Covered
BY DEF Init, Covered, After

\* No step leaves out an address or a pair unless the module is cut.
LEMMA CoveredStep ==
  ASSUME Types, Tokens, Covered, [Next]_vars
  PROVE  Covered'
<1> USE DEF Covered, After, Uncut, Silent, Tcp, Udp, Skipped, progress, discovery, records
<1>0. pc \in Scanning /\ token => "scan" \in cut
  BY DEF Tokens, Running, Scanning
<1>1. CASE Unresolved
  BY <1>0, <1>1 DEF Unresolved, Scanning
<1>2. CASE Resolved
  BY <1>2 DEF Resolved, Pairs
<1>3. ASSUME NEW h \in Hosts, Admit(h) PROVE Covered'
  <2>1. pc' = "discover" /\ plan' = plan /\ plan.discover
    BY <1>3 DEF Admit
  <2>2. Uncut => ~token
    BY <1>0, <1>3 DEF Admit, Scanning
  <2>3. Uncut' => \A x \in Hosts : hosts'[x] # "left" /\ (hosts'[x] = "down" => Silent(x)')
    BY <1>3, <2>2 DEF Admit, Types
  <2> QED
    BY <2>1, <2>3
<1>4. ASSUME NEW h \in Hosts, Wake(h) PROVE Covered'
  <2>1. pc' = "discover" /\ plan' = plan /\ plan.discover
    BY <1>4 DEF Wake
  <2>2. Uncut => ~token
    BY <1>0, <1>4 DEF Wake, Scanning
  <2>3. Uncut' => \A x \in Hosts : hosts'[x] # "left" /\ (hosts'[x] = "down" => Silent(x)')
    BY <1>4, <2>2 DEF Wake, Types
  <2> QED
    BY <2>1, <2>3
<1>5. ASSUME NEW h \in Hosts, Pinged(h) PROVE Covered'
  <2>1. pc' = "discover" /\ plan' = plan /\ plan.discover
    BY <1>5 DEF Pinged
  <2>2. Uncut => ~token
    BY <1>0, <1>5 DEF Pinged, Scanning
  <2>3. Uncut' => \A x \in Hosts : hosts'[x] # "left" /\ (hosts'[x] = "down" => Silent(x)')
    BY <1>5, <2>2, ScanAssumption DEF Pinged, Probe, Types
  <2> QED
    BY <2>1, <2>3
<1>6. ASSUME NEW h \in Hosts, Tried(h) PROVE Covered'
  <2>1. pc' = "discover" /\ plan' = plan /\ plan.discover
    BY <1>6 DEF Tried
  <2>2. Uncut => ~token
    BY <1>0, <1>6 DEF Tried, Scanning
  <2>3. Uncut' => \A x \in Hosts : hosts'[x] # "left" /\ (hosts'[x] = "down" => Silent(x)')
    BY <1>6, <2>2, ScanAssumption DEF Tried, Probe, Types
  <2> QED
    BY <2>1, <2>3
<1>7. CASE Discovered
  <2>1. /\ hosts' = hosts /\ tries' = tries /\ cut' = cut /\ plan' = plan /\ token' = token
        /\ prior' = prior /\ results' = results
        /\ live' = Up /\ plan.discover
    BY <1>7 DEF Discovered
  <2>2. Uncut => \A h \in Hosts \ Up : Silent(h)
    BY <1>7 DEF Discovered, Up
  <2>3. CASE Up = {}
    BY <1>0, <1>7, <2>1, <2>2, <2>3 DEF Discovered, Scanning
  <2>4. CASE Up # {}
    BY <1>7, <2>1, <2>2, <2>4 DEF Discovered, Pairs
  <2> QED
    BY <2>3, <2>4
<1>8. ASSUME NEW pair \in todo, Publish(pair) PROVE Covered'
  <2>1. /\ pc = "tcp" /\ pc' = pc /\ cut' = cut /\ plan' = plan /\ live' = live /\ prior' = prior
        /\ hosts' = hosts /\ tries' = tries /\ todo' = todo \ {pair}
    BY <1>8 DEF Publish
  <2>2. PICK s \in States : results' = results \cup {Result(pair, "tcp", s)}
    BY <1>8 DEF Publish
  <2>3. /\ HasResult(pair, "tcp", results')
        /\ \A q : HasResult(q, "tcp", results) => HasResult(q, "tcp", results')
    BY <2>2, ResultsGrow, ResultsStay
  <2> QED
    BY <2>1, <2>3
<1>9. ASSUME NEW pair \in todo, Visit(pair) PROVE Covered'
  <2>1. /\ pc \in {"service", "pack"} /\ pc' = pc /\ cut' = cut /\ plan' = plan
        /\ live' = live /\ prior' = prior /\ hosts' = hosts /\ tries' = tries
    BY <1>9 DEF Visit
  <2>2. \E more : results' = results \cup more
    <3>1. CASE results' = results
      <4>1. results' = results \cup {}
        BY <3>1
      <4> QED
        BY <4>1
    <3>2. CASE results' = results \cup {Result(pair, "tcp", "open")}
      BY <3>2
    <3> QED
      BY <1>9, <3>1, <3>2 DEF Visit
  <2>3. \A q, protocol : HasResult(q, protocol, results) => HasResult(q, protocol, results')
    BY <2>2, ResultsStay
  <2> QED
    BY <2>1, <2>3
<1>10. CASE Conclude
  <2>1. /\ pc = "tcp" /\ cut' = cut /\ plan' = plan /\ live' = live /\ prior' = prior
        /\ hosts' = hosts /\ tries' = tries /\ results' = results /\ token' = token
    BY <1>10 DEF Conclude
  <2>2. Uncut => ~token /\ \A pair \in todo : Skipped(pair)
    BY <1>0, <1>10 DEF Conclude, Scanning
  <2>3. CASE plan.udp # {} /\ ~token
    <3>1. pc' = "udp" /\ datagrams' = [q \in live \X plan.udp |-> "queued"]
      BY <1>10, <2>3 DEF Conclude
    <3> QED
      BY <2>1, <2>2, <3>1
  <2>4. CASE ~(plan.udp # {} /\ ~token)
    <3>1. pc' = "scanned"
      BY <1>10, <2>4 DEF Conclude
    <3> QED
      BY <1>0, <2>1, <2>2, <2>4, <3>1 DEF Scanning
  <2> QED
    BY <2>3, <2>4
<1>11. ASSUME NEW pair \in live \X plan.udp, AdmitPair(pair) PROVE Covered'
  <2>1. /\ pc = "udp" /\ pc' = pc /\ cut' = cut /\ plan' = plan /\ live' = live /\ prior' = prior
        /\ hosts' = hosts /\ tries' = tries /\ results' = results
        /\ datagrams[pair] = "queued"
    BY <1>11 DEF AdmitPair
  <2>2. Uncut => datagrams' = [datagrams EXCEPT ![pair] = "waiting"]
    BY <1>0, <1>11 DEF AdmitPair, Scanning
  <2> QED
    BY <2>1, <2>2
<1>12. ASSUME NEW pair \in live \X plan.udp, Send(pair) PROVE Covered'
  BY <1>12 DEF Send
<1>13. ASSUME NEW pair \in live \X plan.udp, Probed(pair) PROVE Covered'
  <2>1. /\ pc = "udp" /\ pc' = pc /\ cut' = cut /\ plan' = plan /\ live' = live /\ prior' = prior
        /\ hosts' = hosts /\ tries' = tries
        /\ datagrams' = [datagrams EXCEPT ![pair] = "done"]
    BY <1>13 DEF Probed
  <2>2. PICK s \in States : results' = results \cup {Result(pair, "udp", s)}
    BY <1>13 DEF Probed
  <2>3. /\ HasResult(pair, "udp", results')
        /\ \A q, protocol : HasResult(q, protocol, results) => HasResult(q, protocol, results')
    BY <2>2, ResultsGrow, ResultsStay
  <2> QED
    BY <2>1, <2>3
<1>14. CASE UdpScanned
  <2>1. /\ pc = "udp" /\ pc' = "scanned" /\ cut' = cut /\ plan' = plan /\ live' = live
        /\ prior' = prior /\ hosts' = hosts /\ tries' = tries /\ results' = results
        /\ token' = token /\ datagrams' = datagrams
        /\ \A q \in DOMAIN datagrams : datagrams[q] \in {"done", "left"}
    BY <1>14 DEF UdpScanned
  <2> QED
    BY <1>0, <2>1 DEF Scanning
<1>15. CASE Scanned
  BY <1>15 DEF Scanned, ToPack
<1>16. CASE ServiceStarts
  BY <1>16 DEF ServiceStarts
<1>17. CASE ServiceFails
  BY <1>17 DEF ServiceFails
<1>18. CASE ServiceEnds
  BY <1>18 DEF ServiceEnds, ToPack
<1>19. CASE PackEnds
  BY <1>19 DEF PackEnds
<1>20. CASE Save
  BY <1>20 DEF Save
<1>21. CASE Cancel
  BY <1>21 DEF Cancel, Running, Scanning
<1>22. CASE Resume
  BY <1>22 DEF Resume
<1>23. CASE UNCHANGED vars
  BY <1>23 DEF vars
<1> QED
  BY <1>1, <1>2, <1>3, <1>4, <1>5, <1>6, <1>7, <1>8, <1>9, <1>10, <1>11, <1>12, <1>13,
     <1>14, <1>15, <1>16, <1>17, <1>18, <1>19, <1>20, <1>21, <1>22, <1>23
  DEF Next, Run, Discovery, UdpScan

-----------------------------------------------------------------------------
(* Theorems. *)

\* The invariant that the others follow from holds in every reachable state.
THEOREM Invariance == Spec => []IInv
<1>1. Init => IInv
  BY TypesInit, TokensInit, KeptInit, BoundedInit, CoveredInit DEF IInv
<1>2. IInv /\ [Next]_vars => IInv'
  BY TypesStep, TokensStep, KeptStep, BoundedStep, CoveredStep DEF IInv
<1> QED
  BY <1>1, <1>2, PTL DEF Spec

\* Every state of a command is well typed, and a token that is set is that of the
\* module that runs (run_module_opts).
THEOREM TypeCorrect == Spec => []TypeOK
<1>1. IInv => TypeOK
  <2> SUFFICES ASSUME IInv PROVE TypeOK
    OBVIOUS
  <2>1. DOMAIN datagrams \subseteq Pair
    BY PairsOfPlan DEF IInv, Types
  <2>2. Tokens /\ Types
    BY DEF IInv
  <2> QED
    BY <2>1, <2>2 DEF Types, Tokens, TypeOK, Steps, HostStages
<1> QED
  BY <1>1, Invariance, PTL

\* A result under any protocol is one under TCP or UDP.
LEMMA ScannedPairs ==
  ASSUME NEW rs \in SUBSET Results, NEW pair \in scanned_pairs(rs)
  PROVE  HasResult(pair, "tcp", rs) \/ HasResult(pair, "udp", rs)
<1>1. PICK r \in rs : r[1] = pair
  BY DEF scanned_pairs
<1>2. r = <<pair, r[2], r[3]>> /\ r[2] \in {"tcp", "udp"} /\ r[3] \in States
  BY <1>1 DEF Results
<1> QED
  BY <1>1, <1>2 DEF HasResult, Result

\* Whatever the options and however many commands resume each other, a scan that
\* was not cancelled passes nothing over in silence (scan_cmd.rs, scan.rs).
THEOREM NothingOver == Spec => []NothingPassedOver
<1>1. IInv => NothingPassedOver
  <2> SUFFICES ASSUME IInv, pc = "over", plan.save, Uncut, NEW h \in Hosts,
                      ~(plan.discover /\ Silent(h))
               PROVE  /\ \A p \in plan.udp : HasResult(<<h, p>>, "udp", saved)
                      /\ \A p \in plan.tcp :
                           \/ HasResult(<<h, p>>, "tcp", saved)
                           \/ HasResult(<<h, p>>, "udp", prior)
                           \/ Skipped(<<h, p>>)
    BY DEF NothingPassedOver, Uncut
  <2>1. h \in live
    BY DEF IInv, Covered, After
  <2>2. saved = prior \cup results /\ saved = results \cup prior
    BY DEF IInv, Kept, collector
  <2>3. ASSUME NEW p \in plan.udp PROVE HasResult(<<h, p>>, "udp", saved)
    <3>1. HasResult(<<h, p>>, "udp", results)
      BY <2>1 DEF IInv, Covered, After, Udp
    <3> QED
      BY <2>2, <3>1, ResultsStay
  <2>4. ASSUME NEW p \in plan.tcp
        PROVE  \/ HasResult(<<h, p>>, "tcp", saved)
               \/ HasResult(<<h, p>>, "udp", prior)
               \/ Skipped(<<h, p>>)
    <3>1. Tcp(<<h, p>>)
      BY <2>1 DEF IInv, Covered, After
    <3>2. CASE HasResult(<<h, p>>, "tcp", results)
      BY <2>2, <3>2, ResultsStay
    <3>3. CASE <<h, p>> \in scanned_pairs(prior)
      <4>1. HasResult(<<h, p>>, "tcp", prior) \/ HasResult(<<h, p>>, "udp", prior)
        BY <3>3, ScannedPairs DEF IInv, Types
      <4> QED
        BY <2>2, <4>1, ResultsStay
    <3> QED
      BY <3>1, <3>2, <3>3 DEF Tcp
  <2> QED
    BY <2>3, <2>4
<1> QED
  BY <1>1, Invariance, PTL

\* What was found is in the run that is saved and, unless the command is
\* --ephemeral, in the workspace, whatever ended it (scan_cmd.rs, run_module_opts).
THEOREM FindingsKept == Spec => []FindingsAreKept
<1>1. IInv => FindingsAreKept
  BY DEF IInv, Kept, FindingsAreKept
<1> QED
  BY <1>1, Invariance, PTL

\* At most Concurrency probes leave after Ctrl+C, and none before the UDP scan
\* (discover.rs, udp.rs).
THEOREM FewProbes == Spec => []ProbesStop
<1>1. IInv => ProbesStop
  BY DEF IInv, Bounded, ProbesStop
<1> QED
  BY <1>1, Invariance, PTL

-----------------------------------------------------------------------------
(* A command ends: each of its steps brings it nearer to its end. *)

\* What came of results is finite, though the plans may be infinitely many.
Finite ==
  IsFiniteSet(todo) /\ IsFiniteSet(prior) /\ IsFiniteSet(results) /\ IsFiniteSet(saved)

\* How many parts of the command are ahead.
PartsLeft ==
  CASE pc = "resolve" -> 9
    [] pc = "discover" -> 8
    [] pc = "tcp" -> 7
    [] pc = "udp" -> 6
    [] pc = "scanned" -> 5
    [] pc = "asked" -> 4
    [] pc = "service" -> 3
    [] pc = "pack" -> 2
    [] pc = "save" -> 1
    [] OTHER -> 0

\* How many steps the future of an address or of a pair may still take.
HostLeft ==
  [h \in Hosts |->
    CASE hosts[h] = "queued" -> ProbePorts + 4
      [] hosts[h] = "waiting" -> ProbePorts + 3
      [] hosts[h] = "pinging" -> ProbePorts + 2
      [] hosts[h] = "probing" -> ProbePorts + 1 - tries[h]
      [] OTHER -> 0]

PairLeft ==
  [pair \in DOMAIN datagrams |->
    CASE datagrams[pair] = "queued" -> 3
      [] datagrams[pair] = "waiting" -> 2
      [] datagrams[pair] = "probing" -> 1
      [] OTHER -> 0]

\* The steps counted by a function to 0 .. n, and their number.
StepsOf(left, n) == {step \in (DOMAIN left) \X (1 .. n) : step[2] <= left[step[1]]}

WorkLeft ==
  CASE pc = "discover" -> Cardinality(StepsOf(HostLeft, ProbePorts + 4))
    [] pc = "udp" -> Cardinality(StepsOf(PairLeft, 3))
    [] pc \in {"tcp", "service", "pack"} -> Cardinality(todo)
    [] OTHER -> 0

\* The parts ahead, the token and the work left in the part, compared in this order:
\* the first that differs is smaller.
Nearer ==
  \/ PartsLeft' < PartsLeft
  \/ /\ PartsLeft' = PartsLeft
     /\ \/ ~token /\ token'
        \/ token' = token /\ WorkLeft' < WorkLeft

\* Each step of a command brings it nearer to its end: however its futures wait for
\* each other, whatever answers, and whenever Ctrl+C comes, it cannot go round in
\* circles (discover.rs, udp.rs, scan_cmd.rs).
EveryStepCounts == [][pc \notin {"over", "failed"} => Nearer]_vars

LEMMA StepsFinite ==
  ASSUME NEW D, IsFiniteSet(D), NEW n \in Nat, NEW f \in [D -> 0 .. n]
  PROVE  IsFiniteSet(StepsOf(f, n)) /\ Cardinality(StepsOf(f, n)) \in Nat
<1>1. IsFiniteSet(D \X (1 .. n))
  <2>1. IsFiniteSet(1 .. n)
    BY FS_Interval
  <2> QED
    BY <2>1, FS_Product
<1>2. StepsOf(f, n) \subseteq D \X (1 .. n)
  <2>1. DOMAIN f = D
    OBVIOUS
  <2> QED
    BY <2>1 DEF StepsOf
<1> QED
  BY <1>1, <1>2, FS_Subset, FS_CardinalityType

\* When one value falls and no other changes there are fewer steps.
LEMMA FewerSteps ==
  ASSUME NEW D, IsFiniteSet(D), NEW n \in Nat, NEW f \in [D -> 0 .. n],
         NEW g \in [D -> 0 .. n], NEW d \in D, g[d] < f[d],
         \A e \in D \ {d} : g[e] = f[e]
  PROVE  Cardinality(StepsOf(g, n)) < Cardinality(StepsOf(f, n))
<1> DEFINE F == StepsOf(f, n)
           G == StepsOf(g, n)
<1>1. IsFiniteSet(F) /\ Cardinality(F) \in Nat /\ Cardinality(G) \in Nat
  BY StepsFinite
<1>2. DOMAIN f = D /\ DOMAIN g = D /\ \A e \in D : f[e] \in 0 .. n /\ g[e] \in 0 .. n
  OBVIOUS
<1>5. G \subseteq F
  <2> SUFFICES ASSUME NEW s \in G PROVE s \in F
    OBVIOUS
  <2>1. s \in D \X (1 .. n) /\ s[2] <= g[s[1]]
    BY <1>2 DEF StepsOf
  <2>2. s[1] \in D /\ s[2] \in 1 .. n
    BY <2>1
  <2>3. s[2] <= f[s[1]]
    <3>1. g[s[1]] <= f[s[1]]
      BY <1>2, <2>2
    <3>2. g[s[1]] \in Int /\ f[s[1]] \in Int /\ s[2] \in Int
      BY <1>2, <2>2
    <3> QED
      BY <2>1, <3>1, <3>2
  <2> QED
    BY <1>2, <2>1, <2>3 DEF StepsOf
<1>3. <<d, f[d]>> \in F /\ <<d, f[d]>> \notin G
  <2> DEFINE s == <<d, f[d]>>
  <2>1. s \in D \X (1 .. n) /\ s[1] = d /\ s[2] = f[d] /\ ~(f[d] <= g[d]) /\ f[d] <= f[d]
    BY <1>2
  <2> HIDE DEF s
  <2> QED
    BY <1>2, <2>1 DEF StepsOf, s
<1>4. Cardinality(G) <= Cardinality(F) /\ (Cardinality(F) = Cardinality(G) => F = G)
  BY <1>1, <1>5, FS_Subset
<1> QED
  BY <1>1, <1>3, <1>4

LEMMA OpenPortsFinite ==
  ASSUME NEW rs, IsFiniteSet(rs)
  PROVE  IsFiniteSet(open_ports(rs))
<1> DEFINE S == {x \in rs : x[3] = "open"}
<1>1. IsFiniteSet(S)
  BY FS_Subset
<1>2. IsFiniteSet({r[1] : r \in S})
  <2> DEFINE f == [r \in S |-> r[1]]
             T == {r[1] : r \in S}
  <2>1. f \in Surjection(S, T)
    BY DEF Surjection
  <2> QED
    BY <1>1, <2>1, FS_Surjection
<1> QED
  BY <1>2 DEF open_ports

LEMMA FiniteInvariant == Spec => []Finite
<1>1. Init => Finite
  BY FS_EmptySet DEF Init, Finite
<1>2. Types /\ Finite /\ [Next]_vars => Finite'
  <2> SUFFICES ASSUME Types, Finite, [Next]_vars PROVE Finite'
    OBVIOUS
  <2>1. IsFiniteSet(Hosts) /\ IsFiniteSet(plan.tcp) /\ IsFiniteSet({})
    BY ScanAssumption, FS_EmptySet DEF Types
  <2>2. IsFiniteSet(collector) /\ IsFiniteSet(open_ports(collector))
    BY FS_Union, OpenPortsFinite DEF Finite, collector
  <2>3. \A S : S \subseteq Hosts => IsFiniteSet(Pairs(S))
    <3>1. ASSUME NEW S \in SUBSET Hosts PROVE IsFiniteSet(Pairs(S))
      <4>1. IsFiniteSet(S \X plan.tcp)
        BY <2>1, FS_Subset, FS_Product
      <4> QED
        BY <4>1, FS_Subset DEF Pairs
    <3> QED
      BY <3>1
  <2>4. IsFiniteSet(Hosts \X ServicePorts)
    <3>1. IsFiniteSet({p[2] : p \in open_ports(collector)})
      <4> DEFINE S == open_ports(collector)
                 f == [p \in S |-> p[2]]
                 T == {p[2] : p \in S}
      <4>1. f \in Surjection(S, T)
        BY DEF Surjection
      <4> QED
        BY <2>2, <4>1, FS_Surjection
    <3>2. IsFiniteSet(ServicePorts)
      BY <2>1, <3>1 DEF ServicePorts
    <3> QED
      BY <2>1, <3>2, FS_Product
  <2>5. \A S, x : IsFiniteSet(S) => IsFiniteSet(S \cup {x}) /\ IsFiniteSet(S \ {x})
    BY FS_AddElement, FS_RemoveElement
  <2>6. CASE Resume
    BY <2>1, <2>6 DEF Resume, Finite
  <2>7. CASE Resolved \/ Discovered
    <3>1. Up \subseteq Hosts
      BY DEF Up
    <3> QED
      BY <2>3, <2>7, <3>1 DEF Resolved, Discovered, Finite, records
  <2>8. CASE \E pair \in todo : Publish(pair) \/ Visit(pair)
    <3>0. PICK pair \in todo : todo' = todo \ {pair} /\ UNCHANGED <<prior, saved>>
      BY <2>8 DEF Publish, Visit
    <3>1. IsFiniteSet(todo') /\ UNCHANGED <<prior, saved>>
      BY <2>5, <3>0 DEF Finite
    <3>2. results' = results \/ \E x : results' = results \cup {x}
      BY <2>8 DEF Publish, Visit
    <3> QED
      BY <2>5, <3>1, <3>2 DEF Finite
  <2>9. CASE Conclude
    BY <2>1, <2>9 DEF Conclude, Finite, records
  <2>10. CASE UdpScan
    <3>1. UNCHANGED <<todo, prior, saved>>
      BY <2>10 DEF UdpScan, AdmitPair, Send, Probed, records
    <3>2. results' = results \/ \E x : results' = results \cup {x}
      BY <2>10 DEF UdpScan, AdmitPair, Send, Probed, records
    <3> QED
      BY <2>5, <3>1, <3>2 DEF Finite
  <2>11. CASE Scanned \/ ServiceEnds
    BY <2>1, <2>2, <2>11 DEF Scanned, ServiceEnds, ToPack, Finite
  <2>12. CASE ServiceStarts
    BY <2>4, <2>12 DEF ServiceStarts, Finite, records
  <2>13. CASE PackEnds \/ Save
    BY <2>1, <2>2, <2>13 DEF PackEnds, Save, Finite
  <2>14. CASE Unresolved \/ Discovery \/ UdpScanned \/ ServiceFails \/ Cancel \/ UNCHANGED vars
    BY <2>14 DEF Unresolved, Discovery, Admit, Wake, Pinged, Tried, UdpScanned, ServiceFails,
                 Cancel, vars, Finite, records
  <2> QED
    BY <2>6, <2>7, <2>8, <2>9, <2>10, <2>11, <2>12, <2>13, <2>14 DEF Next, Run
<1>3. IInv => Types
  BY DEF IInv
<1> QED
  BY <1>1, <1>2, <1>3, Invariance, PTL DEF Spec

\* The functions are what StepsOf counts.
LEMMA LeftTypes ==
  ASSUME Types
  PROVE  /\ IsFiniteSet(Hosts) /\ IsFiniteSet(DOMAIN datagrams)
         /\ HostLeft \in [Hosts -> 0 .. ProbePorts + 4]
         /\ PairLeft \in [DOMAIN datagrams -> 0 .. 3]
<1>1. IsFiniteSet(Hosts) /\ IsFiniteSet(plan.udp) /\ ProbePorts \in Nat
  BY ScanAssumption DEF Types
<1>2. IsFiniteSet(DOMAIN datagrams)
  BY <1>1, FS_Product, FS_Subset DEF Types
<1>3. HostLeft \in [Hosts -> 0 .. ProbePorts + 4]
  <2>1. \A h \in Hosts : tries[h] \in 0 .. ProbePorts
    BY DEF Types
  <2> QED
    BY <1>1, <2>1 DEF HostLeft
<1>4. PairLeft \in [DOMAIN datagrams -> 0 .. 3]
  BY DEF PairLeft
<1> QED
  BY <1>1, <1>2, <1>3, <1>4

\* The measure is well founded: natural numbers.
THEOREM Measured == Spec => [](PartsLeft \in 0 .. 9 /\ WorkLeft \in Nat)
<1>1. Types /\ Finite => PartsLeft \in 0 .. 9 /\ WorkLeft \in Nat
  <2> SUFFICES ASSUME Types, Finite PROVE PartsLeft \in 0 .. 9 /\ WorkLeft \in Nat
    OBVIOUS
  <2>1. PartsLeft \in 0 .. 9
    BY DEF PartsLeft
  <2>2. ProbePorts + 4 \in Nat /\ 3 \in Nat
    BY ScanAssumption
  <2>3. /\ Cardinality(StepsOf(HostLeft, ProbePorts + 4)) \in Nat
        /\ Cardinality(StepsOf(PairLeft, 3)) \in Nat
    BY <2>2, LeftTypes, StepsFinite
  <2>4. Cardinality(todo) \in Nat
    BY FS_CardinalityType DEF Finite
  <2> QED
    BY <2>1, <2>3, <2>4 DEF WorkLeft
<1>2. IInv => Types
  BY DEF IInv
<1> QED
  BY <1>1, <1>2, Invariance, FiniteInvariant, PTL

\* A step of the future of an address.
LEMMA DiscoveryNearer ==
  ASSUME Types, Types', NEW h \in Hosts, Admit(h) \/ Wake(h) \/ Pinged(h) \/ Tried(h)
  PROVE  Nearer
<1>1. pc = "discover" /\ UNCHANGED <<pc, token>>
  BY DEF Admit, Wake, Pinged, Tried
<1>2. PartsLeft' = PartsLeft
  BY <1>1 DEF PartsLeft
<1>3. /\ hosts[h] \in HostStages /\ tries[h] \in 0 .. ProbePorts /\ ProbePorts \in Nat
      /\ hosts[h] = "probing" => tries[h] < ProbePorts
      /\ hosts[h] \in {"queued", "waiting", "pinging"} => tries[h] = 0
      /\ hosts'[h] \in HostStages /\ tries'[h] \in 0 .. ProbePorts
  BY ScanAssumption DEF Types
<1>4. \A g \in Hosts \ {h} : hosts'[g] = hosts[g] /\ tries'[g] = tries[g]
  BY DEF Types, Admit, Wake, Pinged, Tried, Probe
<1>5. HostLeft'[h] < HostLeft[h]
  <2>1. CASE Admit(h)
    <3>1. hosts[h] = "queued" /\ hosts'[h] \in {"left", "waiting"} /\ tries' = tries
      BY <2>1 DEF Admit, Types
    <3> QED
      BY <1>3, <3>1 DEF HostLeft
  <2>2. CASE Wake(h)
    <3>1. hosts[h] = "waiting" /\ hosts'[h] \in {"left", "pinging"} /\ tries' = tries
      BY <2>2 DEF Wake, Types
    <3> QED
      BY <1>3, <3>1 DEF HostLeft
  <2>3. CASE Pinged(h)
    <3>1. hosts[h] = "pinging" /\ hosts'[h] \in {"up", "down", "probing"} /\ tries' = tries
      BY <2>3 DEF Pinged, Probe, Types
    <3> QED
      BY <1>3, <3>1 DEF HostLeft
  <2>4. CASE Tried(h)
    <3>1. /\ hosts[h] = "probing"
          /\ \/ hosts'[h] \in {"up", "down"}
             \/ hosts'[h] = "probing" /\ tries'[h] = tries[h] + 1
      BY <2>4 DEF Tried, Probe, Types
    <3>2. HostLeft[h] = ProbePorts + 1 - tries[h]
      BY <3>1 DEF HostLeft
    <3>3. CASE hosts'[h] \in {"up", "down"}
      <4>1. HostLeft'[h] = 0
        BY <3>3 DEF HostLeft
      <4> QED
        BY <1>3, <3>2, <4>1
    <3>4. CASE hosts'[h] = "probing" /\ tries'[h] = tries[h] + 1
      <4>1. HostLeft'[h] = ProbePorts + 1 - tries'[h]
        BY <3>4 DEF HostLeft
      <4> QED
        BY <1>3, <3>2, <3>4, <4>1
    <3> QED
      BY <3>1, <3>3, <3>4
  <2> QED
    BY <2>1, <2>2, <2>3, <2>4
<1>6. \A g \in Hosts \ {h} : HostLeft'[g] = HostLeft[g]
  BY <1>4 DEF HostLeft
<1>7. HostLeft \in [Hosts -> 0 .. ProbePorts + 4] /\ HostLeft' \in [Hosts -> 0 .. ProbePorts + 4]
  <2>1. HostLeft \in [Hosts -> 0 .. ProbePorts + 4]
    BY LeftTypes
  <2>2. \A g \in Hosts : tries'[g] \in 0 .. ProbePorts
    BY DEF Types
  <2>3. HostLeft' \in [Hosts -> 0 .. ProbePorts + 4]
    BY <1>3, <2>2 DEF HostLeft
  <2> QED
    BY <2>1, <2>3
<1>8. IsFiniteSet(Hosts) /\ ProbePorts + 4 \in Nat
  BY <1>3, ScanAssumption
<1>9. Cardinality(StepsOf(HostLeft', ProbePorts + 4)) < Cardinality(StepsOf(HostLeft, ProbePorts + 4))
  BY <1>5, <1>6, <1>7, <1>8, FewerSteps
<1>10. WorkLeft' < WorkLeft
  <2>1. WorkLeft = Cardinality(StepsOf(HostLeft, ProbePorts + 4))
    BY <1>1 DEF WorkLeft
  <2>2. WorkLeft' = Cardinality(StepsOf(HostLeft', ProbePorts + 4))
    BY <1>1 DEF WorkLeft, StepsOf
  <2> QED
    BY <1>9, <2>1, <2>2
<1> QED
  BY <1>1, <1>2, <1>10 DEF Nearer

\* A step of the future of a pair of the UDP scan.
LEMMA UdpNearer ==
  ASSUME Types, NEW pair \in live \X plan.udp, AdmitPair(pair) \/ Send(pair) \/ Probed(pair)
  PROVE  Nearer
<1>1. pc = "udp" /\ UNCHANGED <<pc, token>> /\ pair \in DOMAIN datagrams
  BY DEF AdmitPair, Send, Probed
<1>2. PartsLeft' = PartsLeft
  BY <1>1 DEF PartsLeft
<1> DEFINE D == DOMAIN datagrams
<1>3. /\ DOMAIN datagrams' = D
      /\ \A d \in D \ {pair} : datagrams'[d] = datagrams[d]
      /\ \/ datagrams[pair] = "queued" /\ datagrams'[pair] \in {"left", "waiting"}
         \/ datagrams[pair] = "waiting" /\ datagrams'[pair] = "probing"
         \/ datagrams[pair] = "probing" /\ datagrams'[pair] = "done"
  BY DEF AdmitPair, Send, Probed
<1>4. PairLeft'[pair] < PairLeft[pair]
  BY <1>1, <1>3 DEF PairLeft
<1>5. \A d \in D \ {pair} : PairLeft'[d] = PairLeft[d]
  BY <1>3 DEF PairLeft
<1>6. PairLeft \in [D -> 0 .. 3] /\ PairLeft' \in [D -> 0 .. 3]
  BY <1>3 DEF PairLeft
<1>7. IsFiniteSet(D) /\ 3 \in Nat
  BY LeftTypes
<1> HIDE DEF D
<1>8. Cardinality(StepsOf(PairLeft', 3)) < Cardinality(StepsOf(PairLeft, 3))
  <2>1. pair \in D
    BY <1>1 DEF D
  <2> QED
    BY <1>4, <1>5, <1>6, <1>7, <2>1, FewerSteps
<1>9. WorkLeft' < WorkLeft
  <2>1. WorkLeft = Cardinality(StepsOf(PairLeft, 3))
    BY <1>1 DEF WorkLeft
  <2>2. WorkLeft' = Cardinality(StepsOf(PairLeft', 3))
    BY <1>1 DEF WorkLeft, StepsOf
  <2> QED
    BY <1>8, <2>1, <2>2
<1> QED
  BY <1>1, <1>2, <1>9 DEF Nearer

\* A pair that is reported or visited is no longer to be.
LEMMA PairNearer ==
  ASSUME Finite, NEW pair \in todo, Publish(pair) \/ Visit(pair)
  PROVE  Nearer
<1>1. /\ pc \in {"tcp", "service", "pack"} /\ UNCHANGED <<pc, token>>
      /\ todo' = todo \ {pair}
  BY DEF Publish, Visit
<1>2. PartsLeft' = PartsLeft
  BY <1>1 DEF PartsLeft
<1>3. Cardinality(todo') < Cardinality(todo)
  <2>1. IsFiniteSet(todo) /\ Cardinality(todo) \in Nat
    BY FS_CardinalityType DEF Finite
  <2>2. Cardinality(todo \ {pair}) = Cardinality(todo) - 1
    BY <2>1, FS_RemoveElement
  <2> QED
    BY <1>1, <2>1, <2>2
<1>4. WorkLeft' < WorkLeft
  BY <1>1, <1>3 DEF WorkLeft
<1> QED
  BY <1>1, <1>2, <1>4 DEF Nearer

\* Whatever the network and the user do, no part of a command goes on for ever.
THEOREM CommandsShrink == Spec => EveryStepCounts
<1>1. Types /\ Types' /\ Finite /\ [Next]_vars => [pc \notin {"over", "failed"} => Nearer]_vars
  <2> SUFFICES ASSUME Types, Types', Finite, Next, pc \notin {"over", "failed"} PROVE Nearer
    OBVIOUS
  <2>1. CASE Discovery
    BY <2>1, DiscoveryNearer DEF Discovery
  <2>2. CASE UdpScan
    BY <2>2, UdpNearer DEF UdpScan
  <2>3. CASE \E pair \in todo : Publish(pair) \/ Visit(pair)
    BY <2>3, PairNearer
  <2>4. CASE Unresolved \/ Resolved \/ Discovered \/ Conclude \/ UdpScanned
    <3>1. PartsLeft' < PartsLeft
      BY <2>4 DEF Unresolved, Resolved, Discovered, Conclude, UdpScanned, PartsLeft
    <3> QED
      BY <3>1 DEF Nearer
  <2>5. CASE Scanned \/ ServiceStarts \/ ServiceFails \/ ServiceEnds \/ PackEnds \/ Save
    <3>1. PartsLeft' < PartsLeft
      BY <2>5 DEF Scanned, ServiceStarts, ServiceFails, ServiceEnds, PackEnds, Save, ToPack,
                  PartsLeft
    <3> QED
      BY <3>1 DEF Nearer
  <2>6. CASE Cancel
    <3>1. ~token /\ token' /\ pc' = pc
      BY <2>6 DEF Cancel
    <3> QED
      BY <3>1 DEF Nearer, PartsLeft
  <2>7. ~Resume
    BY DEF Resume
  <2> QED
    BY <2>1, <2>2, <2>3, <2>4, <2>5, <2>6, <2>7 DEF Next, Run
<1>2. IInv => Types
  BY DEF IInv
<1> QED
  BY <1>1, <1>2, Invariance, FiniteInvariant, PTL DEF Spec, EveryStepCounts
=============================================================================
