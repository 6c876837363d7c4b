------------------------- MODULE ObservationProofs --------------------------
(***************************************************************************)
(* Whatever the number of addresses, the ports asked for and the length of *)
(* the list of paths: what the five modules say of a peer, whom they visit *)
(* and how many connections they try after a cancel. The proof goes the    *)
(* way the model is built: events, transcripts, clients, tables, the graph *)
(* and then the module.                                                    *)
(***************************************************************************)
EXTENDS Observation, TLAPS, FiniteSetTheorems, SequenceTheorems

-----------------------------------------------------------------------------
(* Events, by how much must have been heard of a peer before one of them   *)
(* may be said of it: 2 for a claim, 1 for what opens a port.              *)

Claims(e) ==
  \/ e.type = "misconfig_finding"
  \/ e.type = "service_detected" /\ e.confidence > 30

Opening ==
  {"banner", "service_detected", "open_probe", "tls_cert", "misconfig_finding",
   "port_result"}

Types ==
  Opening \cup
  {"probe_result", "os_guess", "asn_info", "address_record", "ptr_record",
   "name_record", "session_opened", "session_closed"}

Weight(e) == IF Claims(e) THEN 2 ELSE IF e.type \in Opening THEN 1 ELSE 0

Events == [type : Types, confidence : Nat, away : BOOLEAN]

Upto(weight) == {e \in Events : Weight(e) <= weight}

\* What is known of a port that excuses an event: an empty page is an answer,
\* the port is open in any case, and its paths may be asked for.
Modes == [page : BOOLEAN, free : BOOLEAN, site : BOOLEAN]

Plain == [page |-> FALSE, free |-> FALSE, site |-> FALSE]

Level(m, heard) ==
  IF heard = Connected /\ m.page THEN 2
  ELSE IF heard = Nothing /\ m.free THEN 1 ELSE heard

\* Transcripts of at most n connections that say no more than was heard.
Sound(m, n) ==
  {t \in [heard : 0..2, dials : 0..n, events : Seq(Events),
          result : {"none", "err", "some", "blank", "paths", "stop"}] :
     t.events \in Seq(Upto(Level(m, t.heard))) /\ (t.result = "paths" => m.site)}

\* And whose answers are answers.
Telling(m, n) ==
  {t \in Sound(m, n) :
     t.result \in {"some", "blank", "paths"} => Level(m, t.heard) = 2}

Firm(n) == Telling(Plain, n)

\* A visit has a budget at each of its steps, which the exchange to come and
\* the budget after it do not exceed.
Budgets(v, b) ==
  /\ b \in [1..Len(v) + 1 -> 0..Linger]
  /\ \A k \in 1..Len(v) : b[k + 1] <= b[k]

Steps(m, n) ==
  {s \in [exchange : SUBSET Sound(m, n), goes_on : BOOLEAN] :
     s.goes_on => \A t \in s.exchange : t.result # "paths"}

Fits(v, m) ==
  /\ v \in Seq(Steps(m, Linger))
  /\ \E b : /\ Budgets(v, b)
            /\ \A k \in 1..Len(v) : v[k] \in Steps(m, b[k] - b[k + 1])

\* And every answer that ends a search is an answer.
Settles(v, m) ==
  Fits(v, m) /\ \A k \in 1..Len(v) : v[k].exchange \subseteq Telling(m, Linger)

\* Visits that need no excuse.
Sober(v) == \A m \in Modes : Settles(v, m)

-----------------------------------------------------------------------------
(* The inductive invariant. *)

\* What the model keeps of the graph, as far as the properties read it.
PortOk(p) == {"state", "service"} \subseteq DOMAIN p

HostOk(h) ==
  /\ {"ports", "findings", "ttl"} \subseteq DOMAIN h
  /\ \A q \in DOMAIN h.ports : PortOk(h.ports[q])
  /\ h.ttl \in Nat

GraphOk(g) ==
  /\ "hosts" \in DOMAIN g
  /\ DOMAIN g.hosts \subseteq Addresses \cup {Elsewhere}
  /\ \A a \in DOMAIN g.hosts : HostOk(g.hosts[a])

Pages == {80, 8000, 8888, 8008, 5000, 81, 8080, 3000}

Secure == {443, 8443}

ModeFor(k, p) ==
  [page |-> k # "talk" /\ p \in Pages,
   free |-> \/ p \in Secure \cup {636, 993, 995}
            \/ k \in {"service", "fingerprint"} /\ p \notin DOMAIN PortTable,
   site |-> k = "active" /\ p \in Pages \cup Secure]

Mode == ModeFor(kind, port)

Typed ==
  /\ TypeOK
  /\ GraphOk(graph)
  /\ scanned \subseteq Addresses
  /\ scanned # {} => kind \in {"service", "fingerprint", "active"}

\* The addresses that are visited unless something comes between.
Planned ==
  CASE kind = "talk" -> {1}
    [] kind \in {"active", "service"} /\ scanned # {} -> scanned
    [] OTHER -> Addresses

Ahead ==
  {todo[i] : i \in 1..Len(todo)} \cup
  UNION {{groups[i][j] : j \in 1..Len(groups[i])} : i \in 1..Len(groups)}

Together == kind = "active" /\ scanned = {}

Course ==
  /\ visited \cup Ahead \subseteq Planned
  /\ \/ cancelled
     \/ Planned \subseteq visited \cup Ahead
     \/ Together /\ \E a \in visited : Answered(a)
  /\ ~Together => /\ Len(todo) <= 1
                  /\ \A i \in 1..Len(groups) : Len(groups[i]) = 1

\* The visit in progress.
Current == VisitTo(Head(todo))

\* Where the module is between two steps.
Place ==
  /\ step # 0 => /\ site = 0
                 /\ Head(todo) \in visited
                 /\ step <= Len(Current)
  /\ site # 0 => Mode.site
  /\ gap => paths # 0


\* The connections left from a step of a visit on, and those tried so far.
Covers(v, m, s, tried) ==
  \E b : /\ Budgets(v, b)
         /\ \A k \in 1..Len(v) : v[k] \in Steps(m, b[k] - b[k + 1])
         /\ tried + b[s] <= Linger

Budget ==
  kind # "talk" =>
    /\ late <= Linger
    /\ ~cancelled \/ gap => late = 0
    /\ step # 0 => Covers(Current, Mode, step, late)

IInv ==
  Typed /\ Course /\ Place /\ Budget /\ OpenOnlyIfReached /\ ClaimsAreHeard

-----------------------------------------------------------------------------
(* Sequences of events. *)

LEMMA SeqUnion == \A S, T : S \subseteq T => Seq(S) \subseteq Seq(T)
OBVIOUS

LEMMA Concatenated == \A S : \A a, b \in Seq(S) : a \o b \in Seq(S)
OBVIOUS

LEMMA UptoGrows == \A i, j \in 0..2 : i <= j => Upto(i) \subseteq Upto(j)
BY DEF Upto, Weight

LEMMA UptoEvents == \A i \in 0..2 : Upto(i) \subseteq Events
BY DEF Upto

\* What each event weighs.
LEMMA QuietEvents ==
  /\ \A c \in Nat : Probe(c) \in Upto(0) /\ OsGuess(c) \in Upto(0)
  /\ AsnInfo \in Upto(0) /\ AddressRecord \in Upto(0) /\ PtrRecord \in Upto(0)
  /\ NameRecord \in Upto(0) /\ SessionOpened \in Upto(0) /\ SessionClosed \in Upto(0)
BY DEF Upto, Events, Types, Opening, Weight, Claims, Event, Probe, OsGuess, AsnInfo,
       AddressRecord, PtrRecord, NameRecord, SessionOpened, SessionClosed

LEMMA OpeningEvents ==
  /\ Banner \in Upto(1) /\ OpenProbe \in Upto(1) /\ PortOpen \in Upto(1)
  /\ TlsCert \in Upto(1) /\ ServiceDetected(30) \in Upto(1)
BY DEF Upto, Events, Types, Opening, Weight, Claims, Event, Banner, OpenProbe, PortOpen,
       TlsCert, ServiceDetected

LEMMA ClaimEvents ==
  Misconfig \in Upto(2) /\ \A c \in Nat : ServiceDetected(c) \in Upto(2)
BY DEF Upto, Events, Types, Opening, Weight, Claims, Event, Misconfig, ServiceDetected

LEMMA UptoMember ==
  \A e : /\ e \in Upto(0) => e \in Upto(1)
         /\ e \in Upto(1) => e \in Upto(2)
         /\ e \in Upto(2) => e \in Events
BY UptoGrows, UptoEvents

-----------------------------------------------------------------------------
(* Transcripts. *)

LEMMA LevelType ==
  \A m \in Modes, h \in 0..2 : Level(m, h) \in 0..2 /\ h <= Level(m, h)
BY DEF Modes, Level, Connected, Nothing

LEMMA LevelGrows ==
  \A m \in Modes, h, i \in 0..2 : h <= i => Level(m, h) <= Level(m, i)
BY DEF Modes, Level, Connected, Nothing

LEMMA PlainLevel == Plain \in Modes /\ \A h : Level(Plain, h) = h
BY DEF Modes, Level, Plain

\* Membership, spelled out.
LEMMA InSound ==
  ASSUME NEW m \in Modes, NEW n \in Nat, NEW h \in 0..2, NEW d \in 0..n,
         NEW e \in Seq(Upto(Level(m, h))),
         NEW r \in {"none", "err", "some", "blank", "paths", "stop"}, r = "paths" => m.site
  PROVE  [heard |-> h, dials |-> d, events |-> e, result |-> r] \in Sound(m, n)
<1>1. e \in Seq(Events)
  BY LevelType, UptoEvents, SeqUnion
<1> QED
  BY <1>1 DEF Sound

LEMMA OfSound ==
  ASSUME NEW m \in Modes, NEW n \in Nat, NEW t \in Sound(m, n)
  PROVE  /\ t = [heard |-> t.heard, dials |-> t.dials, events |-> t.events,
                 result |-> t.result]
         /\ t.heard \in 0..2 /\ t.dials \in 0..n /\ t.events \in Seq(Events)
         /\ t.events \in Seq(Upto(Level(m, t.heard)))
         /\ t.result \in {"none", "err", "some", "blank", "paths", "stop"}
         /\ t.result = "paths" => m.site
BY DEF Sound

\* More is allowed with a larger budget and under a milder mode.
LEMMA SoundGrows ==
  ASSUME NEW m \in Modes, NEW w \in Modes, NEW i \in Nat, NEW j \in Nat, i <= j,
         m.page => w.page, m.free => w.free, m.site => w.site
  PROVE  Sound(m, i) \subseteq Sound(w, j) /\ Telling(m, i) \subseteq Telling(w, j)
<1>1. \A h \in 0..2 : Level(m, h) <= Level(w, h)
  BY DEF Modes, Level, Connected, Nothing
<1>2. ASSUME NEW t \in Sound(m, i) PROVE t \in Sound(w, j)
  <2>1. t.events \in Seq(Upto(Level(w, t.heard)))
    BY OfSound, <1>1, LevelType, UptoGrows, SeqUnion
  <2>2. t.heard \in 0..2 /\ t.dials \in 0..j /\ (t.result = "paths" => w.site)
    BY OfSound
  <2>3. t.result \in {"none", "err", "some", "blank", "paths", "stop"}
    BY OfSound
  <2>4. [heard |-> t.heard, dials |-> t.dials, events |-> t.events,
         result |-> t.result] \in Sound(w, j)
    BY <2>1, <2>2, <2>3, InSound
  <2> QED
    BY <2>4, OfSound
<1>3. ASSUME NEW t \in Telling(m, i) PROVE t \in Telling(w, j)
  <2>1. t \in Sound(w, j) /\ t \in Sound(m, i)
    BY <1>2 DEF Telling
  <2>2. t.heard \in 0..2
    BY <2>1, OfSound
  <2> QED
    BY <1>1, <2>1, <2>2, LevelType DEF Telling
<1> QED
  BY <1>2, <1>3

LEMMA PlainGrows ==
  ASSUME NEW w \in Modes, NEW i \in Nat, NEW j \in Nat, i <= j
  PROVE  Sound(Plain, i) \subseteq Sound(w, j) /\ Firm(i) \subseteq Telling(w, j)
BY PlainLevel, SoundGrows DEF Plain, Firm

-----------------------------------------------------------------------------
(* What the operators of Exchange keep. *)

\* Two forms of change of a transcript.
LEMMA Changed ==
  ASSUME NEW m \in Modes, NEW n \in Nat, NEW t \in Sound(m, n)
  PROVE  /\ \A h : [t EXCEPT !.heard = h] =
              [heard |-> h, dials |-> t.dials, events |-> t.events, result |-> t.result]
         /\ \A d : [t EXCEPT !.dials = d] =
              [heard |-> t.heard, dials |-> d, events |-> t.events, result |-> t.result]
         /\ \A e : [t EXCEPT !.events = e] =
              [heard |-> t.heard, dials |-> t.dials, events |-> e, result |-> t.result]
         /\ \A r : [t EXCEPT !.result = r] =
              [heard |-> t.heard, dials |-> t.dials, events |-> t.events, result |-> r]
BY DEF Sound

LEMMA FailureIsSound ==
  ASSUME NEW m \in Modes, NEW n \in Nat
  PROVE  Failure \subseteq Telling(m, n)
<1> DEFINE t == [heard |-> 0, dials |-> 0, events |-> <<>>, result |-> "err"]
<1>1. t \in Sound(m, n)
  <2>1. <<>> \in Seq(Upto(Level(m, 0))) /\ 0 \in 0..2 /\ 0 \in 0..n
    OBVIOUS
  <2> QED
    BY <2>1, InSound
<1>2. t \in Telling(m, n)
  BY <1>1 DEF Telling
<1> QED
  BY <1>2 DEF Failure, Transcript, Nothing

\* More heard excuses more.
LEMMA HearsSound ==
  ASSUME NEW m \in Modes, NEW n \in Nat, NEW h \in 0..2, NEW X \in SUBSET Sound(m, n)
  PROVE  Hears(X, h) \subseteq Sound(m, n)
<1> SUFFICES ASSUME NEW t \in X,
                    NEW u, u = [t EXCEPT !.heard = IF t.heard < h THEN h ELSE t.heard]
             PROVE  u \in Sound(m, n)
  BY DEF Hears
<1> DEFINE now == IF t.heard < h THEN h ELSE t.heard
<1>1. t.heard \in 0..2 /\ now \in 0..2 /\ t.heard <= now
  BY OfSound
<1>2. t.events \in Seq(Upto(Level(m, now)))
  BY <1>1, OfSound, LevelGrows, LevelType, UptoGrows, SeqUnion
<1> HIDE DEF now
<1>3. [heard |-> now, dials |-> t.dials, events |-> t.events, result |-> t.result]
        \in Sound(m, n)
  BY <1>1, <1>2, OfSound, InSound
<1> QED
  BY <1>3, Changed DEF now

LEMMA HearsTelling ==
  ASSUME NEW m \in Modes, NEW n \in Nat, NEW h \in 0..2, NEW X \in SUBSET Telling(m, n)
  PROVE  Hears(X, h) \subseteq Telling(m, n)
<1>1. Hears(X, h) \subseteq Sound(m, n)
  BY HearsSound DEF Telling
<1> SUFFICES ASSUME NEW t \in X,
                    NEW u, u = [t EXCEPT !.heard = IF t.heard < h THEN h ELSE t.heard],
                    u \in Sound(m, n)
             PROVE  u \in Telling(m, n)
  BY <1>1 DEF Hears
<1>2. t \in Sound(m, n) /\ t.heard \in 0..2
  BY OfSound DEF Telling
<1>3. u.result = t.result /\ u.heard \in 0..2 /\ t.heard <= u.heard
  BY <1>2, Changed
<1>4. Level(m, t.heard) <= Level(m, u.heard) /\ Level(m, u.heard) \in 0..2
      /\ Level(m, t.heard) \in 0..2
  BY <1>2, <1>3, LevelGrows, LevelType
<1>5. t.result \in {"some", "blank", "paths"} => Level(m, t.heard) = 2
  BY DEF Telling
<1>6. u.result \in {"some", "blank", "paths"} => Level(m, u.heard) = 2
  BY <1>3, <1>4, <1>5
<1> QED
  BY <1>6 DEF Telling

\* Every page that was heard of is an answer: so is the empty one.
LEMMA HeardOf ==
  ASSUME NEW m \in Modes, NEW n \in Nat, NEW h \in 0..2, NEW X \in SUBSET Sound(m, n),
         Level(m, h) = 2
  PROVE  Hears(X, h) \subseteq Telling(m, n)
<1>1. Hears(X, h) \subseteq Sound(m, n)
  BY HearsSound
<1> SUFFICES ASSUME NEW t \in X,
                    NEW u, u = [t EXCEPT !.heard = IF t.heard < h THEN h ELSE t.heard],
                    u \in Sound(m, n)
             PROVE  u \in Telling(m, n)
  BY <1>1 DEF Hears
<1>2. u.heard \in 0..2 /\ h <= u.heard
  BY OfSound, Changed
<1>3. Level(m, u.heard) = 2
  BY <1>2, LevelGrows, LevelType
<1> QED
  BY <1>3 DEF Telling

LEMMA SpareKeeps ==
  ASSUME NEW m \in Modes, NEW n \in Nat, NEW X
  PROVE  /\ X \subseteq Sound(m, n) => Spare(X) \subseteq Sound(m, n + 1)
         /\ X \subseteq Telling(m, n) => Spare(X) \subseteq Telling(m, n + 1)
<1>1. ASSUME NEW t \in Sound(m, n)
      PROVE  /\ [t EXCEPT !.dials = @ + 1] \in Sound(m, n + 1)
             /\ t \in Telling(m, n) => [t EXCEPT !.dials = @ + 1] \in Telling(m, n + 1)
  <2> DEFINE u == [heard |-> t.heard, dials |-> t.dials + 1, events |-> t.events,
                   result |-> t.result]
  <2>1. t.dials + 1 \in 0..(n + 1)
    BY OfSound
  <2>2. u \in Sound(m, n + 1)
    <3>1. /\ t.heard \in 0..2 /\ t.events \in Seq(Upto(Level(m, t.heard)))
          /\ t.result \in {"none", "err", "some", "blank", "paths", "stop"}
          /\ t.result = "paths" => m.site
      BY OfSound
    <3>2. n + 1 \in Nat
      OBVIOUS
    <3> QED
      BY <2>1, <3>1, <3>2, InSound
  <2>3. t \in Telling(m, n) => u \in Telling(m, n + 1)
    BY <2>2 DEF Telling
  <2> QED
    BY <2>2, <2>3, Changed
<1> QED
  BY <1>1 DEF Spare, Telling

LEMMA AwaitKeeps ==
  ASSUME NEW m \in Modes, NEW n \in Nat, NEW X
  PROVE  /\ X \subseteq Sound(m, n) => Await(X) \subseteq Sound(m, n)
         /\ X \subseteq Telling(m, n) => Await(X) \subseteq Telling(m, n)
BY FailureIsSound DEF Await, Telling

LEMMA DialKeeps ==
  ASSUME NEW m \in Modes, NEW n \in Nat, NEW X
  PROVE  /\ X \subseteq Sound(m, n) => Dial(X) \subseteq Sound(m, n + 1)
         /\ X \subseteq Telling(m, n) => Dial(X) \subseteq Telling(m, n + 1)
<1>1. Failure \subseteq Telling(m, n) /\ Failure \subseteq Sound(m, n)
  BY FailureIsSound DEF Telling
<1>2. X \subseteq Sound(m, n) => Failure \cup Hears(X, Connected) \subseteq Sound(m, n)
  BY <1>1, HearsSound DEF Connected
<1>3. X \subseteq Telling(m, n) => Failure \cup Hears(X, Connected) \subseteq Telling(m, n)
  BY <1>1, HearsTelling DEF Connected
<1> QED
  BY <1>2, <1>3, SpareKeeps DEF Dial

\* What is emitted in front.
LEMMA AfterKeeps ==
  ASSUME NEW m \in Modes, NEW n \in Nat, NEW X, NEW h \in 0..2, NEW e \in Seq(Upto(h)),
         \A t \in X : h <= Level(m, t.heard)
  PROVE  /\ X \subseteq Sound(m, n) => After(e, X) \subseteq Sound(m, n)
         /\ X \subseteq Telling(m, n) => After(e, X) \subseteq Telling(m, n)
<1>1. ASSUME NEW t \in X, t \in Sound(m, n)
      PROVE  /\ [t EXCEPT !.events = e \o @] \in Sound(m, n)
             /\ t \in Telling(m, n) => [t EXCEPT !.events = e \o @] \in Telling(m, n)
  <2> DEFINE u == [heard |-> t.heard, dials |-> t.dials, events |-> e \o t.events,
                   result |-> t.result]
  <2>1. t.heard \in 0..2 /\ t.events \in Seq(Upto(Level(m, t.heard)))
    BY <1>1, OfSound
  <2>2. e \in Seq(Upto(Level(m, t.heard)))
    BY <2>1, LevelType, UptoGrows, SeqUnion
  <2>3. e \o t.events \in Seq(Upto(Level(m, t.heard)))
    BY <2>1, <2>2, Concatenated
  <2>4. u \in Sound(m, n)
    BY <1>1, <2>1, <2>3, OfSound, InSound
  <2>5. t \in Telling(m, n) => u \in Telling(m, n)
    BY <2>4 DEF Telling
  <2> QED
    BY <1>1, <2>4, <2>5, Changed
<1> QED
  BY <1>1 DEF After, Telling

LEMMA JoinedEvents ==
  \A S, A, B : A \subseteq Seq(S) /\ B \subseteq Seq(S) => Joined(A, B) \subseteq Seq(S)
<1> SUFFICES ASSUME NEW S, NEW A, NEW B, A \subseteq Seq(S), B \subseteq Seq(S),
                    NEW s \in Joined(A, B)
             PROVE  s \in Seq(S)
  OBVIOUS
<1>1. PICK a \in A, b \in B : s = a \o b
  BY DEF Joined
<1> QED
  BY <1>1, Concatenated

LEMMA MaybeEvents == \A S, e : e \in Seq(S) => Maybe(e) \subseteq Seq(S)
BY DEF Maybe

\* What is emitted at the end.
LEMMA EndedSound ==
  ASSUME NEW m \in Modes, NEW n \in Nat, NEW t \in Sound(m, n),
         NEW e \in Seq(Upto(Level(m, t.heard)))
  PROVE  /\ Ended(t, e) \in Sound(m, n) /\ Ended(t, e).heard = t.heard
         /\ t \in Telling(m, n) => Ended(t, e) \in Telling(m, n)
<1> DEFINE u == [heard |-> t.heard, dials |-> t.dials, events |-> t.events \o e,
                 result |-> t.result]
<1>1. t.events \o e \in Seq(Upto(Level(m, t.heard)))
  BY OfSound, Concatenated
<1>2. u \in Sound(m, n)
  <2>1. /\ t.heard \in 0..2 /\ t.dials \in 0..n
        /\ t.result \in {"none", "err", "some", "blank", "paths", "stop"}
        /\ t.result = "paths" => m.site
    BY OfSound
  <2> QED
    BY <1>1, <2>1, InSound
<1>3. t \in Telling(m, n) => u \in Telling(m, n)
  BY <1>2 DEF Telling
<1>4. Ended(t, e) = u
  <2>1. \A x : [t EXCEPT !.events = x] =
               [heard |-> t.heard, dials |-> t.dials, events |-> x, result |-> t.result]
    BY Changed
  <2>2. Ended(t, e) = [t EXCEPT !.events = t.events \o e]
    BY Zenon DEF Ended
  <2> QED
    BY <2>1, <2>2, Zenon
<1> HIDE DEF u
<1>5. u.heard = t.heard
  BY DEF u
<1> QED
  BY <1>2, <1>3, <1>4, <1>5

\* A remark may be made on any answer, a claim only on one that is an answer.
LEMMA IfSomeSound ==
  ASSUME NEW m \in Modes, NEW n \in Nat, NEW X, NEW E \in SUBSET Seq(Upto(0))
  PROVE  /\ X \subseteq Sound(m, n) => IfSome(X, E) \subseteq Sound(m, n)
         /\ X \subseteq Telling(m, n) => IfSome(X, E) \subseteq Telling(m, n)
<1>1. ASSUME NEW t \in Sound(m, n), NEW e \in E
      PROVE  e \in Seq(Upto(Level(m, t.heard)))
  BY OfSound, LevelType, UptoGrows, SeqUnion
<1>2. ASSUME NEW t \in Sound(m, n), NEW e \in E
      PROVE  /\ Ended(t, e) \in Sound(m, n) /\ Ended(t, e).heard = t.heard
             /\ t \in Telling(m, n) => Ended(t, e) \in Telling(m, n)
  BY <1>1, EndedSound
<1>3. ASSUME NEW u \in IfSome(X, E)
      PROVE  u \in X \/ \E t \in X, e \in E : u = Ended(t, e)
  BY DEF IfSome, Recognised
<1>4. Telling(m, n) \subseteq Sound(m, n)
  BY DEF Telling
<1>5. ASSUME X \subseteq Sound(m, n) PROVE IfSome(X, E) \subseteq Sound(m, n)
  <2> SUFFICES ASSUME NEW u \in IfSome(X, E), u \notin X PROVE u \in Sound(m, n)
    BY <1>5
  <2>1. PICK t \in X, e \in E : u = Ended(t, e)
    BY <1>3
  <2> QED
    BY <1>2, <1>4, <1>5, <2>1
<1>6. ASSUME X \subseteq Telling(m, n) PROVE IfSome(X, E) \subseteq Telling(m, n)
  <2> SUFFICES ASSUME NEW u \in IfSome(X, E), u \notin X PROVE u \in Telling(m, n)
    BY <1>6
  <2>1. PICK t \in X, e \in E : u = Ended(t, e)
    BY <1>3
  <2> QED
    BY <1>2, <1>4, <1>6, <2>1
<1> QED
  BY <1>5, <1>6

LEMMA IfSomeTelling ==
  ASSUME NEW m \in Modes, NEW n \in Nat, NEW X \in SUBSET Telling(m, n),
         NEW E \in SUBSET Seq(Upto(2))
  PROVE  IfSome(X, E) \subseteq Telling(m, n)
<1>1. ASSUME NEW t \in Recognised(X), NEW e \in E
      PROVE  Ended(t, e) \in Telling(m, n)
  <2>1. t \in Telling(m, n) /\ t \in Sound(m, n) /\ Level(m, t.heard) = 2
    BY DEF Recognised, Telling
  <2> QED
    BY <2>1, EndedSound
<1> QED
  BY <1>1 DEF IfSome, Recognised

LEMMA FollowKeeps ==
  ASSUME NEW m \in Modes, NEW i \in Nat, NEW j \in Nat,
         NEW t \in Sound(m, i), NEW u \in Sound(m, j)
  PROVE  Follow(t, u) \in Sound(m, i + j)
<1> DEFINE h == IF u.heard > t.heard THEN u.heard ELSE t.heard
<1>1. /\ t.heard \in 0..2 /\ t.dials \in 0..i /\ t.events \in Seq(Upto(Level(m, t.heard)))
      /\ u.heard \in 0..2 /\ u.dials \in 0..j /\ u.events \in Seq(Upto(Level(m, u.heard)))
      /\ u.result \in {"none", "err", "some", "blank", "paths", "stop"}
      /\ u.result = "paths" => m.site
  BY OfSound
<1>2. h \in 0..2 /\ t.heard <= h /\ u.heard <= h
  BY <1>1
<1> HIDE DEF h
<1>3. t.events \in Seq(Upto(Level(m, h))) /\ u.events \in Seq(Upto(Level(m, h)))
  BY <1>1, <1>2, LevelGrows, LevelType, UptoGrows, SeqUnion
<1>4. t.events \o u.events \in Seq(Upto(Level(m, h)))
  BY <1>3, Concatenated
<1>5. t.dials + u.dials \in 0..(i + j) /\ i + j \in Nat
  BY <1>1
<1>6. [heard |-> h, dials |-> t.dials + u.dials, events |-> t.events \o u.events,
       result |-> u.result] \in Sound(m, i + j)
  BY <1>1, <1>2, <1>4, <1>5, InSound
<1> QED
  BY <1>6 DEF Follow, h

LEMMA InTurnKeeps ==
  ASSUME NEW m \in Modes, NEW i \in Nat, NEW j \in Nat,
         NEW X \in SUBSET Sound(m, i), NEW Y \in SUBSET Sound(m, j)
  PROVE  InTurn(X, Y) \subseteq Sound(m, i + j)
BY FollowKeeps DEF InTurn

(* How most clients end. *)

\* A transcript, given by its parts, that settles the question rightly.
LEMMA InFirm ==
  ASSUME NEW n \in Nat, NEW h \in 0..2, NEW e \in Seq(Upto(h)),
         NEW r \in {"none", "err", "some"}, h = 2 \/ r # "some"
  PROVE  Transcript(h, e, r) \in Firm(n)
<1>1. Level(Plain, h) = h /\ Plain \in Modes
  BY PlainLevel
<1>2. 0 \in 0..n /\ r # "paths" /\ r \in {"none", "err", "some", "blank", "paths", "stop"}
  OBVIOUS
<1>3. Transcript(h, e, r) \in Sound(Plain, n)
  BY <1>1, <1>2, InSound DEF Transcript
<1> QED
  BY <1>1, <1>3 DEF Firm, Telling, Transcript

LEMMA AnswerIsFirm ==
  ASSUME NEW n \in Nat, NEW e \in Seq(Upto(2))
  PROVE  Transcript(Replied, e, "some") \in Firm(n)
<1>1. 2 \in 0..2 /\ "some" \in {"none", "err", "some"} /\ (2 = 2 \/ "some" # "some")
  OBVIOUS
<1> QED
  BY <1>1, InFirm DEF Replied

LEMMA RejectedIsFirm ==
  ASSUME NEW n \in Nat, NEW C \in SUBSET Nat
  PROVE  Rejected(C) \subseteq Firm(n)
<1>1. ASSUME NEW c \in C PROVE <<Probe(c)>> \in Seq(Upto(0))
  BY QuietEvents
<1>2. ASSUME NEW c \in C PROVE Transcript(0, <<Probe(c)>>, "none") \in Firm(n)
  <2>1. 0 \in 0..2 /\ "none" \in {"none", "err", "some"} /\ "none" # "some"
    OBVIOUS
  <2> QED
    BY <1>1, <2>1, InFirm
<1> QED
  BY <1>2 DEF Rejected, Nothing

LEMMA AcceptedIsFirm ==
  ASSUME NEW n \in Nat, NEW C \in SUBSET Nat
  PROVE  Accepted(C) \subseteq Firm(n)
<1>1. ASSUME NEW c \in C PROVE <<Banner, Probe(c), ServiceDetected(c)>> \in Seq(Upto(2))
  <2>1. Banner \in Upto(2) /\ Probe(c) \in Upto(2) /\ ServiceDetected(c) \in Upto(2)
    BY QuietEvents, OpeningEvents, ClaimEvents, UptoMember
  <2> QED
    BY <2>1
<1>2. ASSUME NEW c \in C
      PROVE  Transcript(Replied, <<Banner, Probe(c), ServiceDetected(c)>>, "some") \in Firm(n)
  BY <1>1, AnswerIsFirm
<1> QED
  BY <1>2 DEF Accepted

LEMMA RemarkedIsFirm ==
  ASSUME NEW n \in Nat, NEW c \in Nat
  PROVE  Remarked(c) \subseteq Firm(n)
<1>1. <<Probe(c)>> \in Seq(Upto(2))
  BY QuietEvents, UptoMember
<1>2. Transcript(Replied, <<Probe(c)>>, "some") \in Firm(n)
  BY <1>1, AnswerIsFirm
<1> QED
  BY <1>2 DEF Remarked

\* The operators on sets that are firm.
LEMMA FirmGrows == \A i, j \in Nat : i <= j => Firm(i) \subseteq Firm(j)
BY PlainGrows, PlainLevel DEF Firm

LEMMA SpareFirm == \A n \in Nat : \A X : X \subseteq Firm(n) => Spare(X) \subseteq Firm(n + 1)
BY SpareKeeps, PlainLevel DEF Firm

LEMMA AwaitFirm == \A n \in Nat : \A X : X \subseteq Firm(n) => Await(X) \subseteq Firm(n)
BY AwaitKeeps, PlainLevel DEF Firm

LEMMA DialFirm == \A n \in Nat : \A X : X \subseteq Firm(n) => Dial(X) \subseteq Firm(n + 1)
BY DialKeeps, PlainLevel DEF Firm

LEMMA GetFirm == \A n \in Nat : \A X : X \subseteq Firm(n) => Get(X) \subseteq Firm(n + 1)
BY DialFirm, AwaitFirm DEF Get

LEMMA HearsFirm ==
  \A n \in Nat : \A X : X \subseteq Firm(n) => Hears(X, Replied) \subseteq Firm(n)
BY HearsTelling, PlainLevel DEF Firm, Replied

LEMMA EndsFirm ==
  \A n \in Nat, C \in SUBSET Nat :
    Rejected(C) \subseteq Firm(n) /\ Accepted(C) \subseteq Firm(n)
BY RejectedIsFirm, AcceptedIsFirm

\* One page, and nothing or something on it.
LEMMA Talked ==
  ASSUME NEW R \in SUBSET Nat, NEW A \in SUBSET Nat
  PROVE  Dial(Await(Rejected(R) \cup Accepted(A))) \subseteq Firm(1)
<1>1. Rejected(R) \cup Accepted(A) \subseteq Firm(0)
  BY EndsFirm
<1>2. Await(Rejected(R) \cup Accepted(A)) \subseteq Firm(0)
  BY <1>1, AwaitFirm
<1>3. 0 + 1 = 1
  OBVIOUS
<1> QED
  BY <1>2, <1>3, DialFirm

\* One page after the other, until one has the marks.
LEMMA TwoPages ==
  ASSUME NEW R \in SUBSET Nat, NEW A \in SUBSET Nat, NEW B \in SUBSET Nat
  PROVE  Get(Accepted(A) \cup Get(Rejected(R) \cup Accepted(B))) \subseteq Firm(2)
<1>1. Rejected(R) \cup Accepted(B) \subseteq Firm(0) /\ 0 + 1 = 1 /\ 1 + 1 = 2
  BY EndsFirm
<1>2. Get(Rejected(R) \cup Accepted(B)) \subseteq Firm(1)
  BY <1>1, GetFirm
<1>3. Accepted(A) \cup Get(Rejected(R) \cup Accepted(B)) \subseteq Firm(1)
  BY <1>2, EndsFirm
<1> QED
  BY <1>1, <1>3, GetFirm

LEMMA FourPages ==
  ASSUME NEW R \in SUBSET Nat, NEW A \in SUBSET Nat
  PROVE  LET product == Accepted(A)
         IN  Get(product \cup Get(product \cup Get(product \cup
               Get(product \cup Rejected(R))))) \subseteq Firm(4)
<1> DEFINE p == Accepted(A)
<1>1. \A n \in Nat : p \subseteq Firm(n) /\ Rejected(R) \subseteq Firm(n)
  BY EndsFirm
<1>2. 0 + 1 = 1 /\ 1 + 1 = 2 /\ 2 + 1 = 3 /\ 3 + 1 = 4
  OBVIOUS
<1> HIDE DEF p
<1>3. p \cup Get(p \cup Rejected(R)) \subseteq Firm(1)
  BY <1>1, <1>2, GetFirm
<1>4. p \cup Get(p \cup Get(p \cup Rejected(R))) \subseteq Firm(2)
  BY <1>1, <1>2, <1>3, GetFirm
<1>5. p \cup Get(p \cup Get(p \cup Get(p \cup Rejected(R)))) \subseteq Firm(3)
  BY <1>1, <1>2, <1>4, GetFirm
<1>6. Get(p \cup Get(p \cup Get(p \cup Get(p \cup Rejected(R))))) \subseteq Firm(4)
  BY <1>2, <1>5, GetFirm
<1> QED
  BY <1>6 DEF p

-----------------------------------------------------------------------------
(* The clients of databases and stores. *)

LEMMA SqlClients ==
  /\ observe_mysql \subseteq Firm(1) /\ observe_postgres \subseteq Firm(1)
  /\ observe_mssql \subseteq Firm(1) /\ observe_oracle \subseteq Firm(1)
  /\ observe_cassandra \subseteq Firm(1) /\ observe_clickhouse \subseteq Firm(3)
  /\ observe_influxdb \subseteq Firm(2) /\ observe_scylla \subseteq Firm(2)
<1> USE DEF observe_mysql, observe_postgres, observe_mssql, observe_oracle,
            observe_cassandra, observe_clickhouse, observe_influxdb, observe_scylla
<1>0. 0 + 1 = 1 /\ 1 + 1 = 2 /\ 2 + 1 = 3
  OBVIOUS
<1>1. observe_mysql \subseteq Firm(1)
  <2>1. Rejected({20, 30}) \cup Remarked(70) \cup Accepted({90}) \subseteq Firm(0)
    BY EndsFirm, RemarkedIsFirm
  <2> QED
    BY <1>0, <2>1, AwaitFirm, DialFirm
<1>2. observe_postgres \subseteq Firm(1)
  <2>1. Rejected({20, 35}) \cup Await(Accepted({90})) \subseteq Firm(0)
    BY EndsFirm, AwaitFirm
  <2> QED
    BY <1>0, <2>1, AwaitFirm, DialFirm
<1>3. /\ observe_mssql \subseteq Firm(1) /\ observe_oracle \subseteq Firm(1)
      /\ observe_cassandra \subseteq Firm(1)
  BY Talked
<1>4. observe_clickhouse \subseteq Firm(3)
  <2> DEFINE version == Spare(Accepted({93}))
  <2>1. version \subseteq Firm(1) /\ Rejected({20}) \subseteq Firm(1)
    BY <1>0, EndsFirm, SpareFirm
  <2>2. Get(Rejected({20}) \cup version) \subseteq Firm(2) /\ Firm(1) \subseteq Firm(2)
    BY <1>0, <2>1, GetFirm, FirmGrows
  <2>3. version \cup Get(Rejected({20}) \cup version) \subseteq Firm(2)
    BY <2>1, <2>2
  <2> QED
    BY <1>0, <2>3, GetFirm
<1>5. observe_influxdb \subseteq Firm(2) /\ observe_scylla \subseteq Firm(2)
  BY TwoPages
<1> QED
  BY <1>1, <1>2, <1>3, <1>4, <1>5

LEMMA StoreClients ==
  /\ observe_redis \subseteq Firm(1) /\ observe_memcached \subseteq Firm(1)
  /\ observe_mongodb \subseteq Firm(1) /\ observe_elasticsearch \subseteq Firm(1)
  /\ observe_couchdb \subseteq Firm(1) /\ observe_neo4j \subseteq Firm(1)
  /\ observe_bolt \subseteq Firm(1) /\ observe_rethinkdb \subseteq Firm(1)
  /\ observe_opensearch \subseteq Firm(1) /\ observe_solr \subseteq Firm(2)
<1>1. /\ observe_redis \subseteq Firm(1) /\ observe_memcached \subseteq Firm(1)
      /\ observe_mongodb \subseteq Firm(1) /\ observe_elasticsearch \subseteq Firm(1)
      /\ observe_bolt \subseteq Firm(1) /\ observe_rethinkdb \subseteq Firm(1)
  BY Talked DEF observe_redis, observe_memcached, observe_mongodb, observe_elasticsearch,
                observe_bolt, observe_rethinkdb
<1>2. /\ observe_couchdb \subseteq Firm(1) /\ observe_neo4j \subseteq Firm(1)
      /\ observe_opensearch \subseteq Firm(1)
  BY Talked DEF Get, observe_couchdb, observe_neo4j, observe_opensearch
<1>3. observe_solr \subseteq Firm(2)
  BY TwoPages DEF observe_solr
<1> QED
  BY <1>1, <1>2, <1>3

(* The clients of mail, identity and messaging. *)

LEMMA IdentityClients ==
  /\ observe_imap \subseteq Firm(1) /\ observe_pop3 \subseteq Firm(1)
  /\ observe_ldap \subseteq Firm(1) /\ observe_vnc \subseteq Firm(1)
  /\ observe_kerberos \subseteq Firm(1) /\ observe_winrm \subseteq Firm(1)
  /\ observe_snmp \subseteq Firm(1) /\ observe_rdp \subseteq Firm(1)
<1>0. 0 + 1 = 1
  OBVIOUS
<1>1. /\ observe_imap \subseteq Firm(1) /\ observe_pop3 \subseteq Firm(1)
      /\ observe_ldap \subseteq Firm(1) /\ observe_vnc \subseteq Firm(1)
      /\ observe_rdp \subseteq Firm(1)
  BY Talked DEF observe_imap, observe_pop3, observe_line_banner, observe_ldap, observe_vnc,
                observe_rdp
<1>2. observe_kerberos \subseteq Firm(1)
  <2>1. Rejected({20, 30}) \cup Await(Rejected({35}) \cup Accepted({90})) \subseteq Firm(0)
    BY EndsFirm, AwaitFirm
  <2> QED
    BY <1>0, <2>1, AwaitFirm, DialFirm DEF observe_kerberos
<1>3. observe_winrm \subseteq Firm(1)
  <2>1. Await(Rejected({20, 30}) \cup Accepted({90})) \subseteq Firm(0)
    BY EndsFirm, AwaitFirm
  <2> QED
    BY <1>0, <2>1, AwaitFirm, DialFirm DEF observe_winrm
<1>4. observe_snmp \subseteq Firm(1)
  <2>1. Hears(Rejected({30}), Replied) \subseteq Firm(1)
    BY EndsFirm, HearsFirm
  <2>2. Rejected({25}) \cup Hears(Rejected({30}), Replied) \cup Accepted({70, 90})
          \subseteq Firm(1)
    BY <2>1, EndsFirm
  <2> QED
    BY <2>2, AwaitFirm DEF observe_snmp
<1> QED
  BY <1>1, <1>2, <1>3, <1>4

LEMMA MessagingClients ==
  /\ observe_kafka \subseteq Firm(1) /\ observe_amqp \subseteq Firm(1)
  /\ observe_mqtt \subseteq Firm(1) /\ observe_nats \subseteq Firm(1)
  /\ observe_zookeeper \subseteq Firm(2) /\ observe_rabbitmq \subseteq Firm(2)
  /\ observe_grpc \subseteq Firm(2) /\ observe_hazelcast \subseteq Firm(2)
<1>0. 0 + 1 = 1 /\ 1 + 1 = 2
  OBVIOUS
<1>1. observe_kafka \subseteq Firm(1)
  <2>1. Rejected({20}) \cup Await(Rejected({25, 35}) \cup Accepted({90})) \subseteq Firm(0)
    BY EndsFirm, AwaitFirm
  <2> QED
    BY <1>0, <2>1, AwaitFirm, DialFirm DEF observe_kafka
<1>2. observe_amqp \subseteq Firm(1)
  <2> DEFINE older == <<Probe(70), ServiceDetected(70)>>
  <2>1. older \in Seq(Upto(2))
    BY QuietEvents, ClaimEvents, UptoMember
  <2>2. Transcript(Replied, older, "some") \in Firm(0)
    BY <2>1, AnswerIsFirm
  <2>3. Rejected({20, 30, 55}) \cup Accepted({90}) \cup {Transcript(Replied, older, "some")}
          \subseteq Firm(0)
    BY <2>2, EndsFirm
  <2> QED
    BY <1>0, <2>3, AwaitFirm, DialFirm DEF observe_amqp
<1>3. observe_mqtt \subseteq Firm(1)
  <2>1. Rejected({20, 30}) \cup Remarked(70) \cup Accepted({90}) \subseteq Firm(0)
    BY EndsFirm, RemarkedIsFirm
  <2> QED
    BY <1>0, <2>1, AwaitFirm, DialFirm DEF observe_mqtt
<1>4. observe_nats \subseteq Firm(1)
  BY Talked DEF observe_nats
<1>5. observe_zookeeper \subseteq Firm(2)
  <2>1. Rejected({20}) \cup Spare(Accepted({95})) \subseteq Firm(1)
    BY <1>0, EndsFirm, SpareFirm
  <2> QED
    BY <1>0, <2>1, AwaitFirm, DialFirm DEF observe_zookeeper
<1>6. observe_rabbitmq \subseteq Firm(2)
  <2>1. Rejected({20}) \cup Accepted({90, 95}) \subseteq Firm(0)
    BY EndsFirm
  <2> QED
    BY <1>0, <2>1, SpareFirm, GetFirm DEF observe_rabbitmq
<1>7. observe_grpc \subseteq Firm(2)
  <2>1. Rejected({20}) \cup Accepted({70, 90}) \subseteq Firm(0)
    BY EndsFirm
  <2> QED
    BY <1>0, <2>1, AwaitFirm, DialFirm DEF observe_grpc
<1>8. observe_hazelcast \subseteq Firm(2)
  BY TwoPages DEF observe_hazelcast
<1> QED
  BY <1>1, <1>2, <1>3, <1>4, <1>5, <1>6, <1>7, <1>8

(* The clients of control planes and web consoles. *)

LEMMA CloudClients ==
  /\ observe_docker \subseteq Firm(2) /\ observe_etcd \subseteq Firm(2)
  /\ observe_consul \subseteq Firm(2) /\ observe_kubernetes \subseteq Firm(4)
  /\ observe_minio \subseteq Firm(2) /\ observe_vault \subseteq Firm(1)
  /\ observe_nomad \subseteq Firm(2)
<1>0. 0 + 1 = 1 /\ 1 + 1 = 2 /\ 2 + 1 = 3 /\ 3 + 1 = 4
  OBVIOUS
<1>1. observe_docker \subseteq Firm(2)
  <2>1. Rejected({20}) \cup Accepted({95}) \subseteq Firm(0) /\ Accepted({95}) \subseteq Firm(0)
    BY EndsFirm
  <2>2. Spare(Accepted({95})) \cup Get(Rejected({20}) \cup Accepted({95})) \subseteq Firm(1)
    BY <1>0, <2>1, SpareFirm, GetFirm
  <2> QED
    BY <1>0, <2>2, GetFirm DEF observe_docker
<1>2. /\ observe_etcd \subseteq Firm(2) /\ observe_consul \subseteq Firm(2)
      /\ observe_nomad \subseteq Firm(2)
  BY TwoPages DEF observe_etcd, observe_consul, observe_nomad
<1>3. observe_kubernetes \subseteq Firm(4)
  <2> DEFINE page(rest) == Spare(Accepted({90}) \cup rest)
  <2>1. \A n \in Nat : \A X : X \subseteq Firm(n) => page(X) \subseteq Firm(n + 1)
    BY EndsFirm, SpareFirm
  <2>2. Rejected({20}) \subseteq Firm(0)
    BY EndsFirm
  <2> HIDE DEF page
  <2>3. page(page(page(page(Rejected({20}))))) \subseteq Firm(4)
    BY <1>0, <2>1, <2>2
  <2> QED
    BY <2>3 DEF observe_kubernetes, page
<1>4. observe_minio \subseteq Firm(2)
  <2>1. Rejected({20}) \cup Accepted({90}) \subseteq Firm(0)
    BY EndsFirm
  <2> QED
    BY <1>0, <2>1, GetFirm DEF observe_minio
<1>5. observe_vault \subseteq Firm(1)
  BY Talked DEF Get, observe_vault
<1> QED
  BY <1>1, <1>2, <1>3, <1>4, <1>5

LEMMA ConsoleClients ==
  /\ observe_grafana \subseteq Firm(3) /\ observe_kibana \subseteq Firm(2)
  /\ observe_prometheus \subseteq Firm(3) /\ observe_jenkins \subseteq Firm(2)
  /\ observe_keycloak \subseteq Firm(4) /\ observe_portainer \subseteq Firm(4)
  /\ observe_argocd \subseteq Firm(4) /\ observe_sonarqube \subseteq Firm(4)
  /\ observe_elastic_apm \subseteq Firm(1)
<1>0. 0 + 1 = 1 /\ 1 + 1 = 2 /\ 2 + 1 = 3
  OBVIOUS
<1>1. observe_grafana \subseteq Firm(3)
  <2> DEFINE login == Accepted({85})
  <2>1. \A n \in Nat : /\ login \subseteq Firm(n) /\ Rejected({20}) \subseteq Firm(n)
                       /\ Accepted({95}) \subseteq Firm(n)
    BY EndsFirm
  <2>2. login \cup Get(login \cup Rejected({20})) \subseteq Firm(1)
    BY <1>0, <2>1, GetFirm
  <2>3. Accepted({95}) \cup Get(login \cup Get(login \cup Rejected({20}))) \subseteq Firm(2)
    BY <1>0, <2>1, <2>2, GetFirm
  <2> QED
    BY <1>0, <2>3, GetFirm DEF observe_grafana
<1>2. observe_kibana \subseteq Firm(2) /\ observe_jenkins \subseteq Firm(2)
  BY TwoPages DEF observe_kibana, observe_jenkins
<1>3. observe_prometheus \subseteq Firm(3)
  <2>1. Get(Accepted({95}) \cup Get(Rejected({20}) \cup Accepted({85}))) \subseteq Firm(2)
    BY TwoPages
  <2> QED
    BY <1>0, <2>1, GetFirm DEF observe_prometheus
<1>4. /\ observe_keycloak \subseteq Firm(4) /\ observe_portainer \subseteq Firm(4)
      /\ observe_argocd \subseteq Firm(4) /\ observe_sonarqube \subseteq Firm(4)
  BY FourPages DEF observe_keycloak, observe_portainer, observe_argocd, observe_sonarqube
<1>5. observe_elastic_apm \subseteq Firm(1)
  BY Talked DEF Get, observe_elastic_apm
<1> QED
  BY <1>1, <1>2, <1>3, <1>4, <1>5

-----------------------------------------------------------------------------
(* The clients of the wire protocols. *)

\* What makes a handshake that failed, and an empty page, sound at once.
Free == [page |-> FALSE, free |-> TRUE, site |-> FALSE]

Page == [page |-> TRUE, free |-> FALSE, site |-> FALSE]

LEMMA FreeLevel ==
  /\ Free \in Modes /\ Page \in Modes
  /\ \A h \in 0..2 : 1 <= Level(Free, h)
  /\ \A h \in 1..2 : Level(Free, h) = h /\ Level(Page, h) = 2
BY DEF Modes, Free, Page, Level, Nothing, Connected

\* Once the peer was heard of, no excuse is needed.
LEMMA HearsFree ==
  ASSUME NEW n \in Nat, NEW h \in 1..2, NEW X \in SUBSET Sound(Free, n)
  PROVE  /\ Hears(X, h) \subseteq Sound(Plain, n)
         /\ Hears(X, h) \subseteq Telling(Page, n)
         /\ h = 2 => Hears(X, h) \subseteq Firm(n)
<1>1. ASSUME NEW u \in Hears(X, h)
      PROVE  u \in Sound(Plain, n) /\ u.heard \in 0..2 /\ h <= u.heard
  <2>1. u \in Sound(Free, n)
    BY HearsSound, FreeLevel
  <2>2. PICK t \in X : u = [t EXCEPT !.heard = IF t.heard < h THEN h ELSE t.heard]
    BY DEF Hears
  <2>3. t \in Sound(Free, n) /\ t.heard \in 0..2
    BY OfSound, FreeLevel
  <2>4. u.heard \in 1..2 /\ h <= u.heard
    BY <2>2, <2>3, Changed, FreeLevel
  <2>5. /\ u = [heard |-> u.heard, dials |-> u.dials, events |-> u.events,
                result |-> u.result]
        /\ u.dials \in 0..n /\ u.events \in Seq(Upto(u.heard))
        /\ u.result \in {"none", "err", "some", "blank", "paths", "stop"}
        /\ u.result # "paths"
    BY <2>1, <2>4, OfSound, FreeLevel DEF Free
  <2>6. Level(Plain, u.heard) = u.heard /\ Plain \in Modes /\ u.heard \in 0..2
    BY <2>4, PlainLevel
  <2>7. [heard |-> u.heard, dials |-> u.dials, events |-> u.events, result |-> u.result]
          \in Sound(Plain, n)
    BY <2>5, <2>6, InSound
  <2> QED
    BY <2>4, <2>5, <2>7
<1>2. ASSUME NEW u \in Hears(X, h) PROVE u \in Telling(Page, n)
  <2>1. u \in Sound(Page, n)
    BY <1>1, PlainGrows, FreeLevel
  <2>2. Level(Page, u.heard) = 2
    BY <1>1, FreeLevel
  <2> QED
    BY <2>1, <2>2 DEF Telling
<1>3. ASSUME h = 2, NEW u \in Hears(X, h) PROVE u \in Firm(n)
  <2>1. Level(Plain, u.heard) = 2
    BY <1>1, <1>3, PlainLevel
  <2> QED
    BY <1>1, <2>1 DEF Telling, Firm
<1> QED
  BY <1>1, <1>2, <1>3

\* Transcripts without an answer.
LEMMA UnansweredIsSound ==
  ASSUME NEW m \in Modes, NEW n \in Nat, NEW h \in 0..2, NEW e \in Seq(Upto(Level(m, h)))
  PROVE  Transcript(h, e, "none") \in Telling(m, n)
<1>1. 0 \in 0..n /\ "none" \in {"none", "err", "some", "blank", "paths", "stop"}
  OBVIOUS
<1>2. Transcript(h, e, "none") \in Sound(m, n)
  BY <1>1, InSound DEF Transcript
<1> QED
  BY <1>2 DEF Telling, Transcript

LEMMA Guesses ==
  /\ guess_os_from_banner \subseteq Seq(Upto(0)) /\ guess_os_from_smb \subseteq Seq(Upto(0))
  /\ {<<OsGuess(55)>>} \subseteq Seq(Upto(0))
  /\ \A ttl_seen \in BOOLEAN, banners \in SUBSET infer_from_text :
       guess_os_correlated(banners, ttl_seen) \subseteq Seq(Upto(0))
<1>1. \A c \in Nat : <<OsGuess(c)>> \in Seq(Upto(0))
  BY QuietEvents
<1>2. <<>> \in Seq(Upto(0))
  OBVIOUS
<1>3. infer_from_text \subseteq Nat
  BY DEF infer_from_text
<1>4. /\ guess_os_from_banner \subseteq Seq(Upto(0))
      /\ guess_os_from_smb \subseteq Seq(Upto(0))
      /\ {<<OsGuess(55)>>} \subseteq Seq(Upto(0))
  BY <1>1, <1>2, <1>3 DEF guess_os_from_banner, guess_os_from_smb
<1>5. ASSUME NEW ttl_seen \in BOOLEAN, NEW banners \in SUBSET infer_from_text
      PROVE  guess_os_correlated(banners, ttl_seen) \subseteq Seq(Upto(0))
  <2> DEFINE C == {15, 35, 45} \cup banners \cup {c + 25 : c \in banners \ {70}} \cup
                    (IF 70 \in banners THEN {92} ELSE {})
  <2>1. C \subseteq Nat /\ banners \subseteq Nat
    <3>1. {c + 25 : c \in banners \ {70}} \subseteq Nat /\ banners \subseteq Nat
      BY <1>3
    <3>2. (IF 70 \in banners THEN {92} ELSE {}) \subseteq Nat /\ {15, 35, 45} \subseteq Nat
      OBVIOUS
    <3> QED
      BY <3>1, <3>2
  <2> HIDE DEF C
  <2>2. {<<OsGuess(c)>> : c \in C} \subseteq Seq(Upto(0))
    BY <1>1, <2>1
  <2>3. {<<>>} \cup {<<OsGuess(c)>> : c \in banners} \subseteq Seq(Upto(0))
    BY <1>1, <1>2, <2>1
  <2> QED
    BY <2>2, <2>3 DEF guess_os_correlated, C
<1> QED
  BY <1>4, <1>5

\* A client's answer may be read for the operating system.
LEMMA GuessedKeeps ==
  ASSUME NEW m \in Modes, NEW n \in Nat, NEW X
  PROVE  /\ X \subseteq Sound(m, n) => Guessed(X) \subseteq Sound(m, n)
         /\ X \subseteq Telling(m, n) => Guessed(X) \subseteq Telling(m, n)
BY Guesses, IfSomeSound DEF Guessed

LEMMA SshIsSound == ssh_grab \subseteq Sound(Plain, 1)
<1>1. <<Banner, ServiceDetected(95)>> \in Seq(Upto(2))
  BY OpeningEvents, ClaimEvents, UptoMember
<1>2. Transcript(Replied, <<Banner, ServiceDetected(95)>>, "some") \in Sound(Plain, 0)
  BY <1>1, AnswerIsFirm DEF Firm, Telling
<1>3. Transcript(Connected, <<>>, "some") \in Sound(Plain, 0)
  <2>1. /\ <<>> \in Seq(Upto(Level(Plain, 1))) /\ 1 \in 0..2 /\ 0 \in 0..0
        /\ "some" \in {"none", "err", "some", "blank", "paths", "stop"}
    OBVIOUS
  <2> QED
    BY <2>1, InSound, PlainLevel DEF Transcript, Connected
<1> DEFINE said == {Transcript(Connected, <<>>, "some"),
                    Transcript(Replied, <<Banner, ServiceDetected(95)>>, "some")}
<1>4. said \subseteq Sound(Plain, 0) /\ 0 + 1 = 1
  BY <1>2, <1>3
<1> HIDE DEF said
<1>5. Dial(Await(said)) \subseteq Sound(Plain, 1)
  BY <1>4, AwaitKeeps, DialKeeps, PlainLevel
<1> QED
  BY <1>5 DEF ssh_grab, said

LEMMA SmbIsFirm == smb_negotiate \subseteq Firm(1)
<1> DEFINE answer == {Transcript(Replied, <<Probe(85), ServiceDetected(85)>>, "some")}
<1>1. <<Probe(85), ServiceDetected(85)>> \in Seq(Upto(2))
  BY QuietEvents, ClaimEvents, UptoMember
<1>2. answer \subseteq Firm(0)
  BY <1>1, AnswerIsFirm
<1>3. Rejected({20}) \subseteq Firm(0) /\ Rejected({40}) \subseteq Firm(0) /\ 0 + 1 = 1
  BY EndsFirm
<1>4. Hears(Rejected({40}), Replied) \subseteq Firm(0)
  BY <1>3, HearsFirm
<1> HIDE DEF answer
<1>5. Rejected({20}) \cup Hears(Rejected({40}), Replied) \cup answer \subseteq Firm(0)
  BY <1>2, <1>3, <1>4
<1>6. Dial(Await(Rejected({20}) \cup Hears(Rejected({40}), Replied) \cup answer))
        \subseteq Firm(1)
  BY <1>3, <1>5, AwaitFirm, DialFirm
<1> QED
  BY <1>6 DEF smb_negotiate, answer

LEMMA Http2IsFirm ==
  observe_h2_cleartext \subseteq Firm(1) /\ observe_h2_alpn \subseteq Firm(1)
<1> DEFINE silent == Transcript(Connected, <<OpenProbe>>, "none")
           other == Transcript(Replied, <<OpenProbe, PortOpen>>, "none")
           spoken(c) == Transcript(Replied, <<OpenProbe, PortOpen, ServiceDetected(c)>>, "some")
<1>0. 0 + 1 = 1
  OBVIOUS
<1>1. silent \in Firm(0)
  <2>1. <<OpenProbe>> \in Seq(Upto(Level(Plain, 1))) /\ 1 \in 0..2
    BY OpeningEvents, PlainLevel
  <2> QED
    BY <2>1, UnansweredIsSound, PlainLevel DEF Firm, Connected
<1>2. other \in Firm(0)
  <2>1. <<OpenProbe, PortOpen>> \in Seq(Upto(Level(Plain, 2))) /\ 2 \in 0..2
    BY OpeningEvents, PlainLevel, UptoMember
  <2> QED
    BY <2>1, UnansweredIsSound, PlainLevel DEF Firm, Replied
<1>3. \A c \in Nat : spoken(c) \in Firm(0)
  <2>1. \A c \in Nat : <<OpenProbe, PortOpen, ServiceDetected(c)>> \in Seq(Upto(2))
    BY OpeningEvents, ClaimEvents, UptoMember
  <2> QED
    BY <2>1, AnswerIsFirm
<1> HIDE DEF silent, other, spoken
<1>4. {silent, spoken(90)} \subseteq Firm(0)
  BY <1>1, <1>3
<1>5. Dial(Await({silent, spoken(90)})) \subseteq Firm(1)
  BY <1>0, <1>4, AwaitFirm, DialFirm
<1>6. Failure \cup {silent, other} \cup {spoken(c) : c \in {75, 95}} \subseteq Firm(0)
  BY <1>1, <1>2, <1>3, FailureIsSound, PlainLevel DEF Firm
<1>7. Dial(Failure \cup {silent, other} \cup {spoken(c) : c \in {75, 95}}) \subseteq Firm(1)
  BY <1>0, <1>6, DialFirm
<1> QED
  BY <1>5, <1>7 DEF observe_h2_cleartext, observe_h2_alpn, silent, other, spoken

LEMMA TlsIsTelling == observe_tls \subseteq Telling(Free, 3)
<1> DEFINE failed   == {Transcript(Nothing, <<OpenProbe>>, "none")}
           primary  == Joined({<<PortOpen, OpenProbe, OpenProbe>>}, Maybe(<<OpenProbe>>))
           versions == Maybe(<<OpenProbe>>)
           peer     == Joined(emit_cert_analysis, {<<ServiceDetected(90)>>}) \cup
                       {<<OpenProbe>>}
           shaken   == Joined(primary, Joined(versions, peer))
           answers  == {Transcript(Replied, events, "some") : events \in shaken}
<1>0. 0 + 1 = 1 /\ 1 + 1 = 2 /\ 2 + 1 = 3 /\ Free \in Modes
  BY FreeLevel
<1>1. \A n \in Nat : failed \subseteq Telling(Free, n)
  <2>1. <<OpenProbe>> \in Seq(Upto(Level(Free, 0))) /\ 0 \in 0..2
    BY OpeningEvents DEF Level, Free, Nothing, Connected
  <2> QED
    BY <2>1, <1>0, UnansweredIsSound DEF Nothing
<1>2. shaken \subseteq Seq(Upto(2))
  <2>1. /\ <<OpenProbe>> \in Seq(Upto(2)) /\ <<>> \in Seq(Upto(2))
        /\ <<PortOpen, OpenProbe, OpenProbe>> \in Seq(Upto(2))
        /\ <<TlsCert, OpenProbe, OpenProbe>> \in Seq(Upto(2))
        /\ <<Misconfig>> \in Seq(Upto(2)) /\ <<ServiceDetected(90)>> \in Seq(Upto(2))
        /\ <<OsGuess(20)>> \in Seq(Upto(2)) /\ <<OsGuess(35)>> \in Seq(Upto(2))
    BY OpeningEvents, ClaimEvents, QuietEvents, UptoMember
  <2>2. emit_cert_analysis \subseteq Seq(Upto(2))
    <3>1. soft_stack_hint \subseteq Seq(Upto(2)) /\ Maybe(<<Misconfig>>) \subseteq Seq(Upto(2))
      BY <2>1, MaybeEvents DEF soft_stack_hint
    <3>2. Joined(Maybe(<<Misconfig>>), soft_stack_hint) \subseteq Seq(Upto(2))
      BY <3>1, JoinedEvents
    <3>3. Joined(Maybe(<<Misconfig>>), Joined(Maybe(<<Misconfig>>), soft_stack_hint))
            \subseteq Seq(Upto(2))
      BY <3>1, <3>2, JoinedEvents
    <3> QED
      BY <2>1, <3>3, JoinedEvents DEF emit_cert_analysis
  <2>3. versions \subseteq Seq(Upto(2)) /\ primary \subseteq Seq(Upto(2))
    BY <2>1, MaybeEvents, JoinedEvents
  <2>4. peer \subseteq Seq(Upto(2))
    BY <2>1, <2>2, JoinedEvents
  <2> HIDE DEF primary, versions, peer
  <2>5. Joined(versions, peer) \subseteq Seq(Upto(2))
    BY <2>3, <2>4, JoinedEvents
  <2> QED
    BY <2>3, <2>5, JoinedEvents
<1> HIDE DEF failed, shaken
<1>3. answers \subseteq Telling(Free, 0)
  <2>1. answers \subseteq Firm(0)
    BY <1>2, AnswerIsFirm
  <2> QED
    BY <2>1, <1>0, PlainGrows
<1> HIDE DEF answers
<1>4. Spare(Spare(answers)) \subseteq Telling(Free, 2)
  BY <1>0, <1>3, SpareKeeps
<1>5. Hears(failed, Connected) \subseteq Telling(Free, 2)
  BY <1>0, <1>1, HearsTelling DEF Connected
<1>6. failed \cup Hears(failed, Connected) \cup Spare(Spare(answers)) \subseteq Telling(Free, 2)
  BY <1>1, <1>4, <1>5
<1>7. handshake_once(failed, Spare(Spare(answers))) \subseteq Telling(Free, 3)
  BY <1>0, <1>6, SpareKeeps DEF handshake_once
<1> QED
  BY <1>7 DEF observe_tls, failed, shaken, answers

LEMMA BannerIsFirm == grab_banner \subseteq Firm(1)
<1>1. 0 + 1 = 1 /\ <<>> \in Seq(Upto(0)) /\ <<>> \in Seq(Upto(1)) /\ <<>> \in Seq(Upto(2))
  OBVIOUS
<1>2. <<Banner>> \in Seq(Upto(2))
  BY OpeningEvents, UptoMember
<1>3. \A h \in 0..2 : Transcript(h, <<>>, "none") \in Firm(0)
  <2>1. \A h \in 0..2 : <<>> \in Seq(Upto(Level(Plain, h)))
    OBVIOUS
  <2> QED
    BY <2>1, UnansweredIsSound, PlainLevel DEF Firm
<1>4. Transcript(Replied, <<Banner>>, "some") \in Firm(0)
  BY <1>2, AnswerIsFirm
<1>5. {Transcript(Nothing, <<>>, "none"), Transcript(Connected, <<>>, "none"),
       Transcript(Replied, <<>>, "none"), Transcript(Replied, <<Banner>>, "some")}
        \subseteq Firm(0)
  BY <1>3, <1>4 DEF Nothing, Connected, Replied
<1> QED
  BY <1>1, <1>5, SpareFirm DEF grab_banner

LEMMA OneEvent == \A S : [1..1 -> S] \subseteq Seq(S)
<1>1. \A S : Seq(S) = UNION {[1..n -> S] : n \in Nat}
  BY SeqDef
<1> QED
  BY <1>1

\* Names and numbers: the peer is not asked, and nothing is said of a port.
LEMMA LookupsAreSound ==
  enrich_domain \subseteq Sound(Plain, 1) /\ enrich_host \subseteq Sound(Plain, 1)
<1>1. ASSUME NEW e \in Seq(Upto(0)) PROVE Transcript(Nothing, e, "some") \in Sound(Plain, 1)
  <2>1. /\ e \in Seq(Upto(Level(Plain, 0))) /\ 0 \in 0..2 /\ 0 \in 0..1 /\ Plain \in Modes
        /\ "some" \in {"none", "err", "some", "blank", "paths", "stop"}
    BY PlainLevel
  <2> QED
    BY <2>1, InSound DEF Transcript, Nothing
<1>2. /\ <<AddressRecord>> \in Seq(Upto(0)) /\ <<NameRecord>> \in Seq(Upto(0))
      /\ <<>> \in Seq(Upto(0)) /\ <<AsnInfo>> \in Seq(Upto(0))
      /\ <<AsnInfo, Probe(70)>> \in Seq(Upto(0)) /\ <<PtrRecord>> \in Seq(Upto(0))
      /\ <<PtrRecord, Probe(75)>> \in Seq(Upto(0))
  BY QuietEvents
<1>3. Away(<<AddressRecord>>) \in Seq(Upto(0))
  <2> DEFINE elsewhere == [AddressRecord EXCEPT !.away = TRUE]
  <2>1. AddressRecord \in Events /\ AddressRecord.type = "address_record"
    BY DEF AddressRecord, Event, Events, Types, Opening
  <2>2. elsewhere \in Events /\ elsewhere.type = "address_record"
    BY <2>1 DEF Events
  <2>3. \A i \in DOMAIN <<AddressRecord>> :
          [<<AddressRecord>>[i] EXCEPT !.away = TRUE] = elsewhere
    <3>1. \A i \in DOMAIN <<AddressRecord>> : <<AddressRecord>>[i] = AddressRecord
      OBVIOUS
    <3> QED
      BY <3>1
  <2> HIDE DEF elsewhere
  <2>4. elsewhere \in Upto(0)
    BY <2>2 DEF Upto, Weight, Claims, Opening
  <2>5. DOMAIN <<AddressRecord>> = 1..1
    OBVIOUS
  <2>6. Away(<<AddressRecord>>) \in [1..1 -> Upto(0)]
    BY <2>3, <2>4, <2>5 DEF Away
  <2> QED
    BY <2>6, OneEvent
<1>4. resolve_a \subseteq Seq(Upto(0)) /\ query_records \subseteq Seq(Upto(0))
  BY <1>2, MaybeEvents DEF resolve_a, query_records
<1>5. Joined(query_records, {<<>>, Away(<<AddressRecord>>)}) \subseteq Seq(Upto(0))
  BY <1>2, <1>3, <1>4, JoinedEvents
<1>6. Joined(resolve_a, Joined(query_records, {<<>>, Away(<<AddressRecord>>)}))
        \subseteq Seq(Upto(0))
  BY <1>4, <1>5, JoinedEvents
<1>7. Joined(lookup_asn, {<<>>, <<PtrRecord>>, <<PtrRecord, Probe(75)>>}) \subseteq Seq(Upto(0))
  BY <1>2, JoinedEvents DEF lookup_asn
<1> QED
  BY <1>1, <1>6, <1>7 DEF enrich_domain, enrich_host

-----------------------------------------------------------------------------
(* The HTTP engine. *)

\* One request: without TLS what follows is heard of a connection, with TLS of
\* a peer that has said something.
LEMMA OneRequest ==
  ASSUME NEW n \in Nat, NEW X \in SUBSET Sound(Free, n)
  PROVE  /\ single_exchange(FALSE, X) \subseteq Sound(Plain, n + 1)
         /\ single_exchange(FALSE, X) \subseteq Telling(Page, n + 1)
         /\ single_exchange(TRUE, X) \subseteq Firm(n + 1)
<1>0. /\ Plain \in Modes /\ Page \in Modes /\ Free \in Modes
      /\ \A m \in Modes : Failure \subseteq Telling(m, n) /\ Failure \subseteq Sound(m, n)
      /\ Connected \in 1..2 /\ Replied \in 1..2 /\ Replied = 2 /\ Connected \in 0..2
  BY PlainLevel, FreeLevel, FailureIsSound DEF Telling, Connected, Replied
<1>1. Failure \cup X \subseteq Sound(Free, n)
  BY <1>0
<1>2. single_exchange(FALSE, X) = Spare(Failure \cup Hears(Failure \cup X, Connected))
  BY DEF single_exchange, Dial
<1>3. single_exchange(FALSE, X) \subseteq Sound(Plain, n + 1)
  <2>1. Failure \cup Hears(Failure \cup X, Connected) \subseteq Sound(Plain, n)
    BY <1>0, <1>1, HearsFree
  <2> QED
    BY <1>0, <1>2, <2>1, SpareKeeps
<1>4. single_exchange(FALSE, X) \subseteq Telling(Page, n + 1)
  <2>1. Failure \cup Hears(Failure \cup X, Connected) \subseteq Telling(Page, n)
    BY <1>0, <1>1, HearsFree
  <2> QED
    BY <1>0, <1>2, <2>1, SpareKeeps
<1>5. single_exchange(TRUE, X) \subseteq Firm(n + 1)
  <2> DEFINE told == UNION {After(e, Failure) : e \in Maybe(<<OpenProbe>>)}
  <2>1. told \subseteq Sound(Free, n)
    <3>1. \A e \in Maybe(<<OpenProbe>>) : e \in Seq(Upto(1))
      <4>1. <<OpenProbe>> \in Seq(Upto(1)) /\ <<>> \in Seq(Upto(1))
        BY OpeningEvents
      <4> QED
        BY <4>1 DEF Maybe
    <3>2. \A t \in Failure : 1 <= Level(Free, t.heard)
      BY <1>0, OfSound, FreeLevel
    <3>3. \A e \in Maybe(<<OpenProbe>>) : After(e, Failure) \subseteq Sound(Free, n)
      BY <1>0, <3>1, <3>2, AfterKeeps
    <3> QED
      BY <3>3
  <2> HIDE DEF told
  <2>2. Hears(X \cup told, Replied) \subseteq Firm(n)
    BY <1>0, <2>1, HearsFree
  <2>3. Dial(Failure \cup Hears(X \cup told, Replied)) \subseteq Firm(n + 1)
    BY <1>0, <2>2, DialFirm DEF Firm
  <2> QED
    BY <2>3 DEF single_exchange, told
<1> QED
  BY <1>3, <1>4, <1>5

LEMMA PageEvents == emit_http_observations \subseteq Seq(Upto(2))
<1>1. Maybe(<<Banner>>) \subseteq Seq(Upto(2))
  <2>1. <<Banner>> \in Seq(Upto(2))
    BY OpeningEvents, UptoMember
  <2> QED
    BY <2>1, MaybeEvents
<1>2. {<<PortOpen, OpenProbe>>,
       <<Banner, OpenProbe, PortOpen, OpenProbe, ServiceDetected(90)>>} \subseteq Seq(Upto(2))
  BY OpeningEvents, ClaimEvents, UptoMember
<1> QED
  BY <1>1, <1>2, JoinedEvents DEF emit_http_observations, Headers

LEMMA EndEvents ==
  ASSUME NEW manage_session \in BOOLEAN
  PROVE  End(manage_session) \in Seq(Upto(0))
BY QuietEvents DEF End

LEMMA AnswersAreFirm ==
  ASSUME NEW n \in Nat, NEW e \in Seq(Upto(2))
  PROVE  Answer(e) \subseteq Firm(n)
BY AnswerIsFirm DEF Answer

\* Whatever the chain, what is said of its last page was sent.
LEMMA ConcludedIsFirm ==
  ASSUME NEW n \in Nat, NEW chain \in Seq(Upto(2)), NEW manage_session \in BOOLEAN
  PROVE  Concluded(chain, manage_session) \subseteq Firm(n)
<1>1. ASSUME NEW page \in emit_http_observations
      PROVE  page \o chain \o End(manage_session) \in Seq(Upto(2))
  <2>1. page \in Seq(Upto(2)) /\ End(manage_session) \in Seq(Upto(2))
    BY PageEvents, EndEvents, UptoMember, SeqUnion
  <2>2. page \o chain \in Seq(Upto(2))
    BY <2>1, Concatenated
  <2> QED
    BY <2>1, <2>2, Concatenated
<1>2. ASSUME NEW page \in emit_http_observations
      PROVE  Answer(page \o chain \o End(manage_session)) \subseteq Firm(n)
  BY <1>1, AnswersAreFirm
<1> QED
  BY <1>2 DEF Concluded

LEMMA BlankIsSound ==
  ASSUME NEW n \in Nat, NEW manage_session \in BOOLEAN
  PROVE  Blank(manage_session) \subseteq Sound(Free, n)
<1>1. <<PortOpen, OpenProbe>> \in Seq(Upto(1)) /\ End(manage_session) \in Seq(Upto(1))
  BY OpeningEvents, EndEvents, UptoMember, SeqUnion
<1>2. <<PortOpen, OpenProbe>> \o End(manage_session) \in Seq(Upto(1))
  BY <1>1, Concatenated
<1>3. /\ Level(Free, 0) = 1 /\ Free \in Modes /\ 0 \in 0..2 /\ 0 \in 0..n
      /\ "blank" \in {"none", "err", "some", "blank", "paths", "stop"}
  BY FreeLevel DEF Level, Free, Nothing, Connected
<1>4. Transcript(0, <<PortOpen, OpenProbe>> \o End(manage_session), "blank") \in Sound(Free, n)
  BY <1>2, <1>3, InSound DEF Transcript
<1> QED
  BY <1>4 DEF Blank, Nothing

LEMMA RedirectedIsFirm ==
  ASSUME NEW manage_session \in BOOLEAN
  PROVE  Redirected(End(manage_session)) \subseteq Firm(1)
<1>1. End(manage_session) \in Seq(Upto(2))
  BY EndEvents, UptoMember, SeqUnion
<1>2. Failure \cup Answer(End(manage_session)) \subseteq Firm(0)
  BY <1>1, AnswersAreFirm, FailureIsSound, PlainLevel DEF Firm
<1>3. Hears(Failure \cup Answer(End(manage_session)), Replied) \subseteq Firm(0)
  BY <1>2, HearsFirm
<1>4. Failure \cup Hears(Failure \cup Answer(End(manage_session)), Replied) \subseteq Firm(0)
  BY <1>2, <1>3
<1>5. 0 + 1 = 1
  OBVIOUS
<1> QED
  BY <1>4, <1>5, DialFirm DEF Redirected

LEMMA LongerIsSound ==
  ASSUME NEW m \in Modes, NEW n \in Nat, NEW hops \in Nat \ {0}, NEW X \in SUBSET Sound(m, n)
  PROVE  Longer(X, hops) \subseteq Sound(m, n + hops - 1)
<1>1. ASSUME NEW t \in X PROVE [t EXCEPT !.dials = @ + hops - 1] \in Sound(m, n + hops - 1)
  <2>1. /\ t.heard \in 0..2 /\ t.events \in Seq(Upto(Level(m, t.heard)))
        /\ t.result \in {"none", "err", "some", "blank", "paths", "stop"}
        /\ t.result = "paths" => m.site
        /\ t.dials \in 0..n
    BY OfSound
  <2>2. t.dials + hops - 1 \in 0..(n + hops - 1) /\ n + hops - 1 \in Nat
    BY <2>1
  <2>3. [heard |-> t.heard, dials |-> t.dials + hops - 1, events |-> t.events,
         result |-> t.result] \in Sound(m, n + hops - 1)
    BY <2>1, <2>2, InSound
  <2> QED
    BY <2>3, Changed
<1> QED
  BY <1>1 DEF Longer

\* A request and its redirects: with no redirect one connection, and one for
\* each hop.
LEMMA RequestIsSound ==
  ASSUME NEW max_redirects \in {0, 5}, NEW manage_session \in BOOLEAN
  PROVE  /\ request_follow(FALSE, max_redirects, manage_session)
              \subseteq Sound(Plain, max_redirects + 1) \cap Telling(Page, max_redirects + 1)
         /\ request_follow(TRUE, max_redirects, manage_session)
              \subseteq Firm(max_redirects + 1)
<1> DEFINE n == max_redirects
           alone   == Concluded(<<>>, manage_session)
           chained == Concluded(<<OpenProbe>>, manage_session)
           far(tls) == single_exchange(tls, chained) \cup Redirected(End(manage_session))
           next(tls) == After(<<OpenProbe>>, alone) \cup Longer(far(tls), max_redirects)
           first(tls) == alone \cup
                   (IF max_redirects = 0 THEN {}
                    ELSE After(<<OpenProbe>>, alone) \cup
                         UNION {After(hop, next(tls)) : hop \in Followed})
           opened  == IF manage_session THEN <<SessionOpened>> ELSE <<>>
           rest(tls) == Hears(first(tls), Replied) \cup Blank(manage_session)
<1>0. Free \in Modes /\ n \in Nat /\ \A k \in Nat : Firm(k) \subseteq Sound(Free, k)
  BY FreeLevel, PlainGrows DEF Telling, Firm
<1>1. alone \subseteq Sound(Free, n) /\ chained \subseteq Sound(Free, 0)
  <2>1. <<>> \in Seq(Upto(2)) /\ <<OpenProbe>> \in Seq(Upto(2))
    BY OpeningEvents, UptoMember
  <2> QED
    BY <1>0, <2>1, ConcludedIsFirm
<1>2. \A X : X \subseteq Sound(Free, n) => After(<<OpenProbe>>, X) \subseteq Sound(Free, n)
  <2>1. <<OpenProbe>> \in Seq(Upto(1)) /\ 1 \in 0..2
    BY OpeningEvents
  <2>2. ASSUME NEW X, X \subseteq Sound(Free, n) PROVE \A t \in X : 1 <= Level(Free, t.heard)
    BY <1>0, <2>2, OfSound, FreeLevel
  <2> QED
    BY <1>0, <2>1, <2>2, AfterKeeps
<1>3. \A X : X \subseteq Sound(Free, n) => \A hop \in Followed :
        After(hop, X) \subseteq Sound(Free, n)
  <2>1. \A hop \in Followed : hop \in Seq(Upto(1))
    <3>1. <<OpenProbe>> \in Seq(Upto(1)) /\ <<OpenProbe, Banner>> \in Seq(Upto(1))
      BY OpeningEvents
    <3>2. \A hop \in Followed : hop = <<OpenProbe>> \/ hop = <<OpenProbe, Banner>>
      BY DEF Followed
    <3> QED
      BY <3>1, <3>2
  <2>2. ASSUME NEW X, X \subseteq Sound(Free, n) PROVE \A t \in X : 1 <= Level(Free, t.heard)
    BY <1>0, <2>2, OfSound, FreeLevel
  <2> QED
    BY <1>0, <2>1, <2>2, AfterKeeps
<1> HIDE DEF alone, chained
<1>4. ASSUME NEW tls \in BOOLEAN PROVE far(tls) \subseteq Sound(Free, 1)
  <2>1. Redirected(End(manage_session)) \subseteq Sound(Free, 1)
    BY <1>0, RedirectedIsFirm
  <2>2. 0 + 1 = 1
    OBVIOUS
  <2>3. single_exchange(FALSE, chained) \subseteq Sound(Plain, 1)
    BY <1>1, <2>2, OneRequest
  <2>4. single_exchange(TRUE, chained) \subseteq Firm(1)
    BY <1>1, <2>2, OneRequest
  <2>5. Sound(Plain, 1) \subseteq Sound(Free, 1) /\ Firm(1) \subseteq Sound(Free, 1)
    BY <1>0, PlainGrows
  <2>6. single_exchange(tls, chained) \subseteq Sound(Free, 1)
    BY <2>3, <2>4, <2>5
  <2> QED
    BY <2>1, <2>6
<1>5. ASSUME NEW tls \in BOOLEAN PROVE first(tls) \subseteq Sound(Free, n)
  <2>1. CASE n = 0
    BY <1>1, <2>1
  <2>2. CASE n = 5
    <3> HIDE DEF far
    <3>1. Longer(far(tls), n) \subseteq Sound(Free, 1 + n - 1) /\ 1 + n - 1 = n
      BY <1>0, <1>4, <2>2, LongerIsSound
    <3>2. next(tls) \subseteq Sound(Free, n)
      BY <1>1, <1>2, <3>1
    <3> HIDE DEF next
    <3>3. \A hop \in Followed : After(hop, next(tls)) \subseteq Sound(Free, n)
      BY <1>3, <3>2
    <3> QED
      BY <1>1, <1>2, <3>3
  <2> QED
    BY <2>1, <2>2
<1> HIDE DEF first
<1>6. ASSUME NEW tls \in BOOLEAN PROVE rest(tls) \subseteq Sound(Free, n)
  BY <1>0, <1>5, HearsSound, BlankIsSound DEF Replied
<1> HIDE DEF rest
<1>7. /\ single_exchange(FALSE, rest(FALSE)) \subseteq Sound(Plain, n + 1)
      /\ single_exchange(FALSE, rest(FALSE)) \subseteq Telling(Page, n + 1)
      /\ single_exchange(TRUE, rest(TRUE)) \subseteq Firm(n + 1)
  BY <1>0, <1>6, OneRequest
<1>8. ASSUME NEW m \in Modes, NEW X
      PROVE  /\ X \subseteq Sound(m, n + 1) => After(opened, X) \subseteq Sound(m, n + 1)
             /\ X \subseteq Telling(m, n + 1) => After(opened, X) \subseteq Telling(m, n + 1)
  <2>1. opened \in Seq(Upto(0)) /\ 0 \in 0..2 /\ n + 1 \in Nat
    BY QuietEvents
  <2>2. ASSUME X \subseteq Sound(m, n + 1) PROVE \A t \in X : 0 <= Level(m, t.heard)
    BY <2>1, <2>2, OfSound, LevelType
  <2>3. Telling(m, n + 1) \subseteq Sound(m, n + 1)
    BY DEF Telling
  <2> QED
    BY <2>1, <2>2, <2>3, AfterKeeps
<1>9. Plain \in Modes /\ Page \in Modes
  BY PlainLevel, FreeLevel
<1> HIDE DEF opened
<1>10. /\ After(opened, single_exchange(FALSE, rest(FALSE))) \subseteq Sound(Plain, n + 1)
       /\ After(opened, single_exchange(FALSE, rest(FALSE))) \subseteq Telling(Page, n + 1)
       /\ After(opened, single_exchange(TRUE, rest(TRUE))) \subseteq Firm(n + 1)
  BY <1>7, <1>8, <1>9 DEF Firm
<1>11. \A tls \in BOOLEAN : request_follow(tls, n, manage_session) =
                             After(opened, single_exchange(tls, rest(tls)))
  BY DEF request_follow, opened, rest, first, next, far, alone, chained
<1> QED
  BY <1>10, <1>11

LEMMA GetIsSound ==
  /\ get \subseteq Sound(Plain, 6) /\ get \subseteq Telling(Page, 6)
  /\ get_tls \subseteq Firm(6)
  /\ get_path(FALSE) \subseteq Telling(Page, 1) /\ get_path(TRUE) \subseteq Firm(1)
<1>1. 5 + 1 = 6 /\ 0 + 1 = 1 /\ 5 \in {0, 5} /\ 0 \in {0, 5} /\ TRUE \in BOOLEAN
  OBVIOUS
<1>2. /\ request_follow(FALSE, 5, TRUE) \subseteq Sound(Plain, 6) \cap Telling(Page, 6)
      /\ request_follow(TRUE, 5, TRUE) \subseteq Firm(6)
  BY <1>1, RequestIsSound
<1>3. /\ request_follow(FALSE, 0, TRUE) \subseteq Sound(Plain, 1) \cap Telling(Page, 1)
      /\ request_follow(TRUE, 0, TRUE) \subseteq Firm(1)
  BY <1>1, RequestIsSound
<1> QED
  BY <1>2, <1>3 DEF get, get_tls, get_path

LEMMA BrowseIsSound == session_browse(FALSE) \subseteq Sound(Plain, 12)
<1> DEFINE page  == session_page(FALSE)
           pages == (page \ Recognised(page)) \cup InTurn(Recognised(page), page)
<1>0. 5 + 1 = 6 /\ 6 + 6 = 12 /\ 5 \in {0, 5} /\ FALSE \in BOOLEAN /\ Plain \in Modes
  BY PlainLevel
<1>1. page \subseteq Sound(Plain, 6)
  <2>1. <<Probe(90)>> \in Seq(Upto(0))
    BY QuietEvents
  <2>2. request_follow(FALSE, 5, FALSE) \subseteq Sound(Plain, 6)
    BY <1>0, RequestIsSound
  <2> QED
    BY <1>0, <2>1, <2>2, IfSomeSound DEF session_page
<1> HIDE DEF page
<1>2. Recognised(page) \subseteq Sound(Plain, 6)
  BY <1>1 DEF Recognised
<1>3. pages \subseteq Sound(Plain, 12)
  <2>1. InTurn(Recognised(page), page) \subseteq Sound(Plain, 12)
    BY <1>0, <1>1, <1>2, InTurnKeeps
  <2>2. Sound(Plain, 6) \subseteq Sound(Plain, 12)
    BY <1>0, PlainGrows
  <2> QED
    BY <1>1, <2>1, <2>2
<1> HIDE DEF pages
<1>4. IfSome(pages, {<<SessionClosed>>}) \subseteq Sound(Plain, 12)
  <2>1. <<SessionClosed>> \in Seq(Upto(0))
    BY QuietEvents
  <2> QED
    BY <1>0, <1>3, <2>1, IfSomeSound
<1>5. After(<<SessionOpened>>, IfSome(pages, {<<SessionClosed>>})) \subseteq Sound(Plain, 12)
  <2>1. <<SessionOpened>> \in Seq(Upto(0)) /\ 0 \in 0..2
    BY QuietEvents
  <2>2. \A t \in IfSome(pages, {<<SessionClosed>>}) : 0 <= Level(Plain, t.heard)
    BY <1>0, <1>4, OfSound, LevelType
  <2> QED
    BY <1>0, <1>4, <2>1, <2>2, AfterKeeps
<1> QED
  BY <1>5 DEF session_browse, pages, page

-----------------------------------------------------------------------------
(* What the modules make of the answers. *)

LEMMA ServicePages ==
  /\ \A c \in Nat : http_service(c) \subseteq Telling(Page, 6)
  /\ https_page \subseteq Firm(6)
<1>1. guess_os_from_banner \subseteq Seq(Upto(2))
  BY Guesses, UptoMember, SeqUnion
<1>2. ASSUME NEW c \in Nat PROVE http_service(c) \subseteq Telling(Page, 6)
  <2>1. {<<ServiceDetected(c)>>} \subseteq Seq(Upto(2))
    BY ClaimEvents
  <2>2. Joined(guess_os_from_banner, {<<ServiceDetected(c)>>}) \subseteq Seq(Upto(2))
    BY <1>1, <2>1, JoinedEvents
  <2> QED
    BY <2>2, GetIsSound, FreeLevel, IfSomeTelling DEF http_service
<1>3. https_page \subseteq Firm(6)
  <2>1. <<Misconfig>> \in Seq(Upto(2))
    BY ClaimEvents
  <2>2. Joined(guess_os_from_banner, Maybe(<<Misconfig>>)) \subseteq Seq(Upto(2))
    BY <1>1, <2>1, MaybeEvents, JoinedEvents
  <2> QED
    BY <2>2, GetIsSound, PlainLevel, IfSomeTelling DEF https_page, Firm
<1> QED
  BY <1>2, <1>3

\* A plain banner: with one the words in it count, without one the port does.
LEMMA DetectIsSound ==
  ASSUME NEW ttl_seen \in BOOLEAN
  PROVE  detect_banner(ttl_seen) \subseteq Sound(Free, 1)
<1> DEFINE banner == grab_banner
           known  == {<<ServiceDetected(c)>> : c \in classify_banner}
           named  == {t \in banner : t.result = "some"}
           silent == {t \in banner : t.result = "none"}
           words  == Joined(guess_os_correlated(infer_from_text, ttl_seen), known)
           port_says == {Ended(Ended(t, guess), well_known) :
                           t \in silent, guess \in guess_os_correlated({}, ttl_seen)}
<1>0. Plain \in Modes /\ Free \in Modes /\ Firm(1) \subseteq Sound(Free, 1)
  BY PlainLevel, FreeLevel, PlainGrows DEF Firm, Telling
<1>1. IfSome(named, words) \subseteq Firm(1)
  <2>1. classify_banner \subseteq Nat
    BY DEF classify_banner
  <2>2. known \subseteq Seq(Upto(2))
    <3>1. \A c \in classify_banner : <<ServiceDetected(c)>> \in Seq(Upto(2))
      BY <2>1, ClaimEvents
    <3> QED
      BY <3>1
  <2>3. guess_os_correlated(infer_from_text, ttl_seen) \subseteq Seq(Upto(2))
    BY Guesses, UptoMember, SeqUnion
  <2>4. words \subseteq Seq(Upto(2))
    BY <2>2, <2>3, JoinedEvents
  <2>5. named \subseteq Telling(Plain, 1)
    BY BannerIsFirm DEF Firm
  <2> HIDE DEF words, named
  <2> QED
    BY <1>0, <2>4, <2>5, IfSomeTelling DEF Firm
<1>2. port_says \subseteq Sound(Free, 1)
  <2> SUFFICES ASSUME NEW u \in port_says PROVE u \in Sound(Free, 1)
    OBVIOUS
  <2>0. PICK t \in silent, guess \in guess_os_correlated({}, ttl_seen) :
               u = Ended(Ended(t, guess), well_known)
    OBVIOUS
  <2>1. t \in Sound(Free, 1)
    BY <1>0, BannerIsFirm
  <2>2. guess \in Seq(Upto(1)) /\ well_known \in Seq(Upto(1))
    BY Guesses, OpeningEvents, UptoMember, SeqUnion DEF well_known
  <2>3. /\ t.events \in Seq(Upto(Level(Free, t.heard))) /\ t.heard \in 0..2
        /\ Level(Free, t.heard) \in 1..2
    BY <1>0, <2>1, OfSound, FreeLevel, LevelType
  <2>4. guess \in Seq(Upto(Level(Free, t.heard))) /\
       well_known \in Seq(Upto(Level(Free, t.heard)))
    <3>1. Upto(1) \subseteq Upto(Level(Free, t.heard))
      BY <2>3, UptoGrows
    <3> QED
      BY <2>2, <3>1, SeqUnion
  <2>5. Ended(t, guess) \in Sound(Free, 1) /\ Ended(t, guess).heard = t.heard
    BY <1>0, <2>1, <2>4, EndedSound
  <2>7. well_known \in Seq(Upto(Level(Free, Ended(t, guess).heard)))
    BY <2>4, <2>5
  <2> QED
    BY <1>0, <2>0, <2>5, <2>7, EndedSound
<1>3. detect_banner(ttl_seen) = IfSome(named, words) \cup port_says
  BY DEF detect_banner
<1> QED
  BY <1>0, <1>1, <1>2, <1>3

\* A site whose paths may be asked for.
LEMMA SurfaceTells ==
  ASSUME NEW m \in Modes, m.site, NEW n \in Nat, NEW page \in SUBSET Telling(m, n),
         NEW https \in BOOLEAN
  PROVE  assess_http_surface(page, https) \subseteq Telling(m, n + 1)
<1> DEFINE answered == Recognised(page)
           findings == IF https THEN Maybe(<<Misconfig>>) ELSE {<<Misconfig>>}
           assessed == IfSome(answered, findings)
           tried    == IF https THEN assessed ELSE Spare(assessed)
<1>0. n + 1 \in Nat /\ Telling(m, n) \subseteq Telling(m, n + 1)
  BY SoundGrows
<1>1. findings \subseteq Seq(Upto(2))
  <2>1. <<Misconfig>> \in Seq(Upto(2))
    BY ClaimEvents
  <2> QED
    BY <2>1, MaybeEvents
<1>2. answered \subseteq Telling(m, n)
  BY DEF Recognised
<1> HIDE DEF answered, findings
<1>3. assessed \subseteq Telling(m, n)
  BY <1>1, <1>2, IfSomeTelling
<1> HIDE DEF assessed
<1>4. tried \subseteq Telling(m, n + 1)
  BY <1>0, <1>3, SpareKeeps
<1> HIDE DEF tried
<1>5. ASSUME NEW t \in tried, t.result = "some"
      PROVE  [t EXCEPT !.result = "paths"] \in Telling(m, n + 1)
  <2>1. t \in Telling(m, n + 1) /\ t \in Sound(m, n + 1) /\ Level(m, t.heard) = 2
    BY <1>4, <1>5 DEF Telling
  <2>2. /\ t.heard \in 0..2 /\ t.dials \in 0..(n + 1)
        /\ t.events \in Seq(Upto(Level(m, t.heard)))
        /\ "paths" \in {"none", "err", "some", "blank", "paths", "stop"}
    BY <1>0, <2>1, OfSound
  <2> DEFINE u == [heard |-> t.heard, dials |-> t.dials, events |-> t.events,
                   result |-> "paths"]
  <2>3. u \in Sound(m, n + 1)
    BY <1>0, <2>2, InSound
  <2>4. u \in Telling(m, n + 1)
    BY <2>1, <2>3 DEF Telling
  <2> QED
    BY <1>0, <2>1, <2>4, Changed
<1>6. MayProbePaths(tried) \subseteq Telling(m, n + 1)
  BY <1>4, <1>5 DEF MayProbePaths
<1>7. page \ answered \subseteq Telling(m, n + 1)
  BY <1>0
<1> QED
  BY <1>6, <1>7 DEF assess_http_surface, tried, assessed, findings, answered

\* One path of such a site.
LEMMA PathIsSound ==
  ASSUME NEW m \in Modes, NEW https \in BOOLEAN, https \/ m.page
  PROVE  path_probe[https] \subseteq Sound(m, 1)
<1> DEFINE page == IfSome(get_path(https), Maybe(<<Misconfig>>))
<1>1. get_path(https) \subseteq Telling(m, 1)
  <2>1. CASE https = TRUE
    <3>1. Firm(1) \subseteq Telling(m, 1)
      BY PlainGrows
    <3> QED
      BY <2>1, <3>1, GetIsSound
  <2>2. CASE https = FALSE
    <3>1. m.page /\ ~Page.free /\ ~Page.site
      BY <2>2 DEF Page
    <3>2. Telling(Page, 1) \subseteq Telling(m, 1)
      BY <3>1, FreeLevel, SoundGrows
    <3> QED
      BY <2>2, <3>2, GetIsSound
  <2> QED
    BY <2>1, <2>2
<1>2. page \subseteq Telling(m, 1)
  <2>1. <<Misconfig>> \in Seq(Upto(2))
    BY ClaimEvents
  <2> QED
    BY <1>1, <2>1, MaybeEvents, IfSomeTelling
<1> HIDE DEF page
<1>3. ASSUME NEW t \in Recognised(page) PROVE [t EXCEPT !.result = "stop"] \in Sound(m, 1)
  <2>1. t \in Sound(m, 1)
    BY <1>2 DEF Recognised, Telling
  <2>2. /\ t.heard \in 0..2 /\ t.dials \in 0..1
        /\ t.events \in Seq(Upto(Level(m, t.heard)))
        /\ "stop" \in {"none", "err", "some", "blank", "paths", "stop"}
    BY <2>1, OfSound
  <2>3. [heard |-> t.heard, dials |-> t.dials, events |-> t.events, result |-> "stop"]
          \in Sound(m, 1)
    BY <2>2, InSound
  <2> QED
    BY <2>1, <2>3, Changed
<1> QED
  BY <1>2, <1>3 DEF path_probe, page, Telling

-----------------------------------------------------------------------------
(* Visits. *)

LEMMA StepsGrow ==
  ASSUME NEW m \in Modes, NEW i \in Nat, NEW j \in Nat, i <= j
  PROVE  Steps(m, i) \subseteq Steps(m, j)
BY SoundGrows DEF Steps

LEMMA LingerType == Linger = 17 /\ Linger \in Nat
BY DEF Linger

\* Visits of up to four exchanges.
LEMMA OneFits ==
  ASSUME NEW m \in Modes, NEW i \in 0..17, NEW a \in Steps(m, i)
  PROVE  Fits(<<a>>, m)
<1> DEFINE b == <<i, 0>>
<1>1. a \in Steps(m, Linger)
  BY StepsGrow, LingerType
<1>2. Budgets(<<a>>, b)
  BY LingerType DEF Budgets
<1>3. \A k \in 1..Len(<<a>>) : <<a>>[k] = a /\ b[k] - b[k + 1] = i
  OBVIOUS
<1> HIDE DEF b
<1>4. \A k \in 1..Len(<<a>>) : <<a>>[k] \in Steps(m, b[k] - b[k + 1])
  BY <1>3
<1> QED
  BY <1>1, <1>2, <1>4 DEF Fits

LEMMA TwoFit ==
  ASSUME NEW m \in Modes, NEW i \in Nat, NEW j \in Nat, i + j <= 17,
         NEW a \in Steps(m, i), NEW c \in Steps(m, j)
  PROVE  Fits(<<a, c>>, m)
<1> DEFINE b == <<i + j, j, 0>>
           v == <<a, c>>
<1>1. a \in Steps(m, Linger) /\ c \in Steps(m, Linger)
  BY StepsGrow, LingerType
<1>2. Budgets(v, b)
  BY LingerType DEF Budgets
<1>3. \A k \in 1..Len(v) : \/ k = 1 /\ v[k] = a /\ b[k] - b[k + 1] = i
                           \/ k = 2 /\ v[k] = c /\ b[k] - b[k + 1] = j
  OBVIOUS
<1> HIDE DEF b
<1>4. \A k \in 1..Len(v) : v[k] \in Steps(m, b[k] - b[k + 1])
  BY <1>3
<1> QED
  BY <1>1, <1>2, <1>4 DEF Fits

LEMMA ThreeFit ==
  ASSUME NEW m \in Modes, NEW i \in Nat, NEW j \in Nat, NEW k \in Nat, i + j + k <= 17,
         NEW a \in Steps(m, i), NEW c \in Steps(m, j), NEW d \in Steps(m, k)
  PROVE  Fits(<<a, c, d>>, m)
<1> DEFINE b == <<i + j + k, j + k, k, 0>>
           v == <<a, c, d>>
<1>1. a \in Steps(m, Linger) /\ c \in Steps(m, Linger) /\ d \in Steps(m, Linger)
  BY StepsGrow, LingerType
<1>2. Budgets(v, b)
  BY LingerType DEF Budgets
<1>3. \A x \in 1..Len(v) : \/ x = 1 /\ v[x] = a /\ b[x] - b[x + 1] = i
                           \/ x = 2 /\ v[x] = c /\ b[x] - b[x + 1] = j
                           \/ x = 3 /\ v[x] = d /\ b[x] - b[x + 1] = k
  OBVIOUS
<1> HIDE DEF b
<1>4. \A x \in 1..Len(v) : v[x] \in Steps(m, b[x] - b[x + 1])
  BY <1>3
<1> QED
  BY <1>1, <1>2, <1>4 DEF Fits

LEMMA FourFit ==
  ASSUME NEW m \in Modes, NEW i \in Nat, NEW j \in Nat, NEW k \in Nat, NEW l \in Nat,
         i + j + k + l <= 17, NEW a \in Steps(m, i), NEW c \in Steps(m, j),
         NEW d \in Steps(m, k), NEW e \in Steps(m, l)
  PROVE  Fits(<<a, c, d, e>>, m)
<1> DEFINE b == <<i + j + k + l, j + k + l, k + l, l, 0>>
           v == <<a, c, d, e>>
<1>1. /\ a \in Steps(m, Linger) /\ c \in Steps(m, Linger)
      /\ d \in Steps(m, Linger) /\ e \in Steps(m, Linger)
  BY StepsGrow, LingerType
<1>2. Budgets(v, b)
  BY LingerType DEF Budgets
<1>3. \A x \in 1..Len(v) : \/ x = 1 /\ v[x] = a /\ b[x] - b[x + 1] = i
                           \/ x = 2 /\ v[x] = c /\ b[x] - b[x + 1] = j
                           \/ x = 3 /\ v[x] = d /\ b[x] - b[x + 1] = k
                           \/ x = 4 /\ v[x] = e /\ b[x] - b[x + 1] = l
  OBVIOUS
<1> HIDE DEF b
<1>4. \A x \in 1..Len(v) : v[x] \in Steps(m, b[x] - b[x + 1])
  BY <1>3
<1> QED
  BY <1>1, <1>2, <1>4 DEF Fits

LEMMA TryStep ==
  \A m, n, X : X \subseteq Sound(m, n) => Try(X) \in Steps(m, n) /\ Try(X).exchange = X
BY DEF Try, Steps

\* An exchange that never leads to paths may be followed by another in any case.
LEMMA DoStep ==
  ASSUME NEW m \in Modes, m.free, NEW n \in Nat, NEW X \in SUBSET Telling(Free, n)
  PROVE  Do(X) \in Steps(m, n) /\ Do(X).exchange = X
<1>1. X \subseteq Sound(m, n)
  BY FreeLevel, SoundGrows DEF Telling, Free
<1>2. \A t \in X : t.result # "paths"
  BY FreeLevel DEF Telling, Sound, Free
<1> QED
  BY <1>1, <1>2 DEF Do, Steps

LEMMA TellingIsSound ==
  \A m \in Modes, n \in 0..17 : /\ Telling(m, n) \subseteq Sound(m, n)
                                /\ Telling(m, n) \subseteq Telling(m, Linger)
BY SoundGrows, LingerType DEF Telling

\* Every client that is asked by one exchange alone is in order anywhere.
LEMMA EveryClient ==
  /\ \A c \in {observe_mysql, observe_postgres, observe_mssql, observe_oracle,
               observe_cassandra, observe_clickhouse, observe_influxdb, observe_scylla} :
       c \subseteq Firm(4)
  /\ \A c \in {observe_redis, observe_memcached, observe_mongodb, observe_elasticsearch,
               observe_couchdb, observe_neo4j, observe_bolt, observe_rethinkdb,
               observe_opensearch, observe_solr} : c \subseteq Firm(4)
  /\ \A c \in {observe_imap, observe_pop3, observe_ldap, observe_vnc, observe_kerberos,
               observe_winrm, observe_snmp, observe_rdp} : c \subseteq Firm(4)
  /\ \A c \in {observe_kafka, observe_amqp, observe_mqtt, observe_nats, observe_zookeeper,
               observe_rabbitmq, observe_grpc, observe_hazelcast} : c \subseteq Firm(4)
  /\ \A c \in {observe_docker, observe_etcd, observe_consul, observe_kubernetes,
               observe_minio, observe_vault, observe_nomad} : c \subseteq Firm(4)
  /\ \A c \in {observe_grafana, observe_kibana, observe_prometheus, observe_jenkins,
               observe_keycloak, observe_portainer, observe_argocd, observe_sonarqube,
               observe_elastic_apm} : c \subseteq Firm(4)
  /\ \A c \in {smb_negotiate, observe_h2_cleartext, observe_h2_alpn, grab_banner} :
       c \subseteq Firm(4)
<1>1. /\ Firm(1) \subseteq Firm(4) /\ Firm(2) \subseteq Firm(4) /\ Firm(3) \subseteq Firm(4)
  BY FirmGrows
<1> QED
  BY <1>1, SqlClients, StoreClients, IdentityClients, MessagingClients, CloudClients,
     ConsoleClients, SmbIsFirm, Http2IsFirm, BannerIsFirm

LEMMA SoberVisit ==
  ASSUME NEW X \in SUBSET Firm(4)
  PROVE  Sober(<<Try(X)>>)
<1> SUFFICES ASSUME NEW m \in Modes PROVE Settles(<<Try(X)>>, m)
  BY DEF Sober
<1>1. X \subseteq Telling(m, 4)
  BY PlainGrows
<1>2. X \subseteq Sound(m, 4) /\ X \subseteq Telling(m, Linger)
  BY <1>1, TellingIsSound
<1>3. Fits(<<Try(X)>>, m)
  BY <1>2, TryStep, OneFits
<1>4. \A k \in 1..Len(<<Try(X)>>) : <<Try(X)>>[k].exchange = X
  BY DEF Try
<1> QED
  BY <1>2, <1>3, <1>4 DEF Settles

LEMMA SoberRemark ==
  \A X, E : /\ X \subseteq Firm(4) /\ E \subseteq Seq(Upto(2)) => Sober(<<Try(IfSome(X, E))>>)
            /\ X \subseteq Firm(4) => Sober(<<Try(X)>>) /\ Sober(<<Try(Guessed(X))>>)
                                      /\ Sober(<<Exposed(X)>>)
<1>1. \A X, E : X \subseteq Firm(4) /\ E \subseteq Seq(Upto(2)) => IfSome(X, E) \subseteq Firm(4)
  BY PlainLevel, IfSomeTelling DEF Firm
<1>2. \A X : X \subseteq Firm(4) => Guessed(X) \subseteq Firm(4)
  BY PlainLevel, GuessedKeeps DEF Firm
<1>3. {<<Misconfig>>} \subseteq Seq(Upto(2))
  BY ClaimEvents
<1> QED
  BY <1>1, <1>2, <1>3, SoberVisit DEF Exposed

-----------------------------------------------------------------------------
(* The tables. *)

LEMMA OneEntry == \A p, v : At(p, v)[1] = p /\ At(p, v)[2] = v
BY DEF At

\* Each entry of a table of such entries is one of them.
LEMMA TableEntry ==
  \A E : \A key \in DOMAIN Table(E) : \E e \in E : e[1] = key /\ Table(E)[key] = e[2]
<1> TAKE E
<1>1. DOMAIN Table(E) = {e[1] : e \in E}
  BY DEF Table
<1>2. ASSUME NEW key \in {e[1] : e \in E} PROVE \E e \in E : e[1] = key /\ Table(E)[key] = e[2]
  <2> DEFINE found == CHOOSE e \in E : e[1] = key
  <2>1. found \in E /\ found[1] = key
    OBVIOUS
  <2>2. Table(E)[key] = found[2]
    BY DEF Table
  <2> HIDE DEF found
  <2> QED
    BY <2>1, <2>2
<1> QED
  BY <1>1, <1>2

LEMMA ModeHas ==
  ASSUME NEW k, NEW p
  PROVE  /\ p \in Pages /\ k # "talk" => ModeFor(k, p).page
         /\ p \in Secure \cup {636, 993, 995} => ModeFor(k, p).free
         /\ k \in {"service", "fingerprint"} /\ p \notin DOMAIN PortTable =>
              ModeFor(k, p).free
         /\ k = "active" /\ p \in Pages \cup Secure => ModeFor(k, p).site
<1> DEFINE page == k # "talk" /\ p \in Pages
           free == \/ p \in Secure \cup {636, 993, 995}
                   \/ k \in {"service", "fingerprint"} /\ p \notin DOMAIN PortTable
           paged == k = "active" /\ p \in Pages \cup Secure
<1>1. /\ ModeFor(k, p).page = page
      /\ ModeFor(k, p).free = free
      /\ ModeFor(k, p).site = paged
  BY DEF ModeFor
<1>2. /\ p \in Pages /\ k # "talk" => page = TRUE
      /\ p \in Secure \cup {636, 993, 995} => free = TRUE
      /\ k \in {"service", "fingerprint"} /\ p \notin DOMAIN PortTable => free = TRUE
      /\ k = "active" /\ p \in Pages \cup Secure => paged = TRUE
  OBVIOUS
<1> HIDE DEF page, free, paged
<1>3. /\ p \in Pages /\ k # "talk" => ModeFor(k, p).page = TRUE
      /\ p \in Secure \cup {636, 993, 995} => ModeFor(k, p).free = TRUE
      /\ k \in {"service", "fingerprint"} /\ p \notin DOMAIN PortTable =>
           ModeFor(k, p).free = TRUE
      /\ k = "active" /\ p \in Pages \cup Secure => ModeFor(k, p).site = TRUE
  BY <1>1, <1>2
<1> QED
  BY <1>3

LEMMA ModeType == \A k, p : ModeFor(k, p) \in Modes
BY DEF ModeFor, Modes

\* Entries that need no excuse, and entries in order for their ports.
SoberEntries(E) == \A e \in E : Sober(e[2])

ServiceEntries(E) == \A e \in E : Fits(e[2], ModeFor("service", e[1]))

CheckEntries(E) == \A e \in E : Settles(e[2], ModeFor("active", e[1]))

TalkEntries(E) == \A e \in E : Fits(e[2].visit, ModeFor("talk", e[2].port))

LEMMA SoberIsFine ==
  \A E : SoberEntries(E) => ServiceEntries(E) /\ CheckEntries(E)
BY ModeType DEF SoberEntries, ServiceEntries, CheckEntries, Sober, Settles

(* service.rs *)

LEMMA StoresFit == ServiceEntries(StoreTable)
<1>1. /\ Sober(<<Try(observe_redis)>>) /\ Sober(<<Try(observe_mysql)>>)
      /\ Sober(<<Try(observe_postgres)>>) /\ Sober(<<Try(observe_imap)>>)
      /\ Sober(<<Try(observe_pop3)>>) /\ Sober(<<Try(Guessed(observe_mongodb))>>)
      /\ Sober(<<Try(Guessed(observe_elasticsearch))>>) /\ Sober(<<Try(observe_docker)>>)
      /\ Sober(<<Try(observe_etcd)>>) /\ Sober(<<Try(observe_consul)>>)
      /\ Sober(<<Try(observe_mssql)>>) /\ Sober(<<Try(observe_kubernetes)>>)
      /\ Sober(<<Try(observe_oracle)>>) /\ Sober(<<Try(observe_couchdb)>>)
      /\ Sober(<<Try(observe_zookeeper)>>) /\ Sober(<<Try(observe_cassandra)>>)
  BY EveryClient, SoberRemark
<1>2. SoberEntries(StoreTable)
  BY <1>1, OneEntry DEF SoberEntries, StoreTable
<1> QED
  BY <1>2, SoberIsFine

LEMMA ConsolesFit == ServiceEntries(ConsoleTable)
<1>1. /\ Sober(<<Try(observe_neo4j)>>) /\ Sober(<<Try(observe_clickhouse)>>)
      /\ Sober(<<Try(observe_minio)>>) /\ Sober(<<Try(observe_bolt)>>)
      /\ Sober(<<Try(observe_rabbitmq)>>) /\ Sober(<<Try(observe_kibana)>>)
      /\ Sober(<<Try(observe_prometheus)>>)
  BY EveryClient, SoberRemark
<1>2. /\ Fits(<<Try(observe_neo4j)>>, ModeFor("service", 7474))
      /\ Fits(<<Try(observe_clickhouse)>>, ModeFor("service", 8123))
      /\ Fits(<<Try(observe_minio)>>, ModeFor("service", 9000))
      /\ Fits(<<Try(observe_bolt)>>, ModeFor("service", 7687))
      /\ Fits(<<Try(observe_rabbitmq)>>, ModeFor("service", 15672))
      /\ Fits(<<Try(observe_kibana)>>, ModeFor("service", 5601))
      /\ Fits(<<Try(observe_prometheus)>>, ModeFor("service", 9090))
  BY <1>1, ModeType DEF Sober, Settles
<1>3. Fits(<<Try(observe_grafana), Try(http_service(85))>>, ModeFor("service", 3000))
  <2> DEFINE m == ModeFor("service", 3000)
  <2>1. m \in Modes /\ m.page
    BY ModeType, ModeHas DEF Pages
  <2> HIDE DEF m
  <2>2. observe_grafana \subseteq Sound(m, 3) /\ http_service(85) \subseteq Sound(m, 6)
    <3>1. Firm(3) \subseteq Telling(m, 3) /\ Telling(Page, 6) \subseteq Telling(m, 6)
      BY <2>1, PlainGrows, FreeLevel, SoundGrows DEF Page
    <3> QED
      BY <3>1, <2>1, ConsoleClients, ServicePages, TellingIsSound
  <2>3. 3 + 6 <= 17
    OBVIOUS
  <2>4. Fits(<<Try(observe_grafana), Try(http_service(85))>>, m)
    BY <2>1, <2>2, <2>3, TryStep, TwoFit
  <2> QED
    BY <2>4 DEF m
<1> QED
  BY <1>2, <1>3, OneEntry DEF ServiceEntries, ConsoleTable

LEMMA QueuesFit == ServiceEntries(QueueTable)
<1>1. /\ Sober(<<Try(Guessed(observe_memcached))>>) /\ Sober(<<Try(Guessed(observe_kafka))>>)
      /\ Sober(<<Try(Guessed(observe_amqp))>>) /\ Sober(<<Try(observe_mqtt)>>)
      /\ Sober(<<Try(Guessed(observe_nats))>>)
  BY EveryClient, SoberRemark
<1>2. SoberEntries(QueueTable)
  BY <1>1, OneEntry DEF SoberEntries, QueueTable
<1> QED
  BY <1>2, SoberIsFine

LEMMA TlsFits ==
  ASSUME NEW m \in Modes, m.free
  PROVE  Fits(<<Try(observe_tls)>>, m)
<1>1. observe_tls \subseteq Sound(m, 3)
  BY TlsIsTelling, FreeLevel, SoundGrows DEF Free, Telling
<1>2. 3 \in 0..17
  OBVIOUS
<1> QED
  BY <1>1, <1>2, TryStep, OneFits

LEMMA DirectoriesFit == ServiceEntries(DirectoryTable)
<1>1. /\ Sober(<<Try(Guessed(observe_ldap))>>) /\ Sober(<<Try(Guessed(observe_kerberos))>>)
      /\ Sober(<<Try(observe_vnc)>>) /\ Sober(<<Try(Guessed(observe_winrm))>>)
  BY EveryClient, SoberRemark
<1>2. /\ SoberEntries({At(389, <<Try(Guessed(observe_ldap))>>),
                       At(88, <<Try(Guessed(observe_kerberos))>>)})
      /\ SoberEntries({At(p, <<Try(observe_vnc)>>) : p \in 5900..5902})
      /\ SoberEntries({At(p, <<Try(Guessed(observe_winrm))>>) : p \in {5985, 5986}})
  BY <1>1, OneEntry DEF SoberEntries
<1>3. ServiceEntries({At(p, <<Try(observe_tls)>>) : p \in {636, 993, 995}})
  <2>1. \A p \in {636, 993, 995} : ModeFor("service", p).free
    BY ModeHas
  <2>2. \A p \in {636, 993, 995} : Fits(<<Try(observe_tls)>>, ModeFor("service", p))
    BY <2>1, ModeType, TlsFits
  <2> QED
    BY <2>2, OneEntry DEF ServiceEntries
<1> QED
  BY <1>2, <1>3, SoberIsFine DEF DirectoryTable, ServiceEntries

LEMMA ShellFits == ServiceEntries(ShellTable)
<1>1. Guessed(ssh_grab) \subseteq Sound(Plain, 1)
  BY SshIsSound, GuessedKeeps, PlainLevel
<1>2. \A m \in Modes : Guessed(ssh_grab) \subseteq Sound(m, 1)
  BY <1>1, PlainGrows
<1>3. \A m \in Modes : Fits(<<Try(Guessed(ssh_grab))>>, m)
  BY <1>2, TryStep, OneFits
<1> QED
  BY <1>3, ModeType, OneEntry DEF ShellTable, ServiceEntries

LEMMA SharesFit == ServiceEntries(ShareTable) /\ ServiceEntries(DesktopTable)
<1>1. guess_os_from_smb \subseteq Seq(Upto(2)) /\ {<<OsGuess(55)>>} \subseteq Seq(Upto(2))
  BY Guesses, UptoMember, SeqUnion
<1>2. /\ Sober(<<Try(IfSome(smb_negotiate, guess_os_from_smb))>>)
      /\ Sober(<<Try(IfSome(observe_rdp, {<<OsGuess(55)>>}))>>)
  BY <1>1, EveryClient, SoberRemark
<1>3. SoberEntries(ShareTable) /\ SoberEntries(DesktopTable)
  BY <1>2, OneEntry DEF ShareTable, DesktopTable, SoberEntries
<1> QED
  BY <1>3, SoberIsFine

LEMMA WebFits == ServiceEntries(WebTable)
<1> DEFINE plain == {At(p, <<Try(http_service(90))>>) : p \in {80, 8000, 8888, 8008, 5000, 81}}
           jenkins == {At(8080, <<Try(observe_jenkins), Try(http_service(85))>>)}
           secure == {At(p, <<Do(observe_tls), Try(https_page)>>) : p \in Secure}
<1>0. 2 + 6 <= 17 /\ 3 + 6 <= 17 /\ 6 \in 0..17 /\ 2 \in 0..17
  OBVIOUS
<1>1. \A m \in Modes, c \in Nat : m.page => http_service(c) \subseteq Sound(m, 6)
  <2>1. \A m \in Modes : m.page => Telling(Page, 6) \subseteq Telling(m, 6)
    BY FreeLevel, SoundGrows DEF Page
  <2> QED
    BY <1>0, <2>1, ServicePages, TellingIsSound
<1>2. ServiceEntries(plain)
  <2>1. \A p \in {80, 8000, 8888, 8008, 5000, 81} : ModeFor("service", p).page
    BY ModeHas DEF Pages
  <2>2. \A p \in {80, 8000, 8888, 8008, 5000, 81} :
          Fits(<<Try(http_service(90))>>, ModeFor("service", p))
    BY <1>0, <1>1, <2>1, ModeType, TryStep, OneFits
  <2> QED
    BY <2>2, OneEntry DEF ServiceEntries
<1>3. ServiceEntries(jenkins)
  <2> DEFINE m == ModeFor("service", 8080)
  <2>1. m \in Modes /\ m.page
    BY ModeType, ModeHas DEF Pages
  <2> HIDE DEF m
  <2>2. observe_jenkins \subseteq Sound(m, 2) /\ http_service(85) \subseteq Sound(m, 6)
    BY <1>0, <1>1, <2>1, ConsoleClients, PlainGrows, TellingIsSound
  <2>3. Fits(<<Try(observe_jenkins), Try(http_service(85))>>, m)
    BY <1>0, <2>1, <2>2, TryStep, TwoFit
  <2> QED
    BY <2>3, OneEntry DEF m, ServiceEntries
<1>4. ServiceEntries(secure)
  <2>1. ASSUME NEW p \in Secure
        PROVE  Fits(<<Do(observe_tls), Try(https_page)>>, ModeFor("service", p))
    <3> DEFINE m == ModeFor("service", p)
    <3>1. m \in Modes /\ m.free
      BY ModeType, ModeHas
    <3> HIDE DEF m
    <3>2. https_page \subseteq Sound(m, 6)
      BY <1>0, <3>1, ServicePages, PlainGrows, TellingIsSound
    <3>3. Do(observe_tls) \in Steps(m, 3)
      BY <3>1, TlsIsTelling, DoStep
    <3>4. Fits(<<Do(observe_tls), Try(https_page)>>, m)
      BY <1>0, <3>1, <3>2, <3>3, TryStep, TwoFit
    <3> QED
      BY <3>4 DEF m
  <2> QED
    BY <2>1, OneEntry DEF ServiceEntries
<1> HIDE DEF plain, jenkins, secure
<1>5. ServiceEntries(plain \cup jenkins \cup secure)
  BY <1>2, <1>3, <1>4 DEF ServiceEntries
<1> QED
  BY <1>5 DEF WebTable, plain, jenkins, secure, Secure

LEMMA PortTableFits ==
  \A p \in DOMAIN PortTable : Fits(PortTable[p], ModeFor("service", p))
<1> DEFINE entries ==
      ShellTable \cup WebTable \cup ShareTable \cup StoreTable \cup DesktopTable \cup
      ConsoleTable \cup QueueTable \cup DirectoryTable
<1>1. ServiceEntries(entries)
  BY ShellFits, WebFits, SharesFit, StoresFit, ConsolesFit, QueuesFit, DirectoriesFit
     DEF ServiceEntries
<1>2. PortTable = Table(entries)
  BY DEF PortTable
<1> HIDE DEF entries
<1> QED
  BY <1>1, <1>2, TableEntry DEF ServiceEntries

(* misconfig: the checks *)

\* Exchanges whose answers are answers.
Asking(m, n) == {s \in Steps(m, n) : s.exchange \subseteq Telling(m, Linger)}

LEMMA AskingSteps ==
  ASSUME NEW m \in Modes, NEW n \in 0..17, NEW X \in SUBSET Telling(m, n)
  PROVE  Try(X) \in Asking(m, n) /\ Exposed(X) \in Asking(m, n)
<1>1. X \subseteq Sound(m, n) /\ X \subseteq Telling(m, Linger)
  BY TellingIsSound
<1>2. IfSome(X, {<<Misconfig>>}) \subseteq Telling(m, n)
  <2>1. {<<Misconfig>>} \in SUBSET Seq(Upto(2)) /\ n \in Nat
    BY ClaimEvents
  <2> QED
    BY <2>1, IfSomeTelling
<1>3. /\ IfSome(X, {<<Misconfig>>}) \subseteq Sound(m, n)
      /\ IfSome(X, {<<Misconfig>>}) \subseteq Telling(m, Linger)
  BY <1>2, TellingIsSound
<1>4. ASSUME NEW Y, Y \subseteq Sound(m, n), Y \subseteq Telling(m, Linger)
      PROVE  Try(Y) \in Asking(m, n)
  BY <1>4, TryStep DEF Asking
<1>5. Exposed(X) = Try(IfSome(X, {<<Misconfig>>}))
  BY DEF Exposed
<1> QED
  BY <1>1, <1>3, <1>4, <1>5

LEMMA Settled ==
  ASSUME NEW m \in Modes,
         NEW i \in Nat, NEW j \in Nat, NEW k \in Nat, NEW l \in Nat, i + j + k + l <= 17,
         NEW a \in Asking(m, i), NEW c \in Asking(m, j), NEW d \in Asking(m, k),
         NEW e \in Asking(m, l)
  PROVE  /\ Settles(<<a>>, m) /\ Settles(<<a, c>>, m) /\ Settles(<<a, c, d>>, m)
         /\ Settles(<<a, c, d, e>>, m)
<1>1. /\ a \in Steps(m, i) /\ c \in Steps(m, j) /\ d \in Steps(m, k) /\ e \in Steps(m, l)
      /\ \A s \in {a, c, d, e} : s.exchange \subseteq Telling(m, Linger)
  BY DEF Asking
<1>2. i \in 0..17 /\ i + j <= 17 /\ i + j + k <= 17
  OBVIOUS
<1>3. /\ Fits(<<a>>, m) /\ Fits(<<a, c>>, m) /\ Fits(<<a, c, d>>, m)
      /\ Fits(<<a, c, d, e>>, m)
  BY <1>1, <1>2, OneFits, TwoFit, ThreeFit, FourFit
<1>4. /\ \A x \in 1..Len(<<a>>) : <<a>>[x] \in {a, c, d, e}
      /\ \A x \in 1..Len(<<a, c>>) : <<a, c>>[x] \in {a, c, d, e}
      /\ \A x \in 1..Len(<<a, c, d>>) : <<a, c, d>>[x] \in {a, c, d, e}
      /\ \A x \in 1..Len(<<a, c, d, e>>) : <<a, c, d, e>>[x] \in {a, c, d, e}
  OBVIOUS
<1> QED
  BY <1>1, <1>3, <1>4 DEF Settles

\* A site without TLS, and one behind it.
LEMMA Surfaces ==
  ASSUME NEW m \in Modes, m.site
  PROVE  /\ m.page => Surface(get, FALSE) \in Asking(m, 7)
         /\ m.free => /\ Do(observe_tls) \in Asking(m, 3)
                      /\ Surface(get_tls, TRUE) \in Asking(m, 7)
<1>0. 6 + 1 = 7 /\ 6 \in Nat /\ 7 \in 0..17 /\ 3 \in 0..17 /\ 3 \in Nat
  OBVIOUS
<1>1. ASSUME m.page PROVE Surface(get, FALSE) \in Asking(m, 7)
  <2>1. Telling(Page, 6) \subseteq Telling(m, 6)
    BY <1>1, FreeLevel, SoundGrows DEF Page
  <2>2. get \subseteq Telling(m, 6)
    BY <2>1, GetIsSound
  <2>3. assess_http_surface(get, FALSE) \subseteq Telling(m, 7)
    BY <1>0, <2>2, SurfaceTells
  <2> QED
    BY <1>0, <2>3, AskingSteps DEF Surface
<1>2. ASSUME m.free PROVE Surface(get_tls, TRUE) \in Asking(m, 7)
  <2>1. get_tls \subseteq Telling(m, 6)
    BY PlainGrows, GetIsSound
  <2>2. assess_http_surface(get_tls, TRUE) \subseteq Telling(m, 7)
    BY <1>0, <2>1, SurfaceTells
  <2> QED
    BY <1>0, <2>2, AskingSteps DEF Surface
<1>3. ASSUME m.free PROVE Do(observe_tls) \in Asking(m, 3)
  <2>1. Telling(Free, 3) \subseteq Telling(m, 3)
    BY <1>3, FreeLevel, SoundGrows DEF Free
  <2>2. observe_tls \subseteq Telling(m, 3)
    BY <2>1, TlsIsTelling
  <2>3. observe_tls \subseteq Telling(m, Linger)
    BY <1>0, <2>2, TellingIsSound
  <2>4. Do(observe_tls) \in Steps(m, 3) /\ Do(observe_tls).exchange = observe_tls
    BY <1>0, <1>3, TlsIsTelling, DoStep
  <2> QED
    BY <2>3, <2>4 DEF Asking
<1> QED
  BY <1>1, <1>2, <1>3

\* Clients in turn, each of whose answers is a finding.
LEMMA InOrder ==
  ASSUME NEW m \in Modes, NEW X \in SUBSET Firm(2), NEW Y \in SUBSET Firm(4),
         NEW Z \in SUBSET Firm(4)
  PROVE  /\ Exposed(X) \in Asking(m, 2) /\ Exposed(Y) \in Asking(m, 4)
         /\ Settles(<<Exposed(Y), Exposed(Z)>>, m)
         /\ Settles(<<Exposed(X), Exposed(Y), Exposed(Z)>>, m)
<1>0. /\ 2 \in 0..17 /\ 4 \in 0..17 /\ 2 \in Nat /\ 4 \in Nat /\ 0 \in Nat
      /\ 2 + 4 + 4 + 4 <= 17 /\ 4 + 4 + 4 + 4 <= 17
  OBVIOUS
<1>1. X \subseteq Telling(m, 2) /\ Y \subseteq Telling(m, 4) /\ Z \subseteq Telling(m, 4)
  BY <1>0, PlainGrows
<1>2. /\ Exposed(X) \in Asking(m, 2) /\ Exposed(Y) \in Asking(m, 4)
      /\ Exposed(Z) \in Asking(m, 4)
  BY <1>0, <1>1, AskingSteps
<1>3. /\ Settles(<<Exposed(Y), Exposed(Z)>>, m)
      /\ Settles(<<Exposed(X), Exposed(Y), Exposed(Z)>>, m)
  BY <1>0, <1>2, Settled
<1> QED
  BY <1>2, <1>3

LEMMA PlainSite ==
  \A m \in Modes : m.site /\ m.page => Settles(<<Surface(get, FALSE)>>, m)
<1> SUFFICES ASSUME NEW m \in Modes, m.site, m.page
             PROVE  Settles(<<Surface(get, FALSE)>>, m)
  OBVIOUS
<1>1. 7 + 0 + 0 + 0 <= 17 /\ 0 \in Nat /\ 7 \in Nat /\ 0 \in 0..17
  OBVIOUS
<1>2. Surface(get, FALSE) \in Asking(m, 7) /\ Try({}) \in Asking(m, 0)
  BY <1>1, Surfaces, AskingSteps
<1> QED
  BY <1>1, <1>2, Settled

LEMMA ChecksOfSites == CheckEntries(check_http_ports)
<1> DEFINE plain == {At(p, <<Surface(get, FALSE)>>) : p \in {80, 8000, 8888, 8008, 5000, 81}}
           v == <<Exposed(observe_jenkins), Exposed(observe_keycloak),
                  Exposed(observe_argocd), Surface(get, FALSE)>>
           secure == {At(p, <<Do(observe_tls), Surface(get_tls, TRUE)>>) : p \in Secure}
<1>0. /\ 2 + 4 + 4 + 7 <= 17 /\ 7 + 0 + 0 + 0 <= 17 /\ 3 + 7 + 0 + 0 <= 17
      /\ 0 \in Nat /\ 2 \in Nat /\ 3 \in Nat /\ 4 \in Nat /\ 7 \in Nat /\ 0 \in 0..17
  OBVIOUS
<1>9. \A m \in Modes : Try({}) \in Asking(m, 0)
  BY <1>0, AskingSteps
<1>1. CheckEntries(plain)
  <2>1. ASSUME NEW p \in Pages
        PROVE  Settles(<<Surface(get, FALSE)>>, ModeFor("active", p))
    <3>1. /\ ModeFor("active", p) \in Modes /\ ModeFor("active", p).site
          /\ ModeFor("active", p).page
      BY ModeType, ModeHas
    <3> QED
      BY <3>1, PlainSite, Zenon
  <2>2. {80, 8000, 8888, 8008, 5000, 81} \subseteq Pages
    BY DEF Pages
  <2> QED
    BY <2>1, <2>2, OneEntry DEF CheckEntries
<1>2. Settles(v, ModeFor("active", 8080))
  <2> DEFINE m == ModeFor("active", 8080)
  <2>1. 8080 \in Pages
    BY DEF Pages
  <2>2. m \in Modes /\ m.site /\ m.page
    BY <2>1, ModeType, ModeHas
  <2> HIDE DEF m
  <2>3. /\ Exposed(observe_jenkins) \in Asking(m, 2)
        /\ Exposed(observe_keycloak) \in Asking(m, 4)
        /\ Exposed(observe_argocd) \in Asking(m, 4)
    BY <2>2, ConsoleClients, InOrder
  <2>4. Surface(get, FALSE) \in Asking(m, 7)
    BY <2>2, Surfaces
  <2>5. Settles(v, m)
    BY <1>0, <2>2, <2>3, <2>4, Settled
  <2> QED
    BY <2>5 DEF m
<1>3. CheckEntries(secure)
  <2>1. ASSUME NEW p \in Secure
        PROVE  Settles(<<Do(observe_tls), Surface(get_tls, TRUE)>>, ModeFor("active", p))
    <3> DEFINE m == ModeFor("active", p)
    <3>1. m \in Modes /\ m.site /\ m.free
      BY ModeType, ModeHas
    <3> HIDE DEF m
    <3>2. Do(observe_tls) \in Asking(m, 3) /\ Surface(get_tls, TRUE) \in Asking(m, 7)
      BY <3>1, Surfaces
    <3>3. Settles(<<Do(observe_tls), Surface(get_tls, TRUE)>>, m)
      BY <1>0, <1>9, <3>1, <3>2, Settled
    <3> QED
      BY <3>3 DEF m
  <2> SUFFICES ASSUME NEW e \in secure PROVE Settles(e[2], ModeFor("active", e[1]))
    BY DEF CheckEntries
  <2>2. PICK p \in Secure : e = At(p, <<Do(observe_tls), Surface(get_tls, TRUE)>>)
    OBVIOUS
  <2>3. e[1] = p
    BY <2>2, OneEntry, Zenon
  <2>4. e[2] = <<Do(observe_tls), Surface(get_tls, TRUE)>>
    BY <2>2, OneEntry, Zenon
  <2> QED
    BY <2>1, <2>3, <2>4, Zenon
<1> HIDE DEF plain, secure, v
<1>4. CheckEntries({At(8080, v)})
  BY <1>2, OneEntry DEF CheckEntries
<1>5. CheckEntries(plain \cup {At(8080, v)} \cup secure)
  BY <1>1, <1>3, <1>4 DEF CheckEntries
<1> QED
  BY <1>5 DEF check_http_ports, plain, v, secure, Secure

LEMMA ChecksOfStores == CheckEntries(check_stores)
<1>1. Maybe(<<Misconfig>>) \subseteq Seq(Upto(2))
  <2>1. <<Misconfig>> \in Seq(Upto(2))
    BY ClaimEvents
  <2> QED
    BY <2>1, MaybeEvents
<1>2. /\ Sober(<<Try(IfSome(grab_banner, Maybe(<<Misconfig>>)))>>)
      /\ Sober(<<Try(IfSome(observe_redis, Maybe(<<Misconfig>>)))>>)
      /\ Sober(<<Exposed(observe_memcached)>>) /\ Sober(<<Exposed(observe_mongodb)>>)
  BY <1>1, EveryClient, SoberRemark
<1>3. Sober(<<Exposed(observe_elasticsearch), Exposed(observe_opensearch)>>)
  BY EveryClient, InOrder DEF Sober
<1>4. SoberEntries(check_stores)
  BY <1>2, <1>3, OneEntry DEF SoberEntries, check_stores
<1> QED
  BY <1>4, SoberIsFine

LEMMA ChecksOfServices ==
  /\ CheckEntries(check_messaging) /\ CheckEntries(check_identity)
  /\ CheckEntries(check_cloud) /\ CheckEntries(check_databases)
<1>1. /\ Sober(<<Exposed(observe_kafka)>>) /\ Sober(<<Exposed(observe_amqp)>>)
      /\ Sober(<<Exposed(observe_mqtt)>>) /\ Sober(<<Exposed(observe_nats)>>)
      /\ Sober(<<Exposed(observe_snmp)>>)
  BY EveryClient, SoberRemark
<1>2. SoberEntries(check_messaging)
  BY <1>1, OneEntry DEF SoberEntries, check_messaging
<1>3. /\ Sober(<<Exposed(observe_ldap)>>) /\ Sober(<<Exposed(observe_kerberos)>>)
      /\ Sober(<<Exposed(observe_vnc)>>) /\ Sober(<<Exposed(observe_winrm)>>)
  BY EveryClient, SoberRemark
<1>4. SoberEntries(check_identity)
  BY <1>3, OneEntry DEF SoberEntries, check_identity
<1>5. /\ Sober(<<Exposed(observe_docker)>>) /\ Sober(<<Exposed(observe_etcd)>>)
      /\ Sober(<<Exposed(observe_consul)>>) /\ Sober(<<Exposed(observe_mssql)>>)
      /\ Sober(<<Exposed(observe_kubernetes)>>) /\ Sober(<<Exposed(observe_oracle)>>)
  BY EveryClient, SoberRemark
<1>6. SoberEntries(check_cloud)
  BY <1>5, OneEntry DEF SoberEntries, check_cloud
<1>7. /\ Sober(<<Exposed(observe_couchdb)>>) /\ Sober(<<Exposed(observe_zookeeper)>>)
      /\ Sober(<<Exposed(observe_cassandra)>>) /\ Sober(<<Exposed(observe_rdp)>>)
      /\ Sober(<<Exposed(observe_neo4j)>>) /\ Sober(<<Exposed(observe_clickhouse)>>)
  BY EveryClient, SoberRemark
<1>8. SoberEntries(check_databases)
  BY <1>7, OneEntry DEF SoberEntries, check_databases
<1> QED
  BY <1>2, <1>4, <1>6, <1>8, SoberIsFine

LEMMA ChecksOfConsoles == CheckEntries(check_consoles)
<1>1. Sober(<<Exposed(observe_minio), Exposed(observe_portainer), Exposed(observe_sonarqube)>>)
  BY CloudClients, ConsoleClients, InOrder DEF Sober
<1>2. Sober(<<Exposed(observe_bolt)>>) /\ Sober(<<Exposed(observe_rabbitmq)>>)
  BY EveryClient, SoberRemark
<1>3. Settles(<<Exposed(observe_grafana), Surface(get, FALSE)>>, ModeFor("active", 3000))
  <2> DEFINE m == ModeFor("active", 3000)
  <2>0. 4 + 7 + 0 + 0 <= 17 /\ 0 \in Nat /\ 4 \in Nat /\ 7 \in Nat /\ 0 \in 0..17
    OBVIOUS
  <2>1. 3000 \in Pages
    BY DEF Pages
  <2>2. m \in Modes /\ m.site /\ m.page
    BY <2>1, ModeType, ModeHas
  <2> HIDE DEF m
  <2>3. Exposed(observe_grafana) \in Asking(m, 4) /\ Try({}) \in Asking(m, 0)
    BY <2>0, <2>2, EveryClient, InOrder, AskingSteps
  <2>4. Surface(get, FALSE) \in Asking(m, 7)
    BY <2>2, Surfaces
  <2>5. Settles(<<Exposed(observe_grafana), Surface(get, FALSE)>>, m)
    BY <2>0, <2>2, <2>3, <2>4, Settled
  <2> QED
    BY <2>5 DEF m
<1>4. /\ SoberEntries({At(7687, <<Exposed(observe_bolt)>>)})
      /\ SoberEntries({At(15672, <<Exposed(observe_rabbitmq)>>)})
      /\ SoberEntries({At(9000, <<Exposed(observe_minio), Exposed(observe_portainer),
                                  Exposed(observe_sonarqube)>>)})
  BY <1>1, <1>2, OneEntry DEF SoberEntries
<1>5. CheckEntries({At(3000, <<Exposed(observe_grafana), Surface(get, FALSE)>>)})
  BY <1>3, OneEntry DEF CheckEntries
<1> QED
  BY <1>4, <1>5, SoberIsFine DEF CheckEntries, check_consoles

LEMMA ChecksOfPlatforms == CheckEntries(check_metrics) /\ CheckEntries(check_platforms)
<1>1. /\ Sober(<<Exposed(observe_kibana)>>) /\ Sober(<<Exposed(observe_prometheus)>>)
      /\ Sober(<<Exposed(observe_influxdb)>>) /\ Sober(<<Exposed(observe_rethinkdb)>>)
      /\ Sober(<<Exposed(observe_scylla)>>)
  BY EveryClient, SoberRemark
<1>2. SoberEntries(check_metrics)
  BY <1>1, OneEntry DEF SoberEntries, check_metrics
<1>3. /\ Sober(<<Exposed(observe_nomad)>>) /\ Sober(<<Exposed(observe_solr)>>)
      /\ Sober(<<Exposed(observe_hazelcast)>>) /\ Sober(<<Exposed(observe_grpc)>>)
  BY EveryClient, SoberRemark
<1>4. Sober(<<Exposed(observe_vault), Exposed(observe_elastic_apm)>>)
  BY EveryClient, InOrder DEF Sober
<1>5. SoberEntries(check_platforms)
  BY <1>3, <1>4, OneEntry DEF SoberEntries, check_platforms
<1> QED
  BY <1>2, <1>5, SoberIsFine

LEMMA CheckTableSettles ==
  \A p \in DOMAIN CheckTable : Settles(CheckTable[p], ModeFor("active", p))
<1> DEFINE entries ==
      check_http_ports \cup check_stores \cup check_messaging \cup check_identity \cup
      check_cloud \cup check_databases \cup check_consoles \cup check_metrics \cup
      check_platforms
<1>1. CheckEntries(entries)
  BY ChecksOfSites, ChecksOfStores, ChecksOfServices, ChecksOfConsoles, ChecksOfPlatforms
     DEF CheckEntries
<1>2. CheckTable = Table(entries)
  BY DEF CheckTable
<1> HIDE DEF entries
<1> QED
  BY <1>1, <1>2, TableEntry DEF CheckEntries

(* talk *)

\* One exchange that says no more than was heard.
LEMMA SoundVisit ==
  ASSUME NEW m \in Modes, NEW n \in 0..17, NEW X \in SUBSET Sound(m, n)
  PROVE  Fits(<<Try(X)>>, m)
BY TryStep, OneFits

LEMMA TalkEntry ==
  \A proto, p, X : /\ At(proto, Talk(p, X))[2].visit = <<Try(X)>>
                   /\ At(proto, Talk(p, X))[2].port = p
BY DEF At, Talk

\* A protocol whose client is in order anywhere.
LEMMA SoberTalk ==
  \A proto, p, X : Sober(<<Try(X)>>) => TalkEntries({At(proto, Talk(p, X))})
BY ModeType, TalkEntry DEF TalkEntries, Sober, Settles

LEMMA PlainTalk ==
  ASSUME NEW proto, NEW p, NEW n \in 0..17, NEW X \in SUBSET Sound(Plain, n)
  PROVE  TalkEntries({At(proto, Talk(p, X))})
<1>1. X \subseteq Sound(ModeFor("talk", p), n)
  BY PlainGrows, ModeType
<1>2. Fits(<<Try(X)>>, ModeFor("talk", p))
  BY <1>1, ModeType, SoundVisit
<1> QED
  BY <1>2, TalkEntry DEF TalkEntries

LEMMA CoreTalks == TalkEntries(core_run)
<1>0. 1 \in 0..17 /\ 3 \in 0..17 /\ 443 \in Secure
  BY DEF Secure
<1>1. /\ TalkEntries({At("dns", Talk(0, enrich_domain))})
      /\ TalkEntries({At("ssh", Talk(22, Guessed(ssh_grab)))})
  <2>1. enrich_domain \in SUBSET Sound(Plain, 1) /\
       Guessed(ssh_grab) \in SUBSET Sound(Plain, 1)
    BY LookupsAreSound, SshIsSound, GuessedKeeps, PlainLevel
  <2> QED
    BY <1>0, <2>1, PlainTalk
<1>2. TalkEntries({At("tls", Talk(443, observe_tls))})
  <2>1. ModeFor("talk", 443) \in Modes /\ ModeFor("talk", 443).free
    BY <1>0, ModeType, ModeHas
  <2>2. Fits(<<Try(observe_tls)>>, ModeFor("talk", 443))
    BY <2>1, TlsFits
  <2> QED
    BY <2>2, TalkEntry DEF TalkEntries
<1>3. /\ Sober(<<Try(observe_h2_alpn)>>) /\ Sober(<<Try(observe_h2_cleartext)>>)
      /\ Sober(<<Try(IfSome(smb_negotiate, guess_os_from_smb))>>)
      /\ Sober(<<Try(Guessed(grab_banner))>>)
  <2>1. guess_os_from_smb \subseteq Seq(Upto(2))
    BY Guesses, UptoMember, SeqUnion
  <2> QED
    BY <2>1, EveryClient, SoberRemark
<1>4. /\ TalkEntries({At("h2", Talk(443, observe_h2_alpn))})
      /\ TalkEntries({At("h2c", Talk(80, observe_h2_cleartext))})
      /\ TalkEntries({At("smb", Talk(445, IfSome(smb_negotiate, guess_os_from_smb)))})
      /\ TalkEntries({At("ftp", Talk(21, Guessed(grab_banner)))})
      /\ TalkEntries({At("smtp", Talk(25, Guessed(grab_banner)))})
  BY <1>3, SoberTalk
<1> QED
  BY <1>1, <1>2, <1>4 DEF TalkEntries, core_run

LEMMA PageTalks == TalkEntries(http_run)
<1>0. 6 \in Nat /\ 12 \in Nat /\ 6 \in 0..17 /\ 12 \in 0..17 /\ Plain \in Modes
  BY PlainLevel
<1>1. get \subseteq Sound(Plain, 6) /\ get_tls \subseteq Sound(Plain, 6)
  BY GetIsSound DEF Firm, Telling
<1>2. /\ get \cup Guessed(get) \in SUBSET Sound(Plain, 6)
      /\ get_tls \cup Guessed(get_tls) \in SUBSET Sound(Plain, 6)
      /\ session_browse(FALSE) \cup Guessed(session_browse(FALSE)) \in SUBSET Sound(Plain, 12)
  BY <1>0, <1>1, BrowseIsSound, GuessedKeeps
<1>3. /\ TalkEntries({At("http", Talk(80, get \cup Guessed(get)))})
      /\ TalkEntries({At("https", Talk(443, get_tls \cup Guessed(get_tls)))})
      /\ TalkEntries({At("http session", Talk(80, session_browse(FALSE) \cup
                                                    Guessed(session_browse(FALSE))))})
  BY <1>0, <1>2, PlainTalk
<1> QED
  BY <1>3 DEF TalkEntries, http_run

LEMMA DataTalks == TalkEntries(stores_run) /\ TalkEntries(documents_run)
<1>1. /\ Sober(<<Try(Guessed(observe_redis))>>) /\ Sober(<<Try(Guessed(observe_mysql))>>)
      /\ Sober(<<Try(Guessed(observe_postgres))>>) /\ Sober(<<Try(observe_imap)>>)
      /\ Sober(<<Try(observe_pop3)>>)
  BY EveryClient, SoberRemark
<1>2. /\ Sober(<<Try(Guessed(observe_mongodb))>>)
      /\ Sober(<<Try(Guessed(observe_elasticsearch))>>)
      /\ Sober(<<Try(Guessed(observe_memcached))>>)
      /\ Sober(<<Try(Guessed(observe_kafka))>>) /\ Sober(<<Try(Guessed(observe_amqp))>>)
  BY EveryClient, SoberRemark
<1>3. TalkEntries(stores_run)
  BY <1>1, SoberTalk DEF TalkEntries, stores_run
<1>4. TalkEntries(documents_run)
  BY <1>2, SoberTalk DEF TalkEntries, documents_run
<1> QED
  BY <1>3, <1>4

LEMMA RemoteTalks == TalkEntries(identity_run) /\ TalkEntries(remote_run)
<1>1. /\ Sober(<<Try(observe_mqtt)>>) /\ Sober(<<Try(Guessed(observe_nats))>>)
      /\ Sober(<<Try(Guessed(observe_ldap))>>) /\ Sober(<<Try(Guessed(observe_kerberos))>>)
      /\ Sober(<<Try(observe_vnc)>>)
  BY EveryClient, SoberRemark
<1>2. /\ Sober(<<Try(Guessed(observe_winrm))>>) /\ Sober(<<Try(Guessed(observe_snmp))>>)
      /\ Sober(<<Try(observe_docker)>>) /\ Sober(<<Try(observe_etcd)>>)
      /\ Sober(<<Try(observe_consul)>>) /\ Sober(<<Try(observe_mssql)>>)
  BY EveryClient, SoberRemark
<1>3. TalkEntries(identity_run)
  BY <1>1, SoberTalk DEF TalkEntries, identity_run
<1>4. TalkEntries(remote_run)
  BY <1>2, SoberTalk DEF TalkEntries, remote_run
<1> QED
  BY <1>3, <1>4

LEMMA ClusterTalks == TalkEntries(cluster_run) /\ TalkEntries(analytics_run)
<1>1. /\ Sober(<<Try(observe_kubernetes)>>) /\ Sober(<<Try(observe_oracle)>>)
      /\ Sober(<<Try(observe_couchdb)>>) /\ Sober(<<Try(observe_zookeeper)>>)
      /\ Sober(<<Try(observe_cassandra)>>) /\ Sober(<<Try(observe_rdp)>>)
  BY EveryClient, SoberRemark
<1>2. /\ Sober(<<Try(observe_neo4j)>>) /\ Sober(<<Try(observe_clickhouse)>>)
      /\ Sober(<<Try(observe_minio)>>) /\ Sober(<<Try(observe_bolt)>>)
      /\ Sober(<<Try(observe_rabbitmq)>>) /\ Sober(<<Try(observe_grafana)>>)
  BY EveryClient, SoberRemark
<1>3. TalkEntries(cluster_run)
  BY <1>1, SoberTalk DEF TalkEntries, cluster_run
<1>4. TalkEntries(analytics_run)
  BY <1>2, SoberTalk DEF TalkEntries, analytics_run
<1> QED
  BY <1>3, <1>4

LEMMA ConsoleTalks ==
  TalkEntries(metrics_run) /\ TalkEntries(platforms_run) /\ TalkEntries(products_run)
<1>1. /\ Sober(<<Try(observe_kibana)>>) /\ Sober(<<Try(observe_prometheus)>>)
      /\ Sober(<<Try(observe_jenkins)>>) /\ Sober(<<Try(observe_influxdb)>>)
      /\ Sober(<<Try(observe_rethinkdb)>>) /\ Sober(<<Try(observe_scylla)>>)
  BY EveryClient, SoberRemark
<1>2. /\ Sober(<<Try(observe_elastic_apm)>>) /\ Sober(<<Try(observe_grpc)>>)
      /\ Sober(<<Try(observe_vault)>>) /\ Sober(<<Try(observe_nomad)>>)
      /\ Sober(<<Try(observe_solr)>>) /\ Sober(<<Try(observe_hazelcast)>>)
  BY EveryClient, SoberRemark
<1>3. /\ Sober(<<Try(observe_opensearch)>>) /\ Sober(<<Try(observe_keycloak)>>)
      /\ Sober(<<Try(observe_portainer)>>) /\ Sober(<<Try(observe_argocd)>>)
      /\ Sober(<<Try(observe_sonarqube)>>)
  BY EveryClient, SoberRemark
<1>4. TalkEntries(metrics_run)
  BY <1>1, SoberTalk DEF TalkEntries, metrics_run
<1>5. TalkEntries(platforms_run)
  BY <1>2, SoberTalk DEF TalkEntries, platforms_run
<1>6. TalkEntries(products_run)
  BY <1>3, SoberTalk DEF TalkEntries, products_run
<1> QED
  BY <1>4, <1>5, <1>6

LEMMA ProtoTableFits ==
  \A proto \in DOMAIN ProtoTable :
    Fits(ProtoTable[proto].visit, ModeFor("talk", ProtoTable[proto].port))
<1> DEFINE entries ==
      core_run \cup http_run \cup stores_run \cup documents_run \cup identity_run \cup
      remote_run \cup cluster_run \cup analytics_run \cup metrics_run \cup
      platforms_run \cup products_run
<1>1. TalkEntries(entries)
  BY CoreTalks, PageTalks, DataTalks, RemoteTalks, ClusterTalks, ConsoleTalks DEF TalkEntries
<1>2. ProtoTable = Table(entries)
  BY DEF ProtoTable
<1> HIDE DEF entries
<1> QED
  BY <1>1, <1>2, TableEntry DEF TalkEntries

(* What a module visits. *)

LEMMA NoVisit == \A m \in Modes : Settles(<<>>, m)
<1> SUFFICES ASSUME NEW m \in Modes PROVE Settles(<<>>, m)
  OBVIOUS
<1>1. Budgets(<<>>, <<0>>)
  BY LingerType DEF Budgets
<1>2. \A k \in 1..Len(<<>>) : FALSE
  OBVIOUS
<1> QED
  BY <1>1, <1>2 DEF Settles, Fits

\* Every visit of every module is in order, whatever the graph says.
LEMMA VisitFits ==
  ASSUME kind \in Kinds, item \in Items, NEW addr
  PROVE  /\ Mode \in Modes
         /\ Fits(VisitTo(addr), Mode)
         /\ kind = "active" => Settles(VisitTo(addr), Mode)
<1>0. Mode \in Modes
  BY ModeType DEF Mode
<1>1. kind \in {"service", "fingerprint", "active", "talk", "asn"}
  BY ObservationAssumption
<1>2. CASE kind \in {"service", "fingerprint"}
  <2> DEFINE ttl_seen == G!HostOf(graph, addr).ttl # 0
  <2>1. ttl_seen \in BOOLEAN /\ port = item /\ 1 \in 0..17 /\ 1 \in Nat
    BY <1>2 DEF port
  <2>2. VisitTo(addr) = detect_service_ex(item, ttl_seen)
    BY <1>2 DEF VisitTo
  <2> HIDE DEF ttl_seen
  <2>3. CASE item \in DOMAIN PortTable
    <3>1. VisitTo(addr) = PortTable[item]
      BY <2>2, <2>3 DEF detect_service_ex
    <3>2. ModeFor("service", item) = Mode
      <4> DEFINE page(k) == k # "talk" /\ item \in Pages
                 free(k) == \/ item \in Secure \cup {636, 993, 995}
                            \/ k \in {"service", "fingerprint"} /\ item \notin DOMAIN PortTable
                 paged(k) == k = "active" /\ item \in Pages \cup Secure
      <4>1. /\ page(kind) = page("service") /\ free(kind) = free("service")
            /\ paged(kind) = paged("service")
        BY <1>2
      <4>2. Mode = ModeFor(kind, item)
        BY <2>1 DEF Mode
      <4>3. /\ ModeFor(kind, item) =
                 [page |-> page(kind), free |-> free(kind), site |-> paged(kind)]
            /\ ModeFor("service", item) =
                 [page |-> page("service"), free |-> free("service"), site |-> paged("service")]
        BY DEF ModeFor
      <4> HIDE DEF page, free, paged
      <4> QED
        BY <4>1, <4>2, <4>3
    <3> QED
      BY <1>0, <1>2, <2>3, <3>1, <3>2, PortTableFits
  <2>4. CASE item \notin DOMAIN PortTable
    <3>1. VisitTo(addr) = <<Try(detect_banner(ttl_seen))>>
      BY <2>1, <2>2, <2>4 DEF detect_service_ex, BannerVisit
    <3>2. Mode.free
      BY <1>2, <2>1, <2>4, ModeHas DEF Mode
    <3>3. Sound(Free, 1) \subseteq Sound(Mode, 1)
      BY <1>0, <2>1, <3>2, FreeLevel, SoundGrows DEF Free
    <3>4. detect_banner(ttl_seen) \in SUBSET Sound(Mode, 1)
      BY <2>1, <3>3, DetectIsSound
    <3>5. Fits(<<Try(detect_banner(ttl_seen))>>, Mode)
      BY <1>0, <2>1, <3>4, SoundVisit
    <3> QED
      BY <1>0, <1>2, <3>1, <3>5
  <2> QED
    BY <2>3, <2>4
<1>3. CASE kind = "active"
  <2>1. VisitTo(addr) = check_ports(item) /\ Mode = ModeFor("active", item)
    BY <1>3 DEF VisitTo, Mode, port
  <2>2. Settles(check_ports(item), Mode)
    BY <1>0, <2>1, CheckTableSettles, NoVisit DEF check_ports
  <2> QED
    BY <1>0, <2>1, <2>2 DEF Settles
<1>4. CASE kind = "talk"
  <2>1. item \in DOMAIN ProtoTable
    BY <1>4 DEF Items
  <2>2. VisitTo(addr) = ProtoTable[item].visit /\ Mode = ModeFor("talk", ProtoTable[item].port)
    BY <1>4 DEF VisitTo, Mode, port
  <2> QED
    BY <1>0, <1>4, <2>1, <2>2, ProtoTableFits
<1>5. CASE kind = "asn"
  <2>1. VisitTo(addr) = <<Try(enrich_host)>>
    BY <1>5 DEF VisitTo
  <2>2. enrich_host \in SUBSET Sound(Mode, 1) /\ 1 \in 0..17
    BY <1>0, LookupsAreSound, PlainGrows
  <2> QED
    BY <1>0, <1>5, <2>1, <2>2, SoundVisit
<1> QED
  BY <1>1, <1>2, <1>3, <1>4, <1>5

-----------------------------------------------------------------------------
(* What the events of a transcript do to the graph. *)

\* A set of numbers that is not empty has a least one.
LEMMA Least == ASSUME NEW T \in SUBSET Nat, T # {} PROVE \E n \in T : \A m \in T : n <= m
<1> DEFINE R == StrictSubsetOrdering(Nat)
           F == FiniteSubsetsOf(Nat)
           D == {1..n : n \in T}
<1>1. IsWellFoundedOn(R, F)
  BY FS_StrictSubsetOrderingWellFounded
<1>2. D \subseteq F /\ D # {}
  <2>1. \A n \in T : 1..n \in SUBSET Nat /\ IsFiniteSet(1..n)
    BY FS_Interval
  <2> QED
    BY <2>1 DEF FiniteSubsetsOf
<1>3. PICK d \in D : \A e \in D : <<e, d>> \notin R
  BY <1>1, <1>2, WFMin
<1>4. PICK n \in T : d = 1..n
  OBVIOUS
<1>5. ASSUME NEW m \in T, m < n PROVE FALSE
  <2>1. 1..m \in D /\ 1..m \subseteq 1..n /\ 1..m # 1..n /\ n \in 1..n /\ n \notin 1..m
    BY <1>5
  <2>2. 1..m \in SUBSET Nat /\ 1..n \in SUBSET Nat
    OBVIOUS
  <2>3. <<1..m, 1..n>> \in R
    BY <2>1, <2>2 DEF StrictSubsetOrdering
  <2> QED
    BY <1>3, <1>4, <2>1, <2>3
<1> QED
  BY <1>5

\* The graphs between the events, up to the n-th of them.
Between(f, g, addr, events, n) ==
  f = [i \in 0..n |-> IF i = 0 THEN g ELSE Apply(f[i - 1], addr, events[i])]

LEMMA BetweenExists ==
  ASSUME NEW g, NEW addr, NEW events, NEW N \in Nat
  PROVE  \E f : Between(f, g, addr, events, N)
<1> DEFINE T == {n \in Nat : ~ \E f : Between(f, g, addr, events, n)}
<1>1. SUFFICES ASSUME T # {} PROVE FALSE
  OBVIOUS
<1>2. PICK n \in T : \A m \in T : n <= m
  <2> HIDE DEF T
  <2>1. T \in SUBSET Nat
    BY DEF T
  <2> QED
    BY <1>1, <2>1, Least
<1>3. CASE n = 0
  <2> DEFINE f == [i \in 0..0 |-> g]
  <2>1. f = [i \in 0..0 |-> IF i = 0 THEN g ELSE Apply(f[i - 1], addr, events[i])]
    OBVIOUS
  <2> QED
    BY <1>3, <2>1 DEF Between
<1>4. CASE n # 0
  <2>1. n - 1 \in Nat /\ ~ n <= n - 1
    BY <1>4
  <2>2. PICK f : Between(f, g, addr, events, n - 1)
    BY <1>2, <2>1
  <2> DEFINE h == [i \in 0..n |-> IF i = n THEN Apply(f[n - 1], addr, events[n]) ELSE f[i]]
             k == [i \in 0..n |-> IF i = 0 THEN g ELSE Apply(h[i - 1], addr, events[i])]
  <2>3. ASSUME NEW i \in 0..n PROVE h[i] = k[i]
    <3>1. CASE i = n
      <4>1. n - 1 \in 0..n /\ n - 1 # n
        BY <1>4
      <4>2. h[n - 1] = f[n - 1]
        BY <4>1
      <4> QED
        BY <1>4, <3>1, <4>2
    <3>2. CASE i = 0 /\ i # n
      <4>1. 0 \in 0..(n - 1)
        BY <2>1
      <4>2. f[0] = g
        BY <2>2, <4>1 DEF Between
      <4> QED
        BY <3>2, <4>2
    <3>3. CASE i # 0 /\ i # n
      <4>1. i \in 0..(n - 1) /\ i - 1 \in 0..n /\ i - 1 # n
        BY <3>3
      <4>2. f[i] = Apply(f[i - 1], addr, events[i])
        BY <2>2, <3>3, <4>1 DEF Between
      <4>3. h[i - 1] = f[i - 1]
        BY <4>1
      <4> QED
        BY <3>3, <4>2, <4>3
    <3> QED
      BY <3>1, <3>2, <3>3
  <2>4. h = k
    <3>1. DOMAIN h = 0..n /\ DOMAIN k = 0..n
      OBVIOUS
    <3> HIDE DEF h, k
    <3>2. h = [i \in 0..n |-> h[i]] /\ k = [i \in 0..n |-> k[i]]
      BY <3>1 DEF h, k
    <3> QED
      BY <2>3, <3>2
  <2>5. Between(h, g, addr, events, n)
    BY <2>4 DEF Between
  <2> HIDE DEF h, k
  <2> QED
    BY <2>5
<1> QED
  BY <1>3, <1>4

LEMMA AppliedBetween ==
  ASSUME NEW g, NEW addr, NEW events, Len(events) \in Nat
  PROVE  \E f : /\ Applied(g, addr, events) = f[Len(events)]
                /\ f[0] = g
                /\ \A i \in 1..Len(events) : f[i] = Apply(f[i - 1], addr, events[i])
<1> DEFINE N == Len(events)
           f == CHOOSE f : f = [i \in 0..N |->
                                  IF i = 0 THEN g ELSE Apply(f[i - 1], addr, events[i])]
<1>1. Between(f, g, addr, events, N)
  <2>0. PICK x : Between(x, g, addr, events, N)
    BY BetweenExists
  <2>1. x = [i \in 0..N |-> IF i = 0 THEN g ELSE Apply(x[i - 1], addr, events[i])]
    BY <2>0 DEF Between
  <2> QED
    BY <2>1 DEF Between
<1>2. Applied(g, addr, events) = f[N]
  BY DEF Applied
<1> HIDE DEF f
<1>3. f[0] = g /\ \A i \in 1..N : f[i] = Apply(f[i - 1], addr, events[i])
  BY <1>1 DEF Between
<1> QED
  BY <1>2, <1>3

\* What a host has of the port.
PortOn(h) == G!Entry(h.ports, port, G!NewPort("tcp", "unknown"))

Claimed(h) == PortOn(h).service > 30 \/ h.findings # {}

\* A host before and after events of a weight.
HostHeeds(h, r, w) ==
  /\ HostOk(r)
  /\ r.ttl = h.ttl
  /\ PortOn(r).state = "open" => PortOn(h).state = "open" \/ 1 <= w
  /\ Claimed(r) => Claimed(h) \/ w = 2

\* A graph before and after what was said of an address.
Heeds(g, r, addr, w) ==
  /\ GraphOk(r)
  /\ \A a \in Addresses : IF a = addr THEN HostHeeds(G!HostOf(g, a), G!HostOf(r, a), w)
                          ELSE G!HostOf(r, a) = G!HostOf(g, a)

LEMMA NewHostOk == HostOk(G!NewHost)
BY DEF HostOk, G!NewHost, G!EmptyMap

LEMMA HostOfOk == \A g, a : GraphOk(g) => HostOk(G!HostOf(g, a))
BY NewHostOk DEF GraphOk, G!HostOf, G!Entry

LEMMA PortOnOk == \A h : HostOk(h) => PortOk(PortOn(h))
<1>1. PortOk(G!NewPort("tcp", "unknown"))
  BY DEF PortOk, G!NewPort
<1> QED
  BY <1>1 DEF PortOn, G!Entry, HostOk

\* The same host, and another port entry.
LEMMA PortPut ==
  ASSUME NEW h, HostOk(h), NEW r, HostOk(r), NEW p, PortOk(p),
         r.ports = G!Insert(h.ports, port, p)
  PROVE  PortOn(r) = p
BY DEF PortOn, G!Insert, G!Entry

LEMMA InsertPort ==
  \A h, p : HostOk(h) /\ PortOk(p) =>
    \A q \in DOMAIN G!Insert(h.ports, port, p) : PortOk(G!Insert(h.ports, port, p)[q])
BY DEF HostOk, G!Insert

LEMMA QuietHost ==
  ASSUME NEW h, HostOk(h)
  PROVE  /\ HostHeeds(h, G!Heard(h), 0)
         /\ \A c \in Nat : HostHeeds(h, G!OsGuess(h, c, 0), 0)
         /\ \A text : HostHeeds(h, G!AsnInfo(h, text), 0)
         /\ \A text : HostHeeds(h, G!Named(h, text), 0)
         /\ \A text : HostHeeds(h, G!Named([h EXCEPT !.detail = text], text), 0)
<1>1. ASSUME NEW r, DOMAIN r = DOMAIN h, r.ports = h.ports, r.findings = h.findings,
             r.ttl = h.ttl
      PROVE  HostHeeds(h, r, 0)
  <2>1. HostOk(r)
    BY <1>1 DEF HostOk
  <2>2. PortOn(r) = PortOn(h)
    BY <1>1 DEF PortOn
  <2> QED
    BY <1>1, <2>1, <2>2 DEF HostHeeds, Claimed
<1>2. G!Larger(h.ttl, 0) = h.ttl
  BY DEF HostOk, G!Larger
<1>4. HostHeeds(h, G!Heard(h), 0)
  <2> DEFINE r == G!Heard(h)
  <2>1. /\ DOMAIN r = DOMAIN h /\ r.ports = h.ports /\ r.findings = h.findings
        /\ r.ttl = h.ttl
    BY DEF G!Heard, HostOk
  <2> HIDE DEF r
  <2>2. HostHeeds(h, r, 0)
    BY <1>1, <2>1
  <2> QED
    BY <2>2 DEF r
<1>5. ASSUME NEW c \in Nat PROVE HostHeeds(h, G!OsGuess(h, c, 0), 0)
  <2> DEFINE r == G!OsGuess(h, c, 0)
  <2>1. DOMAIN r = DOMAIN h /\ r.ports = h.ports /\ r.findings = h.findings
    BY DEF G!OsGuess
  <2>2. r.ttl = h.ttl
    BY <1>2 DEF G!OsGuess, HostOk
  <2> HIDE DEF r
  <2>3. HostHeeds(h, r, 0)
    BY <1>1, <2>1, <2>2
  <2> QED
    BY <2>3 DEF r
<1>6. ASSUME NEW text PROVE HostHeeds(h, G!AsnInfo(h, text), 0)
  <2> DEFINE r == G!AsnInfo(h, text)
  <2>1. /\ DOMAIN r = DOMAIN h /\ r.ports = h.ports /\ r.findings = h.findings
        /\ r.ttl = h.ttl
    BY DEF G!AsnInfo, HostOk
  <2> HIDE DEF r
  <2>2. HostHeeds(h, r, 0)
    BY <1>1, <2>1
  <2> QED
    BY <2>2 DEF r
<1>7. ASSUME NEW text PROVE HostHeeds(h, G!Named(h, text), 0)
  <2> DEFINE r == G!Named(h, text)
  <2>1. /\ DOMAIN r = DOMAIN h /\ r.ports = h.ports /\ r.findings = h.findings
        /\ r.ttl = h.ttl
    BY DEF G!Named, HostOk
  <2> HIDE DEF r
  <2>2. HostHeeds(h, r, 0)
    BY <1>1, <2>1
  <2> QED
    BY <2>2 DEF r
<1>8. ASSUME NEW text PROVE HostHeeds(h, G!Named([h EXCEPT !.detail = text], text), 0)
  <2> DEFINE r == G!Named([h EXCEPT !.detail = text], text)
  <2>1. /\ DOMAIN r = DOMAIN h /\ r.ports = h.ports /\ r.findings = h.findings
        /\ r.ttl = h.ttl
    BY DEF G!Named, HostOk
  <2> HIDE DEF r
  <2>2. HostHeeds(h, r, 0)
    BY <1>1, <2>1
  <2> QED
    BY <2>2 DEF r
<1> QED
  BY <1>4, <1>5, <1>6, <1>7, <1>8

LEMMA OpenedHost ==
  ASSUME NEW h, HostOk(h), NEW c \in Nat, NEW text, NEW length
  PROVE  /\ HostHeeds(h, G!Banner(h, port, length), 1)
         /\ HostHeeds(h, G!ProbeResult(h, port, text), 1)
         /\ HostHeeds(h, G!PortResult(h, port, "tcp", "open"), 1)
         /\ HostHeeds(h, G!ServiceDetected(h, port, c), IF c > 30 THEN 2 ELSE 1)
         /\ HostHeeds(h, G!MisconfigFinding(h, port, text), 2)
<1> DEFINE known == G!Entry(h.ports, port, G!NewPort("tcp", "open"))
<1>1. /\ PortOk(known)
      /\ known.service = PortOn(h).service \/ known.service = 0
  BY DEF HostOk, PortOk, G!Entry, G!NewPort, PortOn
<1> HIDE DEF known
<1>2. ASSUME NEW r, NEW p, PortOk(p), DOMAIN r = DOMAIN h, r.ports = G!Insert(h.ports, port, p),
             r.findings = h.findings, r.ttl = h.ttl
      PROVE  /\ p.service = known.service \/ p.service = 0 => HostHeeds(h, r, 1)
             /\ HostHeeds(h, r, 2)
             /\ ~ p.service > 30 => HostHeeds(h, r, 1)
  <2>1. HostOk(r)
    BY <1>2, InsertPort DEF HostOk
  <2>2. PortOn(r) = p
    BY <1>2, <2>1, PortPut
  <2>3. ~ 0 > 30
    OBVIOUS
  <2> QED
    BY <1>1, <1>2, <2>1, <2>2, <2>3 DEF HostHeeds, Claimed
<1>3. HostHeeds(h, G!Banner(h, port, length), 1)
  <2> DEFINE r == G!Banner(h, port, length)
             p == [known EXCEPT !.banner = length]
  <2>1. PortOk(p) /\ p.service = known.service
    BY <1>1 DEF PortOk
  <2>2. /\ DOMAIN r = DOMAIN h /\ r.findings = h.findings /\ r.ttl = h.ttl
        /\ r.ports = G!Insert(h.ports, port, p)
    BY DEF G!Banner, known, HostOk
  <2> HIDE DEF r, p
  <2>3. HostHeeds(h, r, 1)
    BY <1>2, <2>1, <2>2
  <2> QED
    BY <2>3 DEF r
<1>4. HostHeeds(h, G!PortResult(h, port, "tcp", "open"), 1)
  <2> DEFINE r == G!PortResult(h, port, "tcp", "open")
             p == G!NewPort("tcp", "open")
  <2>1. PortOk(p) /\ p.service = 0
    BY DEF PortOk, G!NewPort
  <2>2. /\ DOMAIN r = DOMAIN h /\ r.findings = h.findings /\ r.ttl = h.ttl
        /\ r.ports = G!Insert(h.ports, port, p)
    BY DEF G!PortResult, HostOk
  <2> HIDE DEF r, p
  <2>3. HostHeeds(h, r, 1)
    BY <1>2, <2>1, <2>2
  <2> QED
    BY <2>3 DEF r
<1>5. HostHeeds(h, G!ServiceDetected(h, port, c), IF c > 30 THEN 2 ELSE 1)
  <2> DEFINE r == G!ServiceDetected(h, port, c)
             p == [known EXCEPT !.service = c]
  <2>1. PortOk(p) /\ p.service = c
    BY <1>1 DEF PortOk
  <2>2. /\ DOMAIN r = DOMAIN h /\ r.findings = h.findings /\ r.ttl = h.ttl
        /\ r.ports = G!Insert(h.ports, port, p)
    BY DEF G!ServiceDetected, known, HostOk
  <2> HIDE DEF r, p
  <2>3. HostHeeds(h, r, IF c > 30 THEN 2 ELSE 1)
    BY <1>2, <2>1, <2>2
  <2> QED
    BY <2>3 DEF r
<1>6. CASE port = 0
  <2>1. G!EnsureOpenPort(h.ports, port) = h.ports
    BY <1>6 DEF G!EnsureOpenPort
  <2>2. ASSUME NEW r, DOMAIN r = DOMAIN h, r.ports = h.ports, r.ttl = h.ttl
        PROVE  /\ r.findings = h.findings => HostHeeds(h, r, 1)
               /\ HostHeeds(h, r, 2)
    <3>1. HostOk(r) /\ PortOn(r) = PortOn(h)
      BY <2>2 DEF HostOk, PortOn
    <3> QED
      BY <2>2, <3>1 DEF HostHeeds, Claimed
  <2>3. HostHeeds(h, G!ProbeResult(h, port, text), 1)
    <3> DEFINE r == G!ProbeResult(h, port, text)
    <3>1. /\ DOMAIN r = DOMAIN h /\ r.findings = h.findings /\ r.ttl = h.ttl
          /\ r.ports = h.ports
      BY <2>1 DEF G!ProbeResult, HostOk
    <3> HIDE DEF r
    <3>2. HostHeeds(h, r, 1)
      BY <2>2, <3>1
    <3> QED
      BY <3>2 DEF r
  <2>4. HostHeeds(h, G!MisconfigFinding(h, port, text), 2)
    <3> DEFINE r == G!MisconfigFinding(h, port, text)
    <3>1. DOMAIN r = DOMAIN h /\ r.ttl = h.ttl /\ r.ports = h.ports
      BY <2>1 DEF G!MisconfigFinding, HostOk
    <3> HIDE DEF r
    <3>2. HostHeeds(h, r, 2)
      BY <2>2, <3>1
    <3> QED
      BY <3>2 DEF r
  <2> QED
    BY <1>3, <1>4, <1>5, <2>3, <2>4
<1>7. CASE port # 0
  <2> DEFINE p == [known EXCEPT !.state = "open"]
  <2>1. G!EnsureOpenPort(h.ports, port) = G!Insert(h.ports, port, p)
    BY <1>7 DEF G!EnsureOpenPort, known
  <2>2. PortOk(p) /\ p.service = known.service
    BY <1>1 DEF PortOk
  <2> HIDE DEF p
  <2>3. HostHeeds(h, G!ProbeResult(h, port, text), 1)
    <3> DEFINE r == G!ProbeResult(h, port, text)
    <3>1. /\ DOMAIN r = DOMAIN h /\ r.findings = h.findings /\ r.ttl = h.ttl
          /\ r.ports = G!Insert(h.ports, port, p)
      BY <2>1 DEF G!ProbeResult, HostOk
    <3> HIDE DEF r
    <3>2. HostHeeds(h, r, 1)
      BY <1>2, <2>2, <3>1
    <3> QED
      BY <3>2 DEF r
  <2>4. HostHeeds(h, G!MisconfigFinding(h, port, text), 2)
    <3> DEFINE r == G!MisconfigFinding(h, port, text)
    <3>1. /\ DOMAIN r = DOMAIN h /\ r.ttl = h.ttl
          /\ r.ports = G!Insert(h.ports, port, p)
      BY <2>1 DEF G!MisconfigFinding, HostOk
    <3> HIDE DEF r
    <3>2. HostOk(r)
      BY <2>2, <3>1, InsertPort DEF HostOk
    <3>3. HostHeeds(h, r, 2)
      BY <3>1, <3>2 DEF HostHeeds
    <3> QED
      BY <3>3 DEF r
  <2> QED
    BY <1>3, <1>4, <1>5, <2>3, <2>4
<1> QED
  BY <1>6, <1>7

\* What is put in the place of a host.
LEMMA HostPut ==
  ASSUME NEW g, GraphOk(g), NEW at \in Addresses \cup {Elsewhere}, NEW r,
         NEW w, HostHeeds(G!HostOf(g, at), r, w)
  PROVE  Heeds(g, G!SetHost(g, at, r), at, w)
<1> DEFINE s == G!SetHost(g, at, r)
<1>1. /\ DOMAIN s = DOMAIN g /\ DOMAIN s.hosts = DOMAIN g.hosts \cup {at}
      /\ \A a \in DOMAIN s.hosts : s.hosts[a] = IF a = at THEN r ELSE g.hosts[a]
  BY DEF G!SetHost, G!Insert, GraphOk
<1>2. HostOk(r)
  BY DEF HostHeeds
<1> HIDE DEF s
<1>3. GraphOk(s)
  BY <1>1, <1>2 DEF GraphOk
<1>4. \A a : G!HostOf(s, a) = IF a = at THEN r ELSE G!HostOf(g, a)
  BY <1>1 DEF G!HostOf, G!Entry
<1>5. Heeds(g, s, at, w)
  BY <1>3, <1>4 DEF Heeds
<1> QED
  BY <1>5 DEF s

\* What is recorded beside the hosts.
LEMMA BesideHosts ==
  ASSUME NEW g, GraphOk(g), NEW s, DOMAIN s = DOMAIN g, s.hosts = g.hosts
  PROVE  GraphOk(s) /\ \A a : G!HostOf(s, a) = G!HostOf(g, a)
BY DEF GraphOk, G!HostOf

LEMMA SameHost == \A h, w : HostOk(h) => HostHeeds(h, h, w)
BY DEF HostHeeds

LEMMA HostHeedsGrow ==
  \A h, r : \A v, w \in 0..2 : v <= w /\ HostHeeds(h, r, v) => HostHeeds(h, r, w)
BY DEF HostHeeds

\* One event.
LEMMA ApplyHeeds ==
  ASSUME NEW g, GraphOk(g), NEW addr \in Addresses, NEW e \in Events
  PROVE  Heeds(g, Apply(g, addr, e), addr, Weight(e))
<1> DEFINE at   == IF e.away THEN Elsewhere ELSE addr
           host == G!HostOf(g, at)
           id   == Cardinality(DOMAIN g.sessions)
           h    == Apply(g, addr, e)
<1>0. /\ e.type \in Types /\ e.confidence \in Nat /\ Weight(e) \in 0..2
      /\ at \in Addresses \cup {Elsewhere} /\ addr # Elsewhere /\ addr \in Nat
  BY DEF Events, Weight, Addresses, Elsewhere
<1> SUFFICES Heeds(g, h, addr, Weight(e))
  OBVIOUS
<1>1. HostOk(host)
  BY HostOfOk
<1>2. ASSUME NEW r, NEW w \in 0..2, w <= Weight(e), HostHeeds(host, r, w),
             NEW s, DOMAIN s = DOMAIN g, s.hosts = G!SetHost(g, at, r).hosts
      PROVE  Heeds(g, s, addr, Weight(e))
  <2>1. Heeds(g, G!SetHost(g, at, r), at, Weight(e))
    <3>1. HostHeeds(host, r, Weight(e))
      BY <1>0, <1>2, HostHeedsGrow
    <3> QED
      BY <1>0, <3>1, HostPut
  <2>2. DOMAIN G!SetHost(g, at, r) = DOMAIN g
    BY DEF G!SetHost
  <2>3. GraphOk(s) /\ \A a : G!HostOf(s, a) = G!HostOf(G!SetHost(g, at, r), a)
    BY <1>2, <2>1, <2>2, BesideHosts DEF Heeds
  <2>4. \A a \in Addresses : HostHeeds(G!HostOf(g, a), G!HostOf(g, a), Weight(e))
    BY SameHost, HostOfOk
  <2>5. Heeds(g, s, at, Weight(e))
    BY <2>1, <2>3 DEF Heeds
  <2>6. CASE at = addr
    BY <2>5, <2>6
  <2>7. CASE at # addr
    <3>1. at = Elsewhere /\ at \notin Addresses
      BY <2>7 DEF Addresses, Elsewhere
    <3> QED
      BY <2>4, <2>5, <3>1 DEF Heeds
  <2> QED
    BY <2>6, <2>7
<1>3. ASSUME NEW s, DOMAIN s = DOMAIN g, s.hosts = g.hosts
      PROVE  Heeds(g, s, addr, Weight(e))
  <2>1. GraphOk(s) /\ \A a : G!HostOf(s, a) = G!HostOf(g, a)
    BY <1>3, BesideHosts
  <2>2. \A a \in Addresses : HostHeeds(G!HostOf(g, a), G!HostOf(g, a), Weight(e))
    BY SameHost, HostOfOk
  <2> QED
    BY <2>1, <2>2 DEF Heeds
<1> HIDE DEF host, at, id
<1>4. ASSUME NEW r, NEW w \in 0..2, w <= Weight(e), HostHeeds(host, r, w),
             h = G!SetHost(g, at, r)
      PROVE  Heeds(g, h, addr, Weight(e))
  <2>1. DOMAIN h = DOMAIN g
    BY <1>4 DEF G!SetHost
  <2> HIDE DEF h
  <2> QED
    BY <1>2, <1>4, <2>1
<1>5. CASE e.type = "banner"
  <2>1. h = G!SetHost(g, at, G!Banner(host, port, 1)) /\ 1 <= Weight(e)
    BY <1>5 DEF Apply, host, at, Weight, Opening
  <2> HIDE DEF h
  <2> QED
    BY <1>0, <1>1, <1>4, <2>1, OpenedHost
<1>6. CASE e.type = "probe_result"
  <2>1. h = G!SetHost(g, at, G!Heard(host))
    BY <1>6 DEF Apply, host, at
  <2> HIDE DEF h
  <2> QED
    BY <1>0, <1>1, <1>4, <2>1, QuietHost
<1>7. CASE e.type \in {"open_probe", "tls_cert"}
  <2>1. h = G!SetHost(g, at, G!ProbeResult(host, port, "text")) /\ 1 <= Weight(e)
    BY <1>7 DEF Apply, host, at, Weight, Opening
  <2> HIDE DEF h
  <2> QED
    BY <1>0, <1>1, <1>4, <2>1, OpenedHost
<1>8. CASE e.type = "service_detected"
  <2>1. /\ h = G!SetHost(g, at, G!ServiceDetected(host, port, e.confidence))
        /\ Weight(e) = IF e.confidence > 30 THEN 2 ELSE 1
    BY <1>8 DEF Apply, host, at, Weight, Opening, Claims
  <2> HIDE DEF h
  <2>2. HostHeeds(host, G!ServiceDetected(host, port, e.confidence), Weight(e))
    BY <1>0, <1>1, <2>1, OpenedHost
  <2> QED
    BY <1>0, <1>4, <2>1, <2>2
<1>9. CASE e.type = "port_result"
  <2>1. h = G!SetHost(g, at, G!PortResult(host, port, "tcp", "open")) /\ 1 <= Weight(e)
    BY <1>9 DEF Apply, host, at, Weight, Opening
  <2> HIDE DEF h
  <2> QED
    BY <1>0, <1>1, <1>4, <2>1, OpenedHost
<1>10. CASE e.type = "os_guess"
  <2>1. h = G!SetHost(g, at, G!OsGuess(host, Guess, 0)) /\ Guess \in Nat
    BY <1>10 DEF Apply, host, at, Guess
  <2> HIDE DEF h
  <2> QED
    BY <1>0, <1>1, <1>4, <2>1, QuietHost
<1>11. CASE e.type = "misconfig_finding"
  <2>1. h = G!SetHost(g, at, G!MisconfigFinding(host, port, "exposed")) /\ 2 <= Weight(e)
    BY <1>11 DEF Apply, host, at, Weight, Claims
  <2> HIDE DEF h
  <2> QED
    BY <1>0, <1>1, <1>4, <2>1, OpenedHost
<1>12. CASE e.type = "asn_info"
  <2>1. h = G!SetHost(g, at, G!AsnInfo(host, "text"))
    BY <1>12 DEF Apply, host, at
  <2> HIDE DEF h
  <2> QED
    BY <1>0, <1>1, <1>4, <2>1, QuietHost
<1>13. CASE e.type = "address_record"
  <2>1. h = G!AddressRecord(g, "name", at)
    BY <1>13 DEF Apply, at
  <2>2. /\ DOMAIN h = DOMAIN g
        /\ h.hosts = G!SetHost(g, at, G!Named(host, "name")).hosts
    BY <2>1 DEF G!AddressRecord, G!DnsRecord, G!SetHost, host
  <2> HIDE DEF h
  <2> QED
    BY <1>0, <1>1, <1>2, <2>2, QuietHost
<1>14. CASE e.type = "ptr_record"
  <2>1. h = G!PtrRecord(g, at, "name")
    BY <1>14 DEF Apply, at
  <2>2. /\ DOMAIN h = DOMAIN g
        /\ h.hosts = G!SetHost(g, at, G!Named([host EXCEPT !.detail = "name"], "name")).hosts
    BY <2>1 DEF G!PtrRecord, G!DnsRecord, G!SetHost, host
  <2> HIDE DEF h
  <2> QED
    BY <1>0, <1>1, <1>2, <2>2, QuietHost
<1>15. CASE e.type = "name_record"
  <2>1. h = G!DnsRecord(g, "name", Unnumbered)
    BY <1>15 DEF Apply, id
  <2>2. DOMAIN h = DOMAIN g /\ h.hosts = g.hosts
    BY <2>1 DEF G!DnsRecord
  <2> HIDE DEF h
  <2> QED
    BY <1>3, <2>2
<1>16. CASE e.type = "session_opened"
  <2>1. h = G!SessionOpened(g, id + 1)
    BY <1>16 DEF Apply, id
  <2>2. DOMAIN h = DOMAIN g /\ h.hosts = g.hosts
    BY <2>1 DEF G!SessionOpened
  <2> HIDE DEF h
  <2> QED
    BY <1>3, <2>2
<1>17. CASE e.type = "session_closed"
  <2>1. h = G!SessionClosed(g, id)
    BY <1>17 DEF Apply, id
  <2>2. DOMAIN h = DOMAIN g /\ h.hosts = g.hosts
    BY <2>1 DEF G!SessionClosed
  <2> HIDE DEF h
  <2> QED
    BY <1>3, <2>2
<1> QED
  BY <1>0, <1>5, <1>6, <1>7, <1>8, <1>9, <1>10, <1>11, <1>12, <1>13, <1>14, <1>15, <1>16,
     <1>17 DEF Types, Opening

\* One after the other.
LEMMA HeedsFollow ==
  ASSUME NEW g, NEW h, NEW k, NEW addr, NEW w \in 0..2, Heeds(g, h, addr, w),
         Heeds(h, k, addr, w)
  PROVE  Heeds(g, k, addr, w)
BY DEF Heeds, HostHeeds

LEMMA HeedsGrow ==
  ASSUME NEW g, NEW h, NEW addr, NEW v \in 0..2, NEW w \in 0..2, v <= w, Heeds(g, h, addr, v)
  PROVE  Heeds(g, h, addr, w)
BY HostHeedsGrow DEF Heeds

\* All events of a transcript.
LEMMA AppliedHeeds ==
  ASSUME NEW g, GraphOk(g), NEW addr \in Addresses, NEW w \in 0..2,
         NEW events \in Seq(Upto(w))
  PROVE  Heeds(g, Applied(g, addr, events), addr, w)
<1> DEFINE N == Len(events)
<1>1. N \in Nat
  OBVIOUS
<1>2. PICK f : /\ Applied(g, addr, events) = f[N]
               /\ f[0] = g
               /\ \A i \in 1..N : f[i] = Apply(f[i - 1], addr, events[i])
  BY <1>1, AppliedBetween
<1> DEFINE T == {n \in 0..N : ~ Heeds(g, f[n], addr, w)}
<1>3. Heeds(g, f[0], addr, w)
  <2>1. \A a : HostHeeds(G!HostOf(g, a), G!HostOf(g, a), w)
    BY SameHost, HostOfOk
  <2> QED
    BY <1>2, <2>1 DEF Heeds
<1>4. ASSUME NEW i \in 1..N, Heeds(g, f[i - 1], addr, w) PROVE Heeds(g, f[i], addr, w)
  <2>1. events[i] \in Events /\ Weight(events[i]) <= w /\ Weight(events[i]) \in 0..2
    BY DEF Upto, Weight
  <2>2. GraphOk(f[i - 1])
    BY <1>4 DEF Heeds
  <2>3. Heeds(f[i - 1], f[i], addr, Weight(events[i]))
    BY <1>2, <2>1, <2>2, ApplyHeeds
  <2>4. Heeds(f[i - 1], f[i], addr, w)
    BY <2>1, <2>3, HeedsGrow
  <2> QED
    BY <1>4, <2>4, HeedsFollow
<1>5. ASSUME T # {} PROVE FALSE
  <2>1. T \in SUBSET Nat
    OBVIOUS
  <2>2. PICK n \in T : \A m \in T : n <= m
    BY <1>5, <2>1, Least
  <2>3. n # 0
    BY <1>3
  <2>4. n \in 1..N /\ n - 1 \in 0..N /\ n - 1 \notin T
    BY <1>1, <2>2, <2>3
  <2> QED
    BY <1>4, <2>2, <2>4
<1> QED
  BY <1>1, <1>2, <1>5

-----------------------------------------------------------------------------
(* The module. *)

LEMMA ModeSays ==
  /\ Mode.page = TakenForPage
  /\ Mode.free = TakenForOpen
  /\ Mode.site = (kind = "active" /\ port \in Pages \cup Secure)
BY DEF Mode, ModeFor, TakenForPage, TakenForOpen, Pages, Secure

LEMMA LevelSays ==
  ASSUME NEW h \in 0..2
  PROVE  /\ 1 <= Level(Mode, h) => h # Nothing \/ TakenForOpen
         /\ Level(Mode, h) = 2 /\ h # Replied => h = Connected /\ TakenForPage
<1>1. ~TakenForPage => Mode.page = FALSE
  BY ModeSays
<1>2. ~TakenForOpen => Mode.free = FALSE
  BY ModeSays
<1>3. ASSUME h = 0, ~TakenForOpen PROVE ~ 1 <= Level(Mode, h)
  BY <1>2, <1>3 DEF Level, Nothing, Connected
<1>4. ASSUME h = 1, ~TakenForPage PROVE Level(Mode, h) # 2
  BY <1>1, <1>4 DEF Level, Nothing, Connected
<1>5. h = 0 => Level(Mode, h) # 2
  BY DEF Level, Nothing, Connected
<1>6. h = 0 \/ h = 1 \/ h = 2
  OBVIOUS
<1>7. 1 <= Level(Mode, h) => h # Nothing \/ TakenForOpen
  BY <1>3, Zenon DEF Nothing
<1>8. Level(Mode, h) = 2 /\ h # Replied => h = Connected
  BY <1>5, <1>6 DEF Connected, Replied
<1>9. Level(Mode, h) = 2 /\ h # Replied => TakenForPage
  <2>1. SUFFICES ASSUME Level(Mode, h) = 2, h # Replied, ~TakenForPage PROVE FALSE
    BY Zenon
  <2>2. h = 1
    BY <1>8, <2>1 DEF Connected
  <2> QED
    BY <1>4, <2>1, <2>2
<1> QED
  BY <1>7, <1>8, <1>9, Zenon

\* What every exchange keeps, with the address asked of the transcript.
LEMMA PlayKeeps ==
  ASSUME IInv, NEW addr \in Addresses, NEW n \in Nat, NEW t \in Sound(Mode, n),
         Play(addr, Outcome(addr, t)), UNCHANGED <<kind, item, scanned>>
  PROVE  /\ GraphOk(graph)'
         /\ \A a \in Addresses : G!HostOf(graph', a).ttl = G!HostOf(graph, a).ttl
         /\ contact' \in [Addresses -> {Nothing, Connected, Replied}]
         /\ \A a \in Addresses : Answered(a) => Answered(a)'
         /\ Level(Mode, t.heard) = 2 => Answered(addr)'
         /\ OpenOnlyIfReached' /\ ClaimsAreHeard'
<1> DEFINE o == Outcome(addr, t)
           w == Level(Mode, t.heard)
<1>0. /\ Mode \in Modes /\ t.heard \in 0..2 /\ w \in 0..2 /\ t.events \in Seq(Upto(w))
  <2>1. Mode \in Modes
    BY ModeType DEF Mode
  <2> QED
    BY <2>1, OfSound, LevelType
<1>1. /\ graph' = Applied(graph, addr, t.events)
      /\ contact' = [contact EXCEPT ![addr] = IF @ < t.heard THEN t.heard ELSE @]
  BY DEF Play, Outcome
<1>2. /\ GraphOk(graph) /\ contact \in [Addresses -> {Nothing, Connected, Replied}]
      /\ OpenOnlyIfReached /\ ClaimsAreHeard
  BY DEF IInv, Typed, TypeOK
<1>3. port' = port
  BY DEF port
<1> HIDE DEF w
<1>4. Heeds(graph, graph', addr, w)
  BY <1>0, <1>1, <1>2, AppliedHeeds
<1>5. contact' \in [Addresses -> {Nothing, Connected, Replied}]
  BY <1>0, <1>1, <1>2 DEF Nothing, Connected, Replied
<1>6. \A a \in Addresses :
       contact[a] <= contact'[a] /\ contact[a] \in 0..2 /\ contact'[a] \in 0..2
  BY <1>0, <1>1, <1>2, <1>5 DEF Nothing, Connected, Replied
<1>7. t.heard <= contact'[addr]
  BY <1>0, <1>1, <1>2 DEF Nothing, Connected, Replied
<1>8. (TakenForPage' <=> TakenForPage) /\ (TakenForOpen' <=> TakenForOpen)
  BY <1>3 DEF TakenForPage, TakenForOpen
<1>9. \A a \in Addresses : Answered(a) => Answered(a)'
  BY <1>6, <1>8 DEF Answered, Connected, Replied
<1>10. w = 2 => Answered(addr)'
  <2>1. w = 2 /\ t.heard # Replied => t.heard = Connected /\ TakenForPage
    BY <1>0, LevelSays DEF w
  <2> QED
    BY <1>6, <1>7, <1>8, <2>1 DEF Answered, Connected, Replied
<1>11. \A a \in Addresses : /\ G!HostOf(graph', a).ttl = G!HostOf(graph, a).ttl
                            /\ PortOf(a) = PortOn(G!HostOf(graph, a))
                            /\ PortOf(a)' = PortOn(G!HostOf(graph', a))
  BY <1>3, <1>4 DEF Heeds, HostHeeds, PortOf, PortOn
<1>12. OpenOnlyIfReached'
  <2> SUFFICES ASSUME NEW a \in Addresses, PortOf(a)'.state = "open"
               PROVE  a \in scanned' \/ contact'[a] # Nothing \/ TakenForOpen'
    BY DEF OpenOnlyIfReached
  <2>1. CASE PortOf(a).state = "open"
    <3>1. a \in scanned \/ contact[a] # Nothing \/ TakenForOpen
      BY <1>2, <2>1 DEF OpenOnlyIfReached
    <3> QED
      BY <1>6, <1>8, <3>1 DEF Nothing
  <2>2. CASE PortOf(a).state # "open"
    <3>1. a = addr /\ 1 <= w
      BY <1>4, <1>11, <2>2 DEF Heeds, HostHeeds
    <3>2. t.heard # Nothing \/ TakenForOpen
      BY <1>0, <3>1, LevelSays DEF w
    <3> QED
      BY <1>0, <1>6, <1>7, <1>8, <3>1, <3>2 DEF Nothing
  <2> QED
    BY <2>1, <2>2
<1>13. ClaimsAreHeard'
  <2> SUFFICES ASSUME NEW a \in Addresses,
                      PortOf(a)'.service > 30 \/ G!HostOf(graph', a).findings # {}
               PROVE  Answered(a)'
    BY DEF ClaimsAreHeard
  <2>0. Claimed(G!HostOf(graph', a))
    BY <1>11 DEF Claimed
  <2>1. CASE Claimed(G!HostOf(graph, a))
    <3>1. Answered(a)
      BY <1>2, <1>11, <2>1 DEF ClaimsAreHeard, Claimed
    <3> QED
      BY <1>9, <3>1
  <2>2. CASE ~ Claimed(G!HostOf(graph, a))
    <3>1. a = addr /\ w = 2
      BY <1>4, <2>0, <2>2 DEF Heeds, HostHeeds
    <3> QED
      BY <1>10, <3>1
  <2> QED
    BY <2>1, <2>2
<1> QED
  BY <1>4, <1>5, <1>9, <1>10, <1>11, <1>12, <1>13 DEF Heeds, w

\* And how many connections were tried.
LEMMA PlayCosts ==
  ASSUME NEW addr, NEW n \in Nat, NEW t \in Sound(Mode, n), late \in Nat, Mode \in Modes,
         cancelled \in BOOLEAN, Play(addr, Outcome(addr, t))
  PROVE  /\ cancelled' \in BOOLEAN /\ late' \in Nat
         /\ (cancelled => cancelled')
         /\ (~cancelled => late = 0) =>
              late' <= late + n /\ (~cancelled' => late' = 0)
<1>1. t.dials \in 0..n
  BY OfSound
<1>2. Outcome(addr, t).dials = t.dials
  BY DEF Outcome
<1>3. CASE cancelled = TRUE
  BY <1>1, <1>2, <1>3 DEF Play
<1>4. CASE cancelled = FALSE
  <2>1. \/ cancelled' = FALSE /\ late' = late
        \/ cancelled' = TRUE /\ late' = t.dials
    BY <1>2, <1>4 DEF Play
  <2>2. CASE cancelled' = FALSE /\ late' = late
    <3>1. late <= late + n
      OBVIOUS
    <3> QED
      BY <1>4, <2>2, <3>1, Zenon
  <2>3. CASE cancelled' = TRUE /\ late' = t.dials
    <3>1. late' \in Nat /\ late' <= late + n
      BY <1>1, <2>3
    <3> QED
      BY <1>4, <2>3, <3>1, Zenon
  <2> QED
    BY <2>1, <2>2, <2>3, Zenon
<1> QED
  BY <1>3, <1>4

LEMMA TypedVisit ==
  ASSUME Typed, NEW addr
  PROVE  /\ Mode \in Modes
         /\ VisitTo(addr) \in Seq(Steps(Mode, Linger))
         /\ Fits(VisitTo(addr), Mode)
         /\ kind = "active" => Settles(VisitTo(addr), Mode)
BY VisitFits DEF Typed, TypeOK, Fits

LEMMA InitInv == Init => IInv
<1> SUFFICES ASSUME Init PROVE IInv
  OBVIOUS
<1>0. /\ Hosts \in Nat \ {0} /\ MaxPaths \in Nat
      /\ kind \in Kinds /\ item \in Items /\ todo = <<>> /\ step = 0 /\ site = 0
      /\ paths = 0 /\ gap = FALSE /\ cancelled = FALSE
      /\ contact = [a \in Addresses |-> Nothing] /\ late = 0 /\ visited = {}
      /\ groups = HostsToVisit(scanned)
  BY ObservationAssumption DEF Init
<1>1. PICK n \in 0..Hosts : scanned = 1..n
  BY DEF Init
<1>2. PICK ttl \in {0, 64} : graph = Scanned(scanned, ttl)
  BY DEF Init
<1>3. scanned # {} => kind \in {"service", "fingerprint", "active"}
  BY DEF Init, ScanMatters, TtlMatters
<1>4. scanned \subseteq Addresses /\ 1 \in Addresses
  BY <1>0, <1>1 DEF Addresses
<1> DEFINE host == G!OsGuess(G!PortResult(G!NewHost, item, "tcp", "open"), Guess, ttl)
<1>5. HostOk(host) /\ host.findings = {} /\
      \A q \in DOMAIN host.ports : host.ports[q].service = 0
  BY DEF HostOk, PortOk, G!OsGuess, G!PortResult, G!NewHost, G!Insert, G!EmptyMap, G!Larger,
         G!NewPort
<1>6. "hosts" \in DOMAIN graph /\ graph.hosts = [a \in scanned |-> host]
  BY <1>2 DEF Scanned, G!EmptyGraph
<1> HIDE DEF host
<1>7. GraphOk(graph)
  BY <1>4, <1>5, <1>6 DEF GraphOk
<1>8. \A a : G!HostOf(graph, a) = IF a \in scanned THEN host ELSE G!NewHost
  BY <1>6 DEF G!HostOf, G!Entry
<1>9. OpenOnlyIfReached /\ ClaimsAreHeard
  <2>1. \A a : a \notin scanned => PortOf(a) = G!NewPort("tcp", "unknown")
    BY <1>8 DEF PortOf, G!NewHost, G!EmptyMap, G!Entry
  <2>2. \A a : PortOf(a).service = 0
    BY <1>5, <1>8, <2>1 DEF PortOf, G!NewPort, G!Entry
  <2>3. \A a : a \notin scanned => PortOf(a).state # "open"
    BY <2>1 DEF G!NewPort
  <2>4. \A a : G!HostOf(graph, a).findings = {}
    BY <1>5, <1>8 DEF G!NewHost
  <2>5. ~ 0 > 30
    OBVIOUS
  <2> QED
    BY <2>2, <2>3, <2>4, <2>5 DEF OpenOnlyIfReached, ClaimsAreHeard
<1>10. /\ groups \in Seq(Seq(Addresses))
       /\ UNION {{groups[i][j] : j \in 1..Len(groups[i])} : i \in 1..Len(groups)} = Planned
       /\ ~Together => \A i \in 1..Len(groups) : Len(groups[i]) = 1
  <2>0. ASSUME NEW k \in Nat, k <= Hosts, groups = Singles(1..k), Planned = 1..k
        PROVE  <1>10!:
    <3>1. groups = [a \in 1..k |-> <<a>>] /\ 1..k \subseteq Addresses
      BY <1>0, <2>0 DEF Singles, Addresses
    <3>2. groups \in Seq(Seq(Addresses)) /\ Len(groups) = k
      BY <3>1
    <3>3. \A i \in 1..k : Len(groups[i]) = 1 /\ groups[i][1] = i
      BY <3>1
    <3> QED
      BY <2>0, <3>2, <3>3
  <2>1. CASE kind = "active" /\ scanned = {}
    <3>1. groups = <<[i \in 1..Hosts |-> i]>> /\ Planned = Addresses /\ Together
      BY <1>0, <2>1 DEF HostsToVisit, Planned, Together
    <3>2. [i \in 1..Hosts |-> i] \in Seq(Addresses) /\ Len([i \in 1..Hosts |-> i]) = Hosts
      BY <1>0 DEF Addresses
    <3> DEFINE row == [i \in 1..Hosts |-> i]
    <3>3. {row[j] : j \in 1..Len(row)} = Addresses
      BY <3>2 DEF Addresses
    <3> HIDE DEF row
    <3>4. /\ groups = <<row>> /\ row \in Seq(Addresses)
          /\ Len(groups) = 1 /\ groups[1] = row
      BY <3>1, <3>2 DEF row
    <3>5. groups \in Seq(Seq(Addresses))
      BY <3>4
    <3>6. UNION {{groups[i][j] : j \in 1..Len(groups[i])} : i \in 1..Len(groups)} =
            {row[j] : j \in 1..Len(row)}
      BY <3>4
    <3> QED
      BY <3>1, <3>3, <3>5, <3>6
  <2>2. CASE kind \in {"active", "service"} /\ scanned # {}
    <3>1. groups = Singles(scanned) /\ Planned = scanned
      BY <1>0, <2>2 DEF HostsToVisit, Planned
    <3> QED
      BY <1>0, <1>1, <2>0, <3>1
  <2>3. CASE kind = "talk"
    <3>1. groups = << <<1>> >> /\ Planned = {1}
      BY <1>0, <2>3 DEF HostsToVisit, Planned
    <3> QED
      BY <1>4, <3>1
  <2>4. CASE kind \notin {"active", "talk"} /\ ~(kind = "service" /\ scanned # {})
    <3>1. groups = Singles(Addresses) /\ Planned = Addresses
      BY <1>0, <2>4 DEF HostsToVisit, Planned
    <3>2. groups = Singles(1..Hosts) /\ Planned = 1..Hosts
      BY <3>1 DEF Addresses
    <3>3. Hosts \in Nat /\ Hosts <= Hosts
      BY <1>0
    <3> QED
      BY <2>0, <3>2, <3>3
  <2> QED
    BY <2>1, <2>2, <2>3, <2>4
<1>11. Ahead = Planned
  BY <1>0, <1>10 DEF Ahead
<1>12. Typed
  <2>1. contact \in [Addresses -> {Nothing, Connected, Replied}]
    BY <1>0
  <2>2. DOMAIN graph.hosts \subseteq Addresses \cup {Elsewhere}
    BY <1>7 DEF GraphOk
  <2>3. groups \in Seq(Seq(Addresses)) /\ <<>> \in Seq(Addresses)
    BY <1>10
  <2>4. /\ step \in Nat /\ (step # 0 => todo # <<>>) /\ site \in Addresses \cup {0}
        /\ paths \in 0..MaxPaths /\ late \in Nat /\ visited \subseteq Addresses
    BY <1>0
  <2>5. gap \in BOOLEAN /\ (gap => site # 0) /\ cancelled \in BOOLEAN
    BY <1>0
  <2>6. todo \in Seq(Addresses) /\ kind \in Kinds /\ item \in Items
    BY <1>0, <2>3
  <2>7. TypeOK
    BY <2>1, <2>2, <2>3, <2>4, <2>5, <2>6, Zenon DEF TypeOK
  <2> QED
    BY <1>3, <1>4, <1>7, <2>7 DEF Typed
<1>13. Course
  BY <1>0, <1>10, <1>11 DEF Course
<1>14. Place /\ Budget
  BY <1>0, LingerType DEF Place, Budget
<1> QED
  BY <1>9, <1>12, <1>13, <1>14 DEF IInv

\* Steps at which nothing is heard.
LEMMA SameGraph ==
  ASSUME IInv, UNCHANGED <<kind, item, graph, scanned, contact>>
  PROVE  /\ Mode' = Mode /\ GraphOk(graph)' /\ OpenOnlyIfReached' /\ ClaimsAreHeard'
         /\ Planned' = Planned /\ Together' = Together
         /\ \A a : Answered(a)' = Answered(a)
         /\ \A a : VisitTo(a)' = VisitTo(a)
<1>1. port' = port
  BY DEF port
<1>2. Mode' = Mode /\ TakenForOpen' = TakenForOpen /\ TakenForPage' = TakenForPage
  BY <1>1 DEF Mode, TakenForOpen, TakenForPage
<1>3. GraphOk(graph)'
  BY DEF IInv, Typed
<1>4. \A a : Answered(a)' = Answered(a)
  BY <1>2 DEF Answered
<1>5. \A a : PortOf(a)' = PortOf(a)
  BY <1>1 DEF PortOf
<1>6. OpenOnlyIfReached'
  BY <1>2, <1>5, Zenon DEF IInv, OpenOnlyIfReached
<1>7. ClaimsAreHeard'
  BY <1>4, <1>5, Zenon DEF IInv, ClaimsAreHeard
<1>8. Planned' = Planned /\ Together' = Together
  BY DEF Planned, Together
<1>9. \A a : VisitTo(a)' = VisitTo(a)
  BY DEF VisitTo
<1> QED
  BY <1>2, <1>3, <1>4, <1>6, <1>7, <1>8, <1>9

\* Steps that leave nobody out.
LEMMA CourseKept ==
  ASSUME IInv, Planned' = Planned, Together' = Together,
         visited' \cup Ahead' = visited \cup Ahead, visited \subseteq visited',
         cancelled => cancelled', \A a \in visited : Answered(a) => Answered(a)',
         ~Together => Len(todo') <= 1 /\ \A i \in 1..Len(groups') : Len(groups'[i]) = 1
  PROVE  Course'
<1>1. visited' \cup Ahead' \subseteq Planned'
  BY DEF IInv, Course
<1>2. \/ cancelled'
      \/ Planned' \subseteq visited' \cup Ahead'
      \/ Together' /\ \E a \in visited' : Answered(a)'
  <2>1. CASE cancelled
    BY <2>1
  <2>2. CASE Planned \subseteq visited \cup Ahead
    BY <2>2
  <2>3. CASE Together /\ \E a \in visited : Answered(a)
    <3>1. PICK a \in visited : Answered(a)
      BY <2>3
    <3>2. a \in visited' /\ Answered(a)'
      BY <3>1
    <3>3. Together'
      BY <2>3
    <3> QED
      BY <3>2, <3>3, Zenon
  <2> QED
    BY <2>1, <2>2, <2>3 DEF IInv, Course
<1>3. ~Together' => /\ Len(todo') <= 1
                    /\ \A i \in 1..Len(groups') : Len(groups'[i]) = 1
  BY Zenon
<1> QED
  BY <1>1, <1>2, <1>3, Zenon DEF Course

\* The types that every step has to keep.
LEMMA TypedKept ==
  ASSUME IInv, GraphOk(graph)', UNCHANGED <<kind, item, scanned>>,
         todo' \in Seq(Addresses), step' \in Nat, step' # 0 => todo' # <<>>,
         groups' \in Seq(Seq(Addresses)), site' \in Addresses \cup {0},
         paths' \in 0..MaxPaths, gap' \in BOOLEAN, gap' => site' # 0,
         cancelled' \in BOOLEAN, contact' \in [Addresses -> {Nothing, Connected, Replied}],
         late' \in Nat, visited' \subseteq Addresses
  PROVE  Typed'
<1>1. kind' \in Kinds /\ item' \in Items'
  BY DEF IInv, Typed, TypeOK, Items
<1>2. DOMAIN graph'.hosts \subseteq Addresses \cup {Elsewhere}
  BY DEF GraphOk
<1>3. TypeOK'
  BY <1>1, <1>2, Zenon DEF TypeOK
<1>4. scanned' \subseteq Addresses /\
      (scanned' # {} => kind' \in {"service", "fingerprint", "active"})
  BY DEF IInv, Typed
<1> QED
  BY <1>3, <1>4, Zenon DEF Typed

LEMMA TypesKnown ==
  IInv => /\ todo \in Seq(Addresses) /\ step \in Nat /\ (step # 0 => todo # <<>>)
          /\ groups \in Seq(Seq(Addresses)) /\ site \in Addresses \cup {0}
          /\ paths \in 0..MaxPaths /\ gap \in BOOLEAN /\ (gap => site # 0)
          /\ cancelled \in BOOLEAN /\ late \in Nat /\ visited \subseteq Addresses
          /\ contact \in [Addresses -> {Nothing, Connected, Replied}] /\ MaxPaths \in Nat
BY ObservationAssumption, Zenon DEF IInv, Typed, TypeOK

\* What is at the head of a sequence and what is in the rest of it.
LEMMA HeadAndTail ==
  ASSUME NEW S, NEW s \in Seq(S), s # <<>>
  PROVE  /\ Head(s) = s[1] /\ Head(s) \in S /\ Len(s) \in Nat \ {0} /\ 1 \in 1..Len(s)
         /\ Tail(s) \in Seq(S) /\ Len(Tail(s)) = Len(s) - 1
         /\ \A i \in 1..Len(Tail(s)) : i + 1 \in 1..Len(s) /\ Tail(s)[i] = s[i + 1]
         /\ \A i \in 1..Len(s) :
              i = 1 \/ \E k \in 1..Len(Tail(s)) : k + 1 = i /\ s[i] = Tail(s)[k]
<1>1. /\ Head(s) = s[1] /\ Head(s) \in S /\ Len(s) \in Nat \ {0} /\ 1 \in 1..Len(s)
      /\ Tail(s) \in Seq(S) /\ Len(Tail(s)) = Len(s) - 1
      /\ \A i \in 1..Len(Tail(s)) : i + 1 \in 1..Len(s) /\ Tail(s)[i] = s[i + 1]
  OBVIOUS
<1>2. ASSUME NEW i \in 1..Len(s), i # 1
      PROVE  \E k \in 1..Len(Tail(s)) : k + 1 = i /\ s[i] = Tail(s)[k]
  <2>1. i - 1 \in 1..Len(Tail(s)) /\ (i - 1) + 1 = i
    BY <1>1, <1>2
  <2>2. s[i] = Tail(s)[i - 1]
    BY <1>1, <2>1
  <2> QED
    BY <2>1, <2>2
<1> QED
  BY <1>1, <1>2

LEMMA Elements ==
  ASSUME NEW S, NEW s \in Seq(S), s # <<>>
  PROVE  {s[i] : i \in 1..Len(s)} = {Head(s)} \cup {Tail(s)[i] : i \in 1..Len(Tail(s))}
<1>1. ASSUME NEW i \in 1..Len(s)
      PROVE  s[i] = Head(s) \/ \E k \in 1..Len(Tail(s)) : s[i] = Tail(s)[k]
  BY HeadAndTail
<1>2. ASSUME NEW k \in 1..Len(Tail(s)) PROVE \E i \in 1..Len(s) : s[i] = Tail(s)[k]
  BY HeadAndTail
<1>3. \E i \in 1..Len(s) : s[i] = Head(s)
  BY HeadAndTail
<1> DEFINE here == {s[i] : i \in 1..Len(s)}
           rest == {Tail(s)[k] : k \in 1..Len(Tail(s))}
<1>4. \A x \in here : x = Head(s) \/ x \in rest
  BY <1>1
<1>5. \A x \in rest : x \in here
  BY <1>2
<1>6. Head(s) \in here
  BY <1>3
<1> HIDE DEF here, rest
<1>7. here = {Head(s)} \cup rest
  BY <1>4, <1>5, <1>6
<1> QED
  BY <1>7 DEF here, rest

LEMMA NextHostInv == IInv /\ NextHost => IInv'
<1> SUFFICES ASSUME IInv, NextHost PROVE IInv'
  OBVIOUS
<1>1. /\ site = 0 /\ todo = <<>> /\ groups # <<>> /\ todo' = Head(groups)
      /\ groups' = Tail(groups)
      /\ UNCHANGED <<kind, item, step, site, paths, gap, graph, cancelled, scanned,
                     contact, late, visited>>
  BY DEF NextHost
<1>2. step = 0 /\ step' = 0
  BY <1>1, TypesKnown
<1>3. /\ groups \in Seq(Seq(Addresses)) /\ todo' \in Seq(Addresses)
      /\ groups' \in Seq(Seq(Addresses))
  BY <1>1, TypesKnown
<1>4. /\ todo' = groups[1] /\ Len(groups) \in Nat \ {0} /\ 1 \in 1..Len(groups)
      /\ \A i \in 1..Len(groups') : i + 1 \in 1..Len(groups) /\ groups'[i] = groups[i + 1]
      /\ \A i \in 1..Len(groups) :
           i = 1 \/ \E k \in 1..Len(groups') : k + 1 = i /\ groups[i] = groups'[k]
  BY <1>1, <1>3, HeadAndTail
<1>5. Ahead' = Ahead
  <2>1. ASSUME NEW x \in Ahead PROVE x \in Ahead'
    <3>1. {todo[i] : i \in 1..Len(todo)} = {}
      BY <1>1
    <3>2. PICK i \in 1..Len(groups) : x \in {groups[i][j] : j \in 1..Len(groups[i])}
      BY <2>1, <3>1 DEF Ahead
    <3>3. CASE i = 1
      BY <1>4, <3>2, <3>3 DEF Ahead
    <3>4. ASSUME NEW k \in 1..Len(groups'), groups[i] = groups'[k] PROVE x \in Ahead'
      BY <3>2, <3>4 DEF Ahead
    <3> QED
      BY <1>4, <3>3, <3>4
  <2>2. ASSUME NEW x \in Ahead' PROVE x \in Ahead
    <3>1. CASE x \in {todo'[i] : i \in 1..Len(todo')}
      BY <1>4, <3>1 DEF Ahead
    <3>2. ASSUME NEW k \in 1..Len(groups'), x \in {groups'[k][j] : j \in 1..Len(groups'[k])}
          PROVE  x \in Ahead
      <4>1. k + 1 \in 1..Len(groups) /\ x \in {groups[k + 1][j] : j \in 1..Len(groups[k + 1])}
        BY <1>4, <3>2
      <4> QED
        BY <4>1 DEF Ahead
    <3> QED
      BY <2>2, <3>1, <3>2 DEF Ahead
  <2> QED
    BY <2>1, <2>2
<1>6. ~Together => Len(todo') <= 1 /\ \A i \in 1..Len(groups') : Len(groups'[i]) = 1
  <2>1. ASSUME ~Together
        PROVE  Len(todo') <= 1 /\ \A i \in 1..Len(groups') : Len(groups'[i]) = 1
    <3>1. \A i \in 1..Len(groups) : Len(groups[i]) = 1
      BY <2>1, Zenon DEF IInv, Course
    <3>2. Len(todo') <= 1
      <4>1. todo' = groups[1] /\ 1 \in 1..Len(groups)
        BY <1>4
      <4>2. Len(todo') = 1
        BY <3>1, <4>1
      <4> QED
        BY <4>2
    <3>3. \A i \in 1..Len(groups') : Len(groups'[i]) = 1
      BY <1>4, <3>1
    <3> QED
      BY <3>2, <3>3, Zenon
  <2> QED
    BY <2>1, Zenon
<1>7. Course'
  BY <1>1, <1>5, <1>6, SameGraph, CourseKept
<1>8. Typed'
  BY <1>1, <1>2, <1>3, SameGraph, TypesKnown, TypedKept
<1>9. Place' /\ Budget'
  <2>1. Mode' = Mode
    BY <1>1, SameGraph
  <2> QED
    BY <1>1, <1>2, <2>1, Zenon DEF IInv, Place, Budget
<1> QED
  BY <1>1, <1>7, <1>8, <1>9, SameGraph, Zenon DEF IInv

LEMMA VisitInv == IInv /\ Visit => IInv'
<1> SUFFICES ASSUME IInv, Visit PROVE IInv'
  OBVIOUS
<1> DEFINE v == VisitTo(Head(todo))
<1>1. /\ site = 0 /\ step = 0 /\ todo # <<>> /\ Looked
      /\ visited' = visited \cup {Head(todo)}
      /\ IF v = <<>> THEN todo' = Tail(todo) /\ UNCHANGED step
         ELSE step' = 1 /\ UNCHANGED todo
      /\ UNCHANGED <<kind, item, groups, site, paths, gap, graph, cancelled, scanned,
                     contact, late>>
  BY DEF Visit
<1>2. /\ todo \in Seq(Addresses) /\ Head(todo) \in Addresses /\ Head(todo) = todo[1]
      /\ Len(todo) \in Nat \ {0}
      /\ Tail(todo) \in Seq(Addresses) /\ Len(Tail(todo)) = Len(todo) - 1
  BY <1>1, TypesKnown, HeadAndTail
<1>3. /\ v \in Seq(Steps(Mode, Linger)) /\ Fits(v, Mode)
  BY TypedVisit DEF IInv
<1> HIDE DEF v
<1>4. /\ todo' \in Seq(Addresses) /\ step' \in Nat /\ (step' # 0 => todo' # <<>>)
      /\ Len(todo') <= Len(todo) /\ visited' \subseteq Addresses
  <2>1. visited' \subseteq Addresses
    BY <1>1, <1>2, TypesKnown
  <2>2. CASE v = <<>>
    <3>1. todo' = Tail(todo) /\ step' = 0
      BY <1>1, <2>2
    <3> QED
      BY <1>2, <2>1, <3>1
  <2>3. CASE v # <<>>
    <3>1. todo' = todo /\ step' = 1
      BY <1>1, <2>3
    <3> QED
      BY <1>1, <1>2, <2>1, <3>1
  <2> QED
    BY <2>2, <2>3
<1>5. {todo[i] : i \in 1..Len(todo)} =
        {Head(todo)} \cup {Tail(todo)[i] : i \in 1..Len(Tail(todo))}
  BY <1>1, <1>2, Elements
<1>6. visited' \cup Ahead' = visited \cup Ahead
  <2> DEFINE rest == UNION {{groups[i][j] : j \in 1..Len(groups[i])} : i \in 1..Len(groups)}
  <2>1. Ahead = {todo[i] : i \in 1..Len(todo)} \cup rest
    BY DEF Ahead
  <2>2. Ahead' = {todo'[i] : i \in 1..Len(todo')} \cup rest
    BY <1>1 DEF Ahead
  <2> HIDE DEF rest
  <2>3. todo' = todo \/ todo' = Tail(todo)
    BY <1>1
  <2> QED
    BY <1>1, <1>5, <2>1, <2>2, <2>3
<1>7. Course'
  <2>1. ~Together => Len(todo') <= 1 /\ \A i \in 1..Len(groups') : Len(groups'[i]) = 1
    <3>1. ASSUME ~Together
          PROVE  Len(todo') <= 1 /\ \A i \in 1..Len(groups') : Len(groups'[i]) = 1
      <4>1. Len(todo) <= 1 /\ \A i \in 1..Len(groups) : Len(groups[i]) = 1
        BY <3>1, Zenon DEF IInv, Course
      <4>2. Len(todo') \in Nat
        BY <1>4
      <4> QED
        BY <1>1, <1>2, <1>4, <4>1, <4>2
    <3> QED
      BY <3>1
  <2> QED
    BY <1>1, <1>6, <2>1, SameGraph, CourseKept
<1>8. Typed'
  BY <1>1, <1>4, SameGraph, TypesKnown, TypedKept
<1>9. Mode' = Mode /\ \A a : VisitTo(a)' = VisitTo(a)
  BY <1>1, SameGraph
<1>10. step' # 0 => todo' = todo /\ step' = 1 /\ v # <<>>
  BY <1>1
<1>13. step' # 0 => Current' = v
  BY <1>9, <1>10 DEF v, Current
<1>11. Place'
  <2>1. step' # 0 => site' = 0 /\ Head(todo') \in visited'
    BY <1>1, <1>10
  <2>2. step' # 0 => step' <= Len(Current')
    BY <1>3, <1>10, <1>13
  <2>3. site' # 0 => Mode'.site
    BY <1>1
  <2>4. gap' => paths' # 0
    BY <1>1, Zenon DEF IInv, Place
  <2> QED
    BY <2>1, <2>2, <2>3, <2>4, Zenon DEF Place
<1>12. Budget'
  <2>1. SUFFICES ASSUME kind # "talk" PROVE Budget'
    BY <1>1 DEF Budget
  <2>2. ~cancelled /\ late = 0
    BY <1>1, <2>1, Zenon DEF IInv, Budget, Looked
  <2>3. ASSUME step' # 0 PROVE Covers(v, Mode, 1, 0)
    <3>1. PICK b : /\ Budgets(v, b)
                   /\ \A k \in 1..Len(v) : v[k] \in Steps(Mode, b[k] - b[k + 1])
      BY <1>3 DEF Fits
    <3>2. b[1] \in 0..Linger
      BY <1>3, <3>1 DEF Budgets
    <3>3. 0 + b[1] <= Linger
      BY <3>2, LingerType
    <3> QED
      BY <3>1, <3>3 DEF Covers
  <2>4. late' = 0 /\ late' <= Linger
    BY <1>1, <2>2, LingerType
  <2>5. step' # 0 => Covers(Current', Mode', step', late')
    BY <1>9, <1>10, <1>13, <2>3, <2>4
  <2> QED
    BY <2>4, <2>5, Zenon DEF Budget
<1> QED
  BY <1>1, <1>7, <1>8, <1>11, <1>12, SameGraph, Zenon DEF IInv

\* Steps of the loop over the paths and the token's: no exchange is in progress
\* or the present one stays.
LEMMA PathGapInv == IInv /\ PathGap => IInv'
<1> SUFFICES ASSUME IInv, PathGap PROVE IInv'
  OBVIOUS
<1>1. /\ site # 0 /\ Looked /\ paths > 0 /\ gap' = TRUE
      /\ UNCHANGED <<kind, item, groups, todo, step, site, paths, graph, cancelled, scanned,
                     contact, late, visited>>
  BY DEF PathGap
<1>2. Typed'
  BY <1>1, SameGraph, TypesKnown, TypedKept
<1>3. Ahead' = Ahead
  BY <1>1 DEF Ahead
<1>4. ~Together => Len(todo') <= 1 /\ \A i \in 1..Len(groups') : Len(groups'[i]) = 1
  BY <1>1, Zenon DEF IInv, Course
<1>5. Course'
  BY <1>1, <1>3, <1>4, SameGraph, CourseKept
<1>6. Mode' = Mode /\ Current' = Current
  BY <1>1, SameGraph DEF Current
<1>7. Place'
  <2>1. paths' # 0
    BY <1>1, TypesKnown
  <2> QED
    BY <1>1, <1>6, <2>1, Zenon DEF IInv, Place
<1>8. Budget'
  <2>1. Mode.site
    BY <1>1, Zenon DEF IInv, Place
  <2>2. kind = "active"
    BY <2>1, ModeSays
  <2>3. ~cancelled
    BY <1>1, <2>2 DEF Looked
  <2>4. late = 0
    BY <2>2, <2>3, Zenon DEF IInv, Budget
  <2>5. late' = 0
    BY <1>1, <2>4
  <2> QED
    BY <1>1, <1>6, <2>5, Zenon DEF IInv, Budget
<1> QED
  BY <1>1, <1>2, <1>5, <1>7, <1>8, SameGraph, Zenon DEF IInv

LEMMA PathsDoneInv == IInv /\ PathsDone => IInv'
<1> SUFFICES ASSUME IInv, PathsDone PROVE IInv'
  OBVIOUS
<1>1. /\ site' = 0 /\ paths' = 0 /\ ~gap
      /\ UNCHANGED <<kind, item, groups, todo, step, gap, graph, cancelled, scanned, contact,
                     late, visited>>
  BY DEF PathsDone
<1>2. site' \in Addresses \cup {0} /\ paths' \in 0..MaxPaths /\ (gap' => site' # 0)
  BY <1>1, TypesKnown
<1>3. Typed'
  BY <1>1, <1>2, SameGraph, TypesKnown, TypedKept
<1>4. Ahead' = Ahead
  BY <1>1 DEF Ahead
<1>5. ~Together => Len(todo') <= 1 /\ \A i \in 1..Len(groups') : Len(groups'[i]) = 1
  BY <1>1, Zenon DEF IInv, Course
<1>6. Course'
  BY <1>1, <1>4, <1>5, SameGraph, CourseKept
<1>7. Mode' = Mode /\ Current' = Current
  BY <1>1, SameGraph DEF Current
<1>8. Place' /\ Budget'
  BY <1>1, <1>7, Zenon DEF IInv, Place, Budget
<1> QED
  BY <1>1, <1>3, <1>6, <1>8, SameGraph, Zenon DEF IInv

LEMMA StopInv == IInv /\ Stop => IInv'
<1> SUFFICES ASSUME IInv, Stop PROVE IInv'
  OBVIOUS
<1>1. /\ site = 0 /\ step = 0 /\ ~Looked /\ todo' = <<>> /\ groups' = <<>>
      /\ UNCHANGED <<kind, item, step, site, paths, gap, graph, cancelled, scanned, contact,
                     late, visited>>
  BY DEF Stop
<1>2. cancelled
  BY <1>1 DEF Looked
<1>3. todo' \in Seq(Addresses) /\ groups' \in Seq(Seq(Addresses)) /\ step' = 0
  BY <1>1
<1>4. Typed'
  BY <1>1, <1>3, SameGraph, TypesKnown, TypedKept
<1>5. Ahead' = {}
  BY <1>1 DEF Ahead
<1>6. Course'
  <2>1. visited' \cup Ahead' \subseteq Planned'
    BY <1>1, <1>5, SameGraph DEF IInv, Course
  <2>2. Len(todo') <= 1 /\ \A i \in 1..Len(groups') : Len(groups'[i]) = 1
    BY <1>1
  <2>3. cancelled'
    BY <1>1, <1>2
  <2> QED
    BY <2>1, <2>2, <2>3, Zenon DEF Course
<1>7. Mode' = Mode
  BY <1>1, SameGraph
<1>8. Place' /\ Budget'
  BY <1>1, <1>7, Zenon DEF IInv, Place, Budget
<1> QED
  BY <1>1, <1>4, <1>6, <1>8, SameGraph, Zenon DEF IInv

LEMMA CancelInv == IInv /\ Cancel => IInv'
<1> SUFFICES ASSUME IInv, Cancel PROVE IInv'
  OBVIOUS
<1>1. /\ ~cancelled /\ cancelled' = TRUE
      /\ UNCHANGED <<kind, item, groups, todo, step, site, paths, gap, graph, scanned, contact,
                     late, visited>>
  BY DEF Cancel
<1>2. Typed'
  BY <1>1, SameGraph, TypesKnown, TypedKept
<1>3. Ahead' = Ahead
  BY <1>1 DEF Ahead
<1>4. ~Together => Len(todo') <= 1 /\ \A i \in 1..Len(groups') : Len(groups'[i]) = 1
  BY <1>1, Zenon DEF IInv, Course
<1>5. Course'
  BY <1>1, <1>3, <1>4, SameGraph, CourseKept
<1>6. Mode' = Mode /\ Current' = Current
  BY <1>1, SameGraph DEF Current
<1>7. Place' /\ Budget'
  BY <1>1, <1>6, Zenon DEF IInv, Place, Budget
<1> QED
  BY <1>1, <1>2, <1>5, <1>7, SameGraph, Zenon DEF IInv

LEMMA StutterInv == IInv /\ UNCHANGED vars => IInv'
<1> SUFFICES ASSUME IInv, UNCHANGED vars PROVE IInv'
  OBVIOUS
<1>1. UNCHANGED <<kind, item, groups, todo, step, site, paths, gap, graph, cancelled, scanned,
                  contact, late, visited>>
  BY DEF vars
<1>2. Typed'
  BY <1>1, SameGraph, TypesKnown, TypedKept
<1>3. Ahead' = Ahead
  BY <1>1 DEF Ahead
<1>4. ~Together => Len(todo') <= 1 /\ \A i \in 1..Len(groups') : Len(groups'[i]) = 1
  BY <1>1, Zenon DEF IInv, Course
<1>5. Course'
  BY <1>1, <1>3, <1>4, SameGraph, CourseKept
<1>6. Mode' = Mode /\ Current' = Current
  BY <1>1, SameGraph DEF Current
<1>7. Place' /\ Budget'
  BY <1>1, <1>6, Zenon DEF IInv, Place, Budget
<1> QED
  BY <1>1, <1>2, <1>5, <1>7, SameGraph, Zenon DEF IInv

\* What an exchange does not change.
LEMMA SameModule ==
  ASSUME UNCHANGED <<kind, item, scanned>>,
         \A a \in Addresses : G!HostOf(graph', a).ttl = G!HostOf(graph, a).ttl
  PROVE  /\ Mode' = Mode /\ Planned' = Planned /\ Together' = Together
         /\ \A a \in Addresses : VisitTo(a)' = VisitTo(a)
<1>1. port' = port
  BY DEF port
<1>2. Mode' = Mode
  BY <1>1 DEF Mode
<1>3. Planned' = Planned /\ Together' = Together
  BY DEF Planned, Together
<1>4. \A a \in Addresses : VisitTo(a)' = VisitTo(a)
  BY DEF VisitTo
<1> QED
  BY <1>2, <1>3, <1>4

LEMMA PathProbeInv == IInv /\ PathProbe => IInv'
<1> SUFFICES ASSUME IInv, PathProbe PROVE IInv'
  OBVIOUS
<1> DEFINE https == item \in {443, 8443}
<1>1. /\ gap /\ gap' = FALSE
      /\ UNCHANGED <<kind, item, groups, todo, step, site, scanned, visited>>
  BY DEF PathProbe
<1>2. PICK t \in path_probe[https] :
        /\ Play(site, Outcome(site, t))
        /\ paths' = IF Outcome(site, t).result \in {"some", "blank"} THEN paths - 1 ELSE 0
  BY DEF PathProbe, Outcomes
<1>16. https \in BOOLEAN /\ (item \in Secure => https)
  BY DEF Secure
<1> HIDE DEF https
<1>3. site # 0 /\ site \in Addresses /\ step = 0 /\ Mode.site
  <2>1. site # 0 /\ site \in Addresses
    BY <1>1, TypesKnown
  <2>2. step # 0 => site = 0
    BY Zenon DEF IInv, Place
  <2>3. Mode.site
    BY <2>1, Zenon DEF IInv, Place
  <2> QED
    BY <2>1, <2>2, <2>3
<1>4. kind = "active" /\ port \in Pages \cup Secure /\ port = item
  <2>1. kind = "active" /\ port \in Pages \cup Secure
    BY <1>3, ModeSays, Zenon
  <2> QED
    BY <2>1 DEF port
<1>5. Mode \in Modes
  BY ModeType DEF Mode
<1>6. t \in Sound(Mode, 1)
  <2>2. https \/ Mode.page
    <3>1. CASE item \in Secure
      BY <1>16, <3>1
    <3>2. CASE port \in Pages
      <4>1. TakenForPage
        BY <1>4, <3>2 DEF TakenForPage, Pages
      <4> QED
        BY <4>1, ModeSays, Zenon
    <3> QED
      BY <1>4, <3>1, <3>2
  <2>3. path_probe[https] \subseteq Sound(Mode, 1)
    BY <1>5, <1>16, <2>2, PathIsSound
  <2> QED
    BY <1>2, <2>3
<1>7. late = 0 /\ late \in Nat /\ cancelled \in BOOLEAN
  <2>1. late = 0
    BY <1>1, <1>4, Zenon DEF IInv, Budget
  <2> QED
    BY <2>1, TypesKnown
<1>8. /\ cancelled' \in BOOLEAN /\ late' \in Nat /\ (cancelled => cancelled')
      /\ late' <= 1 /\ (~cancelled' => late' = 0)
  <2>1. 1 \in Nat
    OBVIOUS
  <2> QED
    BY <1>2, <1>5, <1>6, <1>7, <2>1, PlayCosts
<1>9. /\ GraphOk(graph)'
      /\ \A a \in Addresses : G!HostOf(graph', a).ttl = G!HostOf(graph, a).ttl
      /\ contact' \in [Addresses -> {Nothing, Connected, Replied}]
      /\ \A a \in Addresses : Answered(a) => Answered(a)'
      /\ OpenOnlyIfReached' /\ ClaimsAreHeard'
  <2>1. 1 \in Nat
    OBVIOUS
  <2> QED
    BY <1>1, <1>2, <1>3, <1>6, <2>1, PlayKeeps
<1>10. Mode' = Mode /\ Planned' = Planned /\ Together' = Together
  BY <1>1, <1>9, SameModule
<1>11. paths' \in 0..MaxPaths
  <2>1. paths # 0
    BY <1>1, Zenon DEF IInv, Place
  <2> QED
    BY <1>2, <2>1, TypesKnown
<1>12. Typed'
  BY <1>1, <1>8, <1>9, <1>11, TypesKnown, TypedKept
<1>13. Course'
  <2>1. Ahead' = Ahead
    BY <1>1 DEF Ahead
  <2>2. ~Together => Len(todo') <= 1 /\ \A i \in 1..Len(groups') : Len(groups'[i]) = 1
    BY <1>1, Zenon DEF IInv, Course
  <2>3. \A a \in visited : Answered(a) => Answered(a)'
    BY <1>9, TypesKnown
  <2> QED
    BY <1>1, <1>8, <1>10, <2>1, <2>2, <2>3, CourseKept
<1>14. Place'
  BY <1>1, <1>3, <1>10, Zenon DEF Place
<1>15. Budget'
  <2>1. late' <= Linger
    BY <1>8, LingerType
  <2>2. step' = 0 /\ gap' = FALSE
    BY <1>1, <1>3
  <2> QED
    BY <1>8, <2>1, <2>2, Zenon DEF Budget
<1> QED
  BY <1>9, <1>12, <1>13, <1>14, <1>15, Zenon DEF IInv

LEMMA ExchangeInv == IInv /\ Exchange => IInv'
<1> SUFFICES ASSUME IInv, Exchange PROVE IInv'
  OBVIOUS
<1>1. step # 0 /\ UNCHANGED <<kind, item, groups, gap, scanned, visited>>
  BY DEF Exchange
<1>2. /\ todo \in Seq(Addresses) /\ todo # <<>> /\ Head(todo) \in Addresses
      /\ Len(todo) \in Nat \ {0}
      /\ Tail(todo) \in Seq(Addresses) /\ Len(Tail(todo)) = Len(todo) - 1
  BY <1>1, TypesKnown, HeadAndTail
<1>0. PICK addr \in Addresses : addr = Head(todo)
  BY <1>2
<1> DEFINE v == VisitTo(addr)
<1>3. site = 0 /\ addr \in visited /\ step \in 1..Len(v) /\ gap = FALSE
  <2>1. site = 0 /\ addr \in visited /\ step <= Len(v)
    BY <1>0, <1>1, Zenon DEF IInv, Place, Current
  <2>2. step \in Nat /\ Len(v) \in Nat
    BY TypesKnown, TypedVisit DEF IInv
  <2>3. gap = FALSE
    BY <2>1, TypesKnown
  <2> QED
    BY <1>1, <2>1, <2>2, <2>3
<1>4. PICK t \in v[step].exchange :
        /\ Play(addr, Outcome(addr, t))
        /\ step' = NextStep(v, Outcome(addr, t))
        /\ todo' = IF Answers(Outcome(addr, t), v[step].goes_on) /\ kind = "active" THEN <<>>
                   ELSE IF step' = 0 THEN Tail(todo) ELSE todo
        /\ IF Outcome(addr, t).result = "paths" /\ MaxPaths > 0
           THEN site' = addr /\ paths' = MaxPaths
           ELSE UNCHANGED <<site, paths>>
  BY <1>0 DEF Exchange, Outcomes
<1> DEFINE ends == Answers(Outcome(addr, t), v[step].goes_on)
<1>5. Mode \in Modes /\ v \in Seq(Steps(Mode, Linger)) /\ (kind = "active" => Settles(v, Mode))
  BY TypedVisit DEF IInv
<1> HIDE DEF v
<1>6. v[step] \in Steps(Mode, Linger) /\ t \in Sound(Mode, Linger)
  <2>1. v[step] \in Steps(Mode, Linger)
    BY <1>3, <1>5
  <2> QED
    BY <1>4, <2>1 DEF Steps
<1>7. /\ t.result = "paths" => Mode.site /\ ends
      /\ t.result \in {"some", "blank", "paths"} /\ ~v[step].goes_on <=> ends
  <2>1. Outcome(addr, t).result = t.result
    BY DEF Outcome
  <2>2. t.result = "paths" => Mode.site /\ ~v[step].goes_on
    BY <1>4, <1>5, <1>6, LingerType, OfSound DEF Steps
  <2> QED
    BY <2>1, <2>2 DEF Answers
<1>8. step' = IF ends \/ step = Len(v) THEN 0 ELSE step + 1
  BY <1>4 DEF NextStep
<1>9. /\ GraphOk(graph)'
      /\ \A a \in Addresses : G!HostOf(graph', a).ttl = G!HostOf(graph, a).ttl
      /\ contact' \in [Addresses -> {Nothing, Connected, Replied}]
      /\ \A a \in Addresses : Answered(a) => Answered(a)'
      /\ Level(Mode, t.heard) = 2 => Answered(addr)'
      /\ OpenOnlyIfReached' /\ ClaimsAreHeard'
  <2>1. Linger \in Nat
    BY LingerType
  <2> QED
    BY <1>1, <1>2, <1>4, <1>6, <2>1, PlayKeeps
<1>10. Mode' = Mode /\ Planned' = Planned /\ Together' = Together /\
       VisitTo(addr)' = VisitTo(addr)
  BY <1>1, <1>2, <1>9, SameModule
<1>11. /\ cancelled' \in BOOLEAN /\ late' \in Nat /\ (cancelled => cancelled')
  <2>1. Linger \in Nat /\ late \in Nat /\ cancelled \in BOOLEAN
    BY LingerType, TypesKnown
  <2> QED
    BY <1>4, <1>5, <1>6, <2>1, PlayCosts
<1>12. todo' = IF ends /\ kind = "active" THEN <<>> ELSE IF step' = 0 THEN Tail(todo) ELSE todo
  BY <1>4
<1>13. \/ Outcome(addr, t).result = "paths" /\ site' = addr /\ paths' = MaxPaths
       \/ site' = 0 /\ paths' = paths
  BY <1>3, <1>4
<1>14. site' # 0 => t.result = "paths"
  BY <1>13 DEF Outcome
<1> HIDE DEF ends
<1>15. /\ step' \in Nat /\ todo' \in Seq(Addresses) /\ Len(todo') <= Len(todo)
       /\ step' # 0 => todo' = todo /\ ~ends /\ step' = step + 1 /\ step' <= Len(v)
  <2>1. CASE ends \/ step = Len(v)
    <3>1. step' = 0
      BY <1>8, <2>1, Zenon
    <3>2. todo' = <<>> \/ todo' = Tail(todo)
      BY <1>12, <3>1, Zenon
    <3>3. CASE todo' = <<>>
      <4>1. Len(todo') = 0 /\ todo' \in Seq(Addresses)
        BY <3>3
      <4> QED
        BY <1>2, <3>1, <4>1
    <3>4. CASE todo' = Tail(todo)
      BY <1>2, <3>1, <3>4
    <3> QED
      BY <3>2, <3>3, <3>4
  <2>2. CASE ~ends /\ step # Len(v)
    <3>1. step' = step + 1
      BY <1>8, <2>2, Zenon
    <3>2. step' \in Nat /\ step' # 0 /\ step' <= Len(v)
      BY <1>3, <1>5, <2>2, <3>1
    <3>3. todo' = todo
      BY <1>12, <2>2, <3>2, Zenon
    <3> QED
      BY <1>2, <2>2, <3>1, <3>2, <3>3
  <2> QED
    BY <2>1, <2>2
<1>16. Typed'
  <2>1. site' \in Addresses \cup {0} /\ paths' \in 0..MaxPaths
    BY <1>2, <1>13, TypesKnown
  <2>2. step' # 0 => todo' # <<>>
    BY <1>2, <1>15
  <2>3. gap' \in BOOLEAN /\ (gap' => site' # 0)
    BY <1>1, <1>3
  <2>4. groups' \in Seq(Seq(Addresses)) /\ visited' \subseteq Addresses
    BY <1>1, TypesKnown
  <2> QED
    BY <1>1, <1>9, <1>11, <1>15, <2>1, <2>2, <2>3, <2>4, TypedKept
<1>17. \/ todo' = todo \/ todo' = Tail(todo)
       \/ Together /\ todo' = <<>> /\ Answered(addr)'
  <2>1. CASE ends /\ kind = "active"
    <3>1. t \in Telling(Mode, Linger)
      BY <1>3, <1>4, <1>5, <2>1 DEF Settles
    <3>2. Level(Mode, t.heard) = 2
      BY <1>7, <2>1, <3>1 DEF Telling
    <3>3. Answered(addr)'
      BY <1>9, <3>2, Zenon
    <3>4. ~Together => Len(todo) <= 1
      BY Zenon DEF IInv, Course
    <3>5. ~Together => Tail(todo) = <<>>
      <4>1. ASSUME ~Together PROVE Tail(todo) = <<>>
        <5>1. Len(todo) <= 1
          BY <3>4, <4>1, Zenon
        <5>2. Len(Tail(todo)) = 0
          BY <1>2, <5>1
        <5> QED
          BY <1>2, <5>2, EmptySeq
      <4> QED
        BY <4>1
    <3> QED
      BY <1>12, <2>1, <3>3, <3>5, Zenon
  <2>2. CASE ~(ends /\ kind = "active")
    <3>1. todo' = IF step' = 0 THEN Tail(todo) ELSE todo
      BY <1>12, <2>2, Zenon
    <3>2. todo' = todo \/ todo' = Tail(todo)
      BY <3>1
    <3> QED
      BY <3>2, Zenon
  <2> QED
    BY <2>1, <2>2, Zenon
<1>18. {todo[i] : i \in 1..Len(todo)} = {addr} \cup {Tail(todo)[i] : i \in 1..Len(Tail(todo))}
  BY <1>0, <1>2, Elements
<1>19. Course'
  <2> DEFINE rest == UNION {{groups[i][j] : j \in 1..Len(groups[i])} : i \in 1..Len(groups)}
  <2>1. Ahead = {todo[i] : i \in 1..Len(todo)} \cup rest
    BY DEF Ahead
  <2>2. Ahead' = {todo'[i] : i \in 1..Len(todo')} \cup rest
    BY <1>1 DEF Ahead
  <2>3. ~Together => Len(todo') <= 1 /\ \A i \in 1..Len(groups') : Len(groups'[i]) = 1
    <3>1. ASSUME ~Together
          PROVE  Len(todo') <= 1 /\ \A i \in 1..Len(groups') : Len(groups'[i]) = 1
      <4>1. Len(todo) <= 1 /\ \A i \in 1..Len(groups) : Len(groups[i]) = 1
        BY <3>1, Zenon DEF IInv, Course
      <4>2. Len(todo') \in Nat
        BY <1>15
      <4>3. Len(todo') <= 1
        BY <1>2, <1>15, <4>1, <4>2
      <4> QED
        BY <1>1, <4>1, <4>3
    <3> QED
      BY <3>1, Zenon
  <2> HIDE DEF rest
  <2>4. CASE todo' = todo \/ todo' = Tail(todo)
    <3>1. visited' \cup Ahead' = visited \cup Ahead
      BY <1>1, <1>3, <1>18, <2>1, <2>2, <2>4
    <3>2. \A a \in visited : Answered(a) => Answered(a)'
      BY <1>9, TypesKnown
    <3> QED
      BY <1>1, <1>10, <1>11, <2>3, <3>1, <3>2, CourseKept
  <2>5. CASE Together /\ todo' = <<>> /\ Answered(addr)'
    <3>1. Ahead' \subseteq Ahead
      <4>1. {todo'[i] : i \in 1..Len(todo')} = {}
        BY <2>5
      <4> QED
        BY <2>1, <2>2, <4>1
    <3>2. visited' \cup Ahead' \subseteq Planned'
      BY <1>1, <1>10, <3>1 DEF IInv, Course
    <3>3. addr \in visited' /\ Answered(addr)' /\ Together'
      BY <1>1, <1>3, <1>10, <2>5
    <3>4. \E a \in visited' : Answered(a)'
      BY <3>3, Zenon
    <3> QED
      BY <3>2, <3>3, <3>4, Zenon DEF Course
  <2> QED
    BY <1>17, <2>4, <2>5
<1>20. step' # 0 => Current' = v
  BY <1>0, <1>10, <1>15 DEF v, Current
<1>21. Place'
  <2>1. step' # 0 => site' = 0
    BY <1>7, <1>14, <1>15, Zenon
  <2>2. step' # 0 => Head(todo') \in visited'
    BY <1>0, <1>1, <1>3, <1>15
  <2>3. step' # 0 => step' <= Len(Current')
    BY <1>15, <1>20
  <2>4. site' # 0 => Mode'.site
    BY <1>7, <1>10, <1>14
  <2>5. gap' = FALSE
    BY <1>1, <1>3
  <2> QED
    BY <2>1, <2>2, <2>3, <2>4, <2>5, Zenon DEF Place
<1>22. Budget'
  <2>1. SUFFICES ASSUME kind # "talk" PROVE Budget'
    BY <1>1 DEF Budget
  <2>2. ~cancelled => late = 0
    BY <2>1, Zenon DEF IInv, Budget
  <2>3. Covers(v, Mode, step, late)
    BY <1>0, <1>1, <2>1, Zenon DEF IInv, Budget, Current, v
  <2>4. PICK b : /\ Budgets(v, b)
                 /\ \A k \in 1..Len(v) : v[k] \in Steps(Mode, b[k] - b[k + 1])
                 /\ late + b[step] <= Linger
    BY <2>3 DEF Covers
  <2> DEFINE n == b[step] - b[step + 1]
  <2>5. b[step] \in Nat /\ b[step + 1] \in Nat /\ n \in Nat
    <3>1. Len(v) \in Nat
      BY <1>5
    <3>2. step \in 1..Len(v) + 1 /\ step + 1 \in 1..Len(v) + 1
      BY <1>3, <3>1
    <3>3. b[step] \in 0..Linger /\ b[step + 1] \in 0..Linger
      BY <2>4, <3>2 DEF Budgets
    <3>4. b[step + 1] <= b[step]
      BY <1>3, <2>4 DEF Budgets
    <3>5. \A x, y \in 0..Linger : y <= x => x \in Nat /\ y \in Nat /\ x - y \in Nat
      BY LingerType
    <3> HIDE DEF n
    <3> QED
      BY <3>3, <3>4, <3>5 DEF n
  <2>6. v[step] \in Steps(Mode, n)
    BY <1>3, <2>4
  <2> HIDE DEF n
  <2>7. t \in Sound(Mode, n)
    BY <1>4, <2>6 DEF Steps
  <2>8. late' <= late + n /\ (~cancelled' => late' = 0)
    <3>1. late \in Nat /\ cancelled \in BOOLEAN
      BY TypesKnown
    <3> QED
      BY <1>4, <1>5, <2>2, <2>5, <2>7, <3>1, PlayCosts
  <2>9. late' + b[step + 1] <= Linger /\ late' <= Linger
    <3>1. late \in Nat /\ late' \in Nat
      BY <1>11, TypesKnown
    <3> QED
      BY <2>4, <2>5, <2>8, <3>1, LingerType DEF n
  <2>10. step' # 0 => Covers(Current', Mode', step', late')
    <3>1. ASSUME step' # 0 PROVE Covers(v, Mode, step', late')
      <4>1. late' + b[step'] <= Linger
        BY <1>15, <2>9, <3>1
      <4> QED
        BY <2>4, <4>1 DEF Covers
    <3> QED
      BY <1>10, <1>20, <3>1
  <2>11. gap' = FALSE
    BY <1>1, <1>3
  <2> QED
    BY <2>8, <2>9, <2>10, <2>11, Zenon DEF Budget
<1> QED
  BY <1>9, <1>16, <1>19, <1>21, <1>22, Zenon DEF IInv

-----------------------------------------------------------------------------
(* The theorems. *)

LEMMA Invariance == Spec => []IInv
<1>1. IInv /\ [Next]_vars => IInv'
  BY NextHostInv, VisitInv, ExchangeInv, PathGapInv, PathProbeInv, PathsDoneInv, StopInv,
     CancelInv, StutterInv DEF Next, Run, Finished
<1> QED
  BY InitInv, <1>1, PTL DEF Spec

\* The state keeps its type: no step finds more paths to ask for than the list
\* has, nor an address that was not given (the loops of active/*.rs, service.rs).
THEOREM TypeCorrect == Spec => []TypeOK
<1>1. IInv => TypeOK
  BY DEF IInv, Typed
<1> QED
  BY Invariance, <1>1, PTL

\* However many peers answer, refuse, hang up or keep silent, a port is called
\* open on a scan's word, on a connection, or in one of the two cases that
\* TakenForOpen names (graph.rs, apply).
THEOREM OpenedIsReached == Spec => []OpenOnlyIfReached
<1>1. IInv => OpenOnlyIfReached
  BY DEF IInv
<1> QED
  BY Invariance, <1>1, PTL

\* No refusal, timeout or silence becomes a service or a finding, whatever the
\* clients tried and in whatever order (service.rs, active/*.rs).
THEOREM ClaimsHeard == Spec => []ClaimsAreHeard
<1>1. IInv => ClaimsAreHeard
  BY DEF IInv
<1> QED
  BY Invariance, <1>1, PTL

\* A module that ends without a cancel has visited every address that was
\* planned, or one of the host's answered (active/*.rs, service.rs).
THEOREM NobodyPassedOver == Spec => []NoPeerPassedOver
<1>1. IInv => NoPeerPassedOver
  <2>1. SUFFICES ASSUME IInv, Done, ~cancelled PROVE NoPeerPassedOver
    BY DEF NoPeerPassedOver
  <2>2. Ahead = {}
    BY <2>1 DEF Done, Ahead
  <2>3. visited \subseteq Planned
    BY <2>1, <2>2 DEF IInv, Course
  <2>4. \/ visited = Planned
        \/ Together /\ \E a \in visited : Answered(a)
    <3>1. \/ Planned \subseteq visited \cup Ahead
          \/ Together /\ \E a \in visited : Answered(a)
      BY <2>1, Zenon DEF IInv, Course
    <3>2. CASE Planned \subseteq visited \cup Ahead
      BY <2>2, <2>3, <3>2
    <3> QED
      BY <3>1, <3>2, Zenon
  <2>5. CASE kind = "talk"
    BY <2>4, <2>5 DEF NoPeerPassedOver, Planned, Together
  <2>6. CASE Together
    BY <2>4, <2>6, Zenon DEF NoPeerPassedOver, Planned, Together
  <2>7. CASE kind # "talk" /\ ~Together
    <3>1. visited = Planned
      BY <2>4, <2>7, Zenon
    <3> QED
      BY <2>7, <3>1 DEF NoPeerPassedOver, Planned, Together
  <2> QED
    BY <2>5, <2>6, <2>7, Zenon
<1> QED
  BY Invariance, <1>1, PTL

\* A cancel is followed by the rest of one visit, or by one path, whatever the
\* number of addresses that were to be visited yet.
THEOREM LingerIsBounded == Spec => []LingerBounded
<1>1. IInv => LingerBounded
  BY Zenon DEF IInv, Budget, LingerBounded
<1> QED
  BY Invariance, <1>1, PTL

-----------------------------------------------------------------------------
(* A module ends: each of its steps brings it nearer to its end. *)

\* The pauses and requests left of the list of paths, and its end.
PathsLeft == IF site = 0 THEN 0 ELSE IF gap THEN 2 * paths ELSE 2 * paths + 1

\* The exchanges left of the visit in progress, or that is to come, and its start.
VisitLeft == IF todo = <<>> THEN 0 ELSE Len(Current) + 1 - step

\* The hosts, their addresses, the paths, the exchanges and the token, compared
\* in this order: the first that differs is smaller.
Nearer ==
  \/ Len(groups') < Len(groups)
  \/ /\ Len(groups') = Len(groups)
     /\ \/ Len(todo') < Len(todo)
        \/ /\ Len(todo') = Len(todo)
           /\ \/ PathsLeft' < PathsLeft
              \/ /\ PathsLeft' = PathsLeft
                 /\ \/ VisitLeft' < VisitLeft
                    \/ VisitLeft' = VisitLeft /\ ~cancelled /\ cancelled'

\* Whatever the peers send or withhold, each exchange, pause and look of a module
\* brings it nearer to its end: no answer sends it back to an address, a client or
\* a path it has left (the loops of service.rs, fingerprint.rs and active/*.rs).
EveryStepCounts == [][Nearer]_vars

\* The measure is well founded: natural numbers.
THEOREM Measured ==
  Spec => [](Len(groups) \in Nat /\ Len(todo) \in Nat /\ PathsLeft \in Nat /\ VisitLeft \in Nat)
<1>1. IInv => /\ Len(groups) \in Nat /\ Len(todo) \in Nat
              /\ PathsLeft \in Nat /\ VisitLeft \in Nat
  <2> SUFFICES ASSUME IInv
               PROVE  /\ Len(groups) \in Nat /\ Len(todo) \in Nat
                      /\ PathsLeft \in Nat /\ VisitLeft \in Nat
    OBVIOUS
  <2>1. Len(groups) \in Nat /\ Len(todo) \in Nat
    <3>1. groups \in Seq(Seq(Addresses)) /\ todo \in Seq(Addresses)
      BY TypesKnown
    <3> QED
      BY <3>1
  <2>2. PathsLeft \in Nat
    <3>1. paths \in Nat
      BY TypesKnown
    <3> QED
      BY <3>1 DEF PathsLeft
  <2>3. Len(Current) \in Nat
    <3>1. Current \in Seq(Steps(Mode, Linger))
      BY TypedVisit DEF IInv, Current
    <3> QED
      BY <3>1
  <2>4. step \in Nat /\ (step # 0 => step <= Len(Current))
    <3>1. step \in Nat
      BY TypesKnown
    <3>2. step # 0 => step <= Len(Current)
      BY Zenon DEF IInv, Place
    <3> QED
      BY <3>1, <3>2
  <2>5. VisitLeft \in Nat
    BY <2>3, <2>4 DEF VisitLeft
  <2> QED
    BY <2>1, <2>2, <2>5
<1> QED
  BY <1>1, Invariance, PTL

\* An exchange ends the visit or is followed by the next exchange of the same visit.
LEMMA ExchangeNearer == IInv /\ IInv' /\ Exchange => Nearer
<1> SUFFICES ASSUME IInv, IInv', Exchange PROVE Nearer
  OBVIOUS
<1>1. step # 0 /\ UNCHANGED <<kind, item, groups, gap, scanned, visited>>
  BY DEF Exchange
<1>2. /\ todo \in Seq(Addresses) /\ todo # <<>> /\ Head(todo) \in Addresses
      /\ Len(todo) \in Nat \ {0} /\ Len(Tail(todo)) = Len(todo) - 1
  BY <1>1, TypesKnown, HeadAndTail
<1>0. PICK addr \in Addresses : addr = Head(todo)
  BY <1>2
<1> DEFINE v == VisitTo(addr)
<1>3. site = 0 /\ step \in 1..Len(v) /\ step <= Len(v) /\ Len(v) \in Nat
  <2>1. site = 0 /\ step <= Len(v)
    BY <1>0, <1>1, Zenon DEF IInv, Place, Current
  <2>2. step \in Nat /\ Len(v) \in Nat
    BY TypesKnown, TypedVisit DEF IInv
  <2> QED
    BY <1>1, <2>1, <2>2
<1>4. PICK t \in v[step].exchange :
        /\ Play(addr, Outcome(addr, t))
        /\ step' = NextStep(v, Outcome(addr, t))
        /\ todo' = IF Answers(Outcome(addr, t), v[step].goes_on) /\ kind = "active" THEN <<>>
                   ELSE IF step' = 0 THEN Tail(todo) ELSE todo
        /\ IF Outcome(addr, t).result = "paths" /\ MaxPaths > 0
           THEN site' = addr /\ paths' = MaxPaths
           ELSE UNCHANGED <<site, paths>>
  BY <1>0 DEF Exchange, Outcomes
<1> DEFINE ends == Answers(Outcome(addr, t), v[step].goes_on)
<1>5. VisitTo(addr)' = VisitTo(addr)
  <2>1. v[step] \in Steps(Mode, Linger) /\ Mode \in Modes
    BY <1>3, TypedVisit DEF IInv
  <2>2. t \in Sound(Mode, Linger) /\ Linger \in Nat
    BY <1>4, <2>1, LingerType DEF Steps
  <2>3. /\ GraphOk(graph)'
        /\ \A a \in Addresses : G!HostOf(graph', a).ttl = G!HostOf(graph, a).ttl
    BY <1>1, <1>2, <1>4, <2>2, PlayKeeps
  <2> QED
    BY <1>1, <1>2, <2>3, SameModule
<1> HIDE DEF v
<1>6. /\ step' = IF ends \/ step = Len(v) THEN 0 ELSE step + 1
      /\ todo' = IF ends /\ kind = "active" THEN <<>> ELSE IF step' = 0 THEN Tail(todo) ELSE todo
  BY <1>4 DEF NextStep
<1> HIDE DEF ends
<1>7. CASE step' = 0
  <2>1. todo' = <<>> \/ todo' = Tail(todo)
    BY <1>6, <1>7, Zenon
  <2>2. Len(todo') < Len(todo)
    BY <1>2, <2>1
  <2> QED
    BY <1>1, <2>2 DEF Nearer
<1>8. CASE step' # 0
  <2>1. ~ends /\ step' = step + 1 /\ todo' = todo
    <3>1. ~ends /\ step # Len(v)
      BY <1>6, <1>8, Zenon
    <3>2. step' = step + 1
      BY <1>6, <3>1, Zenon
    <3>3. todo' = todo
      BY <1>6, <1>8, <3>1, Zenon
    <3> QED
      BY <3>1, <3>2, <3>3
  <2>2. site' = 0
    BY <1>8, Zenon DEF IInv, Place
  <2>3. PathsLeft' = PathsLeft
    BY <1>3, <2>2 DEF PathsLeft
  <2>4. Current = v /\ Current' = v
    BY <1>0, <1>5, <2>1 DEF Current, v
  <2>5. VisitLeft = Len(v) + 1 - step /\ VisitLeft' = Len(v) + 1 - step'
    BY <1>2, <2>1, <2>4 DEF VisitLeft
  <2>6. VisitLeft' < VisitLeft
    BY <1>3, <2>1, <2>5
  <2> QED
    BY <1>1, <2>1, <2>3, <2>6 DEF Nearer
<1> QED
  BY <1>7, <1>8

\* A path is asked for once, and the list ends.
LEMMA PathsNearer ==
  ASSUME IInv, PathGap \/ PathProbe \/ PathsDone
  PROVE  Nearer
<1>1. UNCHANGED <<groups, todo>>
  BY DEF PathGap, PathProbe, PathsDone
<1>2. paths \in Nat /\ gap \in BOOLEAN /\ (gap => site # 0 /\ paths # 0)
  <2>1. paths \in Nat /\ gap \in BOOLEAN /\ (gap => site # 0)
    BY TypesKnown
  <2>2. gap => paths # 0
    BY Zenon DEF IInv, Place
  <2> QED
    BY <2>1, <2>2
<1>3. PathsLeft' < PathsLeft
  <2>1. CASE PathGap
    <3>1. site # 0 /\ ~gap /\ gap' /\ UNCHANGED <<site, paths>>
      BY <2>1 DEF PathGap
    <3> QED
      BY <1>2, <3>1 DEF PathsLeft
  <2>2. CASE PathProbe
    <3>1. gap /\ ~gap' /\ site' = site /\ (paths' = paths - 1 \/ paths' = 0)
      BY <2>2 DEF PathProbe
    <3> QED
      BY <1>2, <3>1 DEF PathsLeft
  <2>3. CASE PathsDone
    <3>1. site # 0 /\ ~gap /\ site' = 0
      BY <2>3 DEF PathsDone
    <3> QED
      BY <1>2, <3>1 DEF PathsLeft
  <2> QED
    BY <2>1, <2>2, <2>3
<1> QED
  BY <1>1, <1>3 DEF Nearer

LEMMA VisitNearer == IInv /\ Visit => Nearer
<1> SUFFICES ASSUME IInv, Visit PROVE Nearer
  OBVIOUS
<1>1. step = 0 /\ todo # <<>> /\ UNCHANGED <<kind, item, groups, site, paths, gap, graph, scanned, contact>>
  BY DEF Visit
<1>2. /\ todo \in Seq(Addresses) /\ Len(todo) \in Nat /\ Len(Tail(todo)) = Len(todo) - 1
  BY <1>1, TypesKnown, HeadAndTail
<1>3. CASE todo' = Tail(todo)
  <2>1. Len(todo') < Len(todo) /\ Len(groups') = Len(groups)
    BY <1>1, <1>2, <1>3
  <2> QED
    BY <2>1, Zenon DEF Nearer
<1>4. CASE step' = 1 /\ todo' = todo
  <2>1. Current' = Current
    BY <1>1, <1>4, SameGraph DEF Current
  <2>2. Len(Current) \in Nat
    <3>1. Current \in Seq(Steps(Mode, Linger))
      BY TypedVisit DEF IInv, Current
    <3> QED
      BY <3>1
  <2>3. VisitLeft' < VisitLeft
    BY <1>1, <1>4, <2>1, <2>2 DEF VisitLeft
  <2>4. PathsLeft' = PathsLeft
    BY <1>1 DEF PathsLeft
  <2> QED
    BY <1>1, <1>4, <2>3, <2>4 DEF Nearer
<1>5. todo' = Tail(todo) \/ (step' = 1 /\ todo' = todo)
  BY DEF Visit
<1> QED
  BY <1>3, <1>4, <1>5

\* Every step of a module leaves it fewer.
THEOREM ModulesShrink == Spec => EveryStepCounts
<1>1. IInv /\ IInv' /\ [Next]_vars => [Nearer]_vars
  <2> SUFFICES ASSUME IInv, IInv', Next, vars' # vars PROVE Nearer
    BY Zenon
  <2>1. todo \in Seq(Addresses) /\ groups \in Seq(Seq(Addresses))
    BY TypesKnown
  <2>2. CASE NextHost
    <3>1. groups # <<>> /\ groups' = Tail(groups)
      BY <2>2 DEF NextHost
    <3>2. Len(groups') < Len(groups)
      BY <2>1, <3>1, HeadAndTail
    <3> QED
      BY <3>2 DEF Nearer
  <2>3. CASE Stop
    <3>1. todo' = <<>> /\ groups' = <<>> /\ (todo # <<>> \/ groups # <<>>)
      BY <2>3 DEF Stop
    <3>2. CASE groups # <<>>
      <4>1. Len(groups) > 0 /\ Len(groups') = 0
        BY <2>1, <3>1, <3>2
      <4> QED
        BY <4>1 DEF Nearer
    <3>3. CASE groups = <<>>
      <4>1. Len(todo) > 0 /\ Len(todo') = 0 /\ groups' = groups
        BY <2>1, <3>1, <3>3
      <4> QED
        BY <4>1 DEF Nearer
    <3> QED
      BY <3>2, <3>3
  <2>4. CASE Cancel
    <3>1. /\ ~cancelled /\ cancelled'
          /\ UNCHANGED <<kind, item, groups, todo, step, site, paths, gap, graph, scanned, contact>>
      BY <2>4 DEF Cancel
    <3>2. Current' = Current
      BY <3>1, SameGraph DEF Current
    <3>3. PathsLeft' = PathsLeft /\ VisitLeft' = VisitLeft
      BY <3>1, <3>2 DEF PathsLeft, VisitLeft
    <3> QED
      BY <3>1, <3>3, Zenon DEF Nearer
  <2> QED
    BY <2>2, <2>3, <2>4, ExchangeNearer, PathsNearer, VisitNearer, Zenon DEF Next, Run, Finished
<1> QED
  BY <1>1, Invariance, PTL DEF Spec, EveryStepCounts
=============================================================================
