----------------------- MODULE LivingWorkspaceProofs ------------------------
(***************************************************************************)
(* Whatever the addresses, ports, texts, sessions and levels are, and      *)
(* however many events the runs emit: the graphs are well formed, and the  *)
(* workspace knows at least as much as each graph that was merged into it. *)
(***************************************************************************)
EXTENDS LivingWorkspace, TLAPS

-----------------------------------------------------------------------------
(* Maps. *)

LEMMA MapOf ==
  ASSUME NEW K, NEW V, NEW f \in Maps(K, V)
  PROVE  DOMAIN f \in SUBSET K /\ f \in [DOMAIN f -> V]
BY DEF Maps

LEMMA IsMap ==
  ASSUME NEW K, NEW V, NEW S \in SUBSET K, NEW f \in [S -> V]
  PROVE  f \in Maps(K, V)
BY DEF Maps

LEMMA EmptyIsMap ==
  ASSUME NEW K, NEW V
  PROVE  EmptyMap \in Maps(K, V)
<1>1. EmptyMap \in [{} -> V]
  BY DEF EmptyMap
<1> QED
  BY <1>1, IsMap

\* or_insert and insert keep a map a map.
LEMMA EntryType ==
  ASSUME NEW K, NEW V, NEW f \in Maps(K, V), NEW k, NEW d \in V
  PROVE  Entry(f, k, d) \in V
BY MapOf DEF Entry

LEMMA InsertType ==
  ASSUME NEW K, NEW V, NEW f \in Maps(K, V), NEW k \in K, NEW v \in V
  PROVE  Insert(f, k, v) \in Maps(K, V)
<1>1. DOMAIN f \in SUBSET K /\ f \in [DOMAIN f -> V]
  BY MapOf
<1>2. Insert(f, k, v) \in [DOMAIN f \cup {k} -> V]
  BY <1>1 DEF Insert
<1>3. DOMAIN f \cup {k} \in SUBSET K
  BY <1>1
<1> QED
  BY <1>2, <1>3, IsMap

\* A map whose values come from two maps, or are combined of both.
LEMMA MergeMapsType ==
  ASSUME NEW K, NEW V, NEW a \in Maps(K, V), NEW b \in Maps(K, V),
         NEW m, m = [k \in DOMAIN a \cup DOMAIN b |-> m[k]],
         \A k \in DOMAIN a \ DOMAIN b : m[k] = a[k],
         \A k \in DOMAIN b \ DOMAIN a : m[k] = b[k],
         \A k \in DOMAIN a \cap DOMAIN b : m[k] \in V
  PROVE  m \in Maps(K, V)
<1>1. /\ DOMAIN a \in SUBSET K /\ a \in [DOMAIN a -> V]
      /\ DOMAIN b \in SUBSET K /\ b \in [DOMAIN b -> V]
  BY MapOf
<1>2. \A k \in DOMAIN a \cup DOMAIN b : m[k] \in V
  BY <1>1
<1>3. m \in [DOMAIN a \cup DOMAIN b -> V]
  BY <1>2
<1>4. DOMAIN a \cup DOMAIN b \in SUBSET K
  BY <1>1
<1> QED
  BY <1>3, <1>4, IsMap
-----------------------------------------------------------------------------
(* What an event says of a host. *)

LEMMA PortIn == \A protocol \in Protocols, state \in PortStates :
                  NewPort(protocol, state) \in Port
BY LevelsPositive DEF NewPort, Port, Scores

LEMMA NewHostIn == NewHost \in Host
<1>1. EmptyMap \in Maps(Ports, Port)
  BY EmptyIsMap
<1> QED
  BY <1>1 DEF NewHost, Host, Scores

LEMMA EnsureOpenPortType ==
  ASSUME NEW ports \in Maps(Ports, Port), NEW p \in Ports \cup {0}
  PROVE  EnsureOpenPort(ports, p) \in Maps(Ports, Port)
<1>1. CASE p = 0
  BY <1>1 DEF EnsureOpenPort
<1>2. CASE p # 0
  <2> DEFINE known == Entry(ports, p, NewPort("tcp", "open"))
  <2>1. known \in Port
    BY EntryType, PortIn DEF Protocols, PortStates
  <2>2. [known EXCEPT !.state = "open"] \in Port
    BY <2>1 DEF Port, PortStates
  <2>3. p \in Ports
    BY <1>2
  <2> HIDE DEF known
  <2>4. Insert(ports, p, [known EXCEPT !.state = "open"]) \in Maps(Ports, Port)
    BY <2>2, <2>3, InsertType
  <2> QED
    BY <1>2, <2>4 DEF EnsureOpenPort, known
<1> QED
  BY <1>1, <1>2

\* Banner and ServiceDetected change one field of the port.
LEMMA PortEvents ==
  ASSUME NEW h \in Host, NEW p \in Ports, NEW n \in Levels
  PROVE  Banner(h, p, n) \in Host /\ ServiceDetected(h, p, n) \in Host
<1> DEFINE known == Entry(h.ports, p, NewPort("tcp", "open"))
<1>0. h.ports \in Maps(Ports, Port)
  BY DEF Host
<1>1. known \in Port
  BY <1>0, EntryType, PortIn DEF Protocols, PortStates
<1>2. Banner(h, p, n) \in Host
  <2>1. [known EXCEPT !.banner = n] \in Port
    BY <1>1 DEF Port, Scores
  <2>2. Insert(h.ports, p, [known EXCEPT !.banner = n]) \in Maps(Ports, Port)
    BY <1>0, <2>1, InsertType
  <2> QED
    BY <2>2 DEF Banner, Host
<1>3. ServiceDetected(h, p, n) \in Host
  <2>1. [known EXCEPT !.service = n] \in Port
    BY <1>1 DEF Port, Scores
  <2>2. Insert(h.ports, p, [known EXCEPT !.service = n]) \in Maps(Ports, Port)
    BY <1>0, <2>1, InsertType
  <2> QED
    BY <2>2 DEF ServiceDetected, Host
<1> QED
  BY <1>2, <1>3

\* A probe and a finding open the port.
LEMMA ProbeEvents ==
  ASSUME NEW h \in Host, NEW p \in Ports \cup {0}, NEW x \in Texts
  PROVE  ProbeResult(h, p, x) \in Host /\ MisconfigFinding(h, p, x) \in Host
<1> DEFINE found == h.findings \cup {<<p, x>>}
<1>1. EnsureOpenPort(h.ports, p) \in Maps(Ports, Port)
  BY EnsureOpenPortType DEF Host
<1>2. found \in SUBSET ((Ports \cup {0}) \X Texts)
  BY DEF Host
<1> HIDE DEF found
<1>3. [h EXCEPT !.up = TRUE, !.ports = EnsureOpenPort(h.ports, p),
                !.findings = found] \in Host
  BY <1>1, <1>2 DEF Host, found
<1>4. ProbeResult(h, p, x) \in Host
  BY <1>1 DEF ProbeResult, Host
<1> QED
  BY <1>3, <1>4 DEF MisconfigFinding, found
-----------------------------------------------------------------------------
(* What an event does to the graph. *)

LEMMA GraphParts ==
  ASSUME NEW g \in Graph
  PROVE  /\ g.hosts \in Maps(Addrs, Host)
         /\ g.dns \in Maps(Texts \cup Addrs, SUBSET (Texts \cup Addrs))
         /\ g.paths \in Maps(Addrs, Path)
         /\ g.sessions \in Maps(Ids, Session)
BY DEF Graph

LEMMA EmptyGraphType == EmptyGraph \in Graph
BY EmptyIsMap DEF EmptyGraph, Graph

LEMMA HostOfType ==
  ASSUME NEW g \in Graph, NEW a \in Addrs
  PROVE  HostOf(g, a) \in Host
BY GraphParts, EntryType, NewHostIn DEF HostOf

LEMMA SetHostType ==
  ASSUME NEW g \in Graph, NEW a \in Addrs, NEW h \in Host
  PROVE  SetHost(g, a, h) \in Graph
<1>1. Insert(g.hosts, a, h) \in Maps(Addrs, Host)
  BY GraphParts, InsertType
<1> QED
  BY <1>1 DEF SetHost, Graph

LEMMA DnsRecordType ==
  ASSUME NEW g \in Graph, NEW k \in Texts \cup Addrs, NEW v \in Texts \cup Addrs
  PROVE  DnsRecord(g, k, v) \in Graph
<1> DEFINE values == Entry(g.dns, k, {}) \cup {v}
<1>1. Entry(g.dns, k, {}) \in SUBSET (Texts \cup Addrs)
  BY GraphParts, EntryType
<1>2. values \in SUBSET (Texts \cup Addrs)
  BY <1>1
<1> HIDE DEF values
<1>3. Insert(g.dns, k, values) \in Maps(Texts \cup Addrs, SUBSET (Texts \cup Addrs))
  BY <1>2, GraphParts, InsertType
<1> QED
  BY <1>3 DEF DnsRecord, Graph, values

LEMMA AddressRecordType ==
  ASSUME NEW g \in Graph, NEW x \in Texts, NEW a \in Addrs
  PROVE  AddressRecord(g, x, a) \in Graph
<1>1. Named(HostOf(g, a), x) \in Host
  BY HostOfType DEF Named, OrElse, Host
<1>2. SetHost(g, a, Named(HostOf(g, a), x)) \in Graph
  BY <1>1, SetHostType
<1> QED
  BY <1>2, DnsRecordType DEF AddressRecord

LEMMA PtrRecordType ==
  ASSUME NEW g \in Graph, NEW x \in Texts, NEW a \in Addrs
  PROVE  PtrRecord(g, a, x) \in Graph
<1> DEFINE host == [HostOf(g, a) EXCEPT !.detail = x]
<1>1. host \in Host
  BY HostOfType DEF Host
<1> HIDE DEF host
<1>2. Named(host, x) \in Host
  BY <1>1 DEF Named, OrElse, Host
<1>3. SetHost(g, a, Named(host, x)) \in Graph
  BY <1>2, SetHostType
<1> QED
  BY <1>3, DnsRecordType DEF PtrRecord, host

LEMMA SessionOpenedType ==
  ASSUME NEW g \in Graph, NEW id \in Ids
  PROVE  SessionOpened(g, id) \in Graph
<1>1. NewSession \in Session
  BY DEF NewSession, Session, Scores
<1>2. Insert(g.sessions, id, NewSession) \in Maps(Ids, Session)
  BY <1>1, GraphParts, InsertType
<1> QED
  BY <1>2 DEF SessionOpened, Graph

LEMMA SessionUpdate ==
  ASSUME NEW g \in Graph, NEW id \in DOMAIN g.sessions, NEW s \in Session
  PROVE  [g EXCEPT !.sessions[id] = s] \in Graph
<1>1. /\ DOMAIN g.sessions \in SUBSET Ids
      /\ g.sessions \in [DOMAIN g.sessions -> Session]
  BY GraphParts, MapOf
<1>2. [g.sessions EXCEPT ![id] = s] \in [DOMAIN g.sessions -> Session]
  BY <1>1
<1>3. [g.sessions EXCEPT ![id] = s] \in Maps(Ids, Session)
  BY <1>1, <1>2, IsMap
<1> QED
  BY <1>3 DEF Graph

LEMMA SessionClosedType ==
  ASSUME NEW g \in Graph, NEW id \in DOMAIN g.sessions
  PROVE  SessionClosed(g, id) \in Graph
<1>1. g.sessions[id] \in Session
  BY GraphParts, MapOf
<1>2. [g.sessions[id] EXCEPT !.closed = TRUE] \in Session
  BY <1>1 DEF Session
<1>3. SessionClosed(g, id)
        = [g EXCEPT !.sessions[id] = [g.sessions[id] EXCEPT !.closed = TRUE]]
  BY DEF SessionClosed
<1> QED
  BY <1>2, <1>3, SessionUpdate

LEMMA FinishSessionType ==
  ASSUME NEW g \in Graph, NEW id \in DOMAIN g.sessions,
         NEW a \in Addrs, NEW x \in Texts, NEW n \in Scores
  PROVE  FinishSession(g, id, a, x, n) \in Graph
<1> DEFINE host == [HostOf(g, a) EXCEPT !.up = TRUE]
           session == [closed |-> TRUE, note |-> x, lines |-> n]
<1>1. host \in Host
  BY HostOfType DEF Host
<1>2. session \in Session
  BY DEF Session
<1> HIDE DEF host, session
<1> DEFINE h == SetHost(g, a, host)
<1>3. h \in Graph
  BY <1>1, SetHostType
<1>4. DOMAIN h.sessions = DOMAIN g.sessions
  BY DEF SetHost, Graph
<1> HIDE DEF h
<1>5. [h EXCEPT !.sessions[id] = session] \in Graph
  BY <1>2, <1>3, <1>4, SessionUpdate
<1> QED
  BY <1>5 DEF FinishSession, h, host, session

LEMMA PathHopType ==
  ASSUME NEW g \in Graph, NEW t \in Addrs, NEW hop \in Hops, NEW via \in Addrs \cup {None}
  PROVE  PathHop(g, t, hop, via) \in Graph
<1> DEFINE named == {t, via} \ {None}
           hosts == [x \in DOMAIN g.hosts \cup named |-> HostOf(g, x)]
           path == Insert(Entry(g.paths, t, EmptyMap), hop, via)
<1>1. /\ DOMAIN g.hosts \cup named \in SUBSET Addrs
      /\ named \in SUBSET Addrs
  BY GraphParts, MapOf, TextsAreSome
<1>2. hosts \in [DOMAIN g.hosts \cup named -> Host]
  BY <1>1, HostOfType
<1>3. hosts \in Maps(Addrs, Host)
  BY <1>1, <1>2, IsMap
<1>4. EmptyMap \in Path
  BY EmptyIsMap DEF Path
<1>5. Entry(g.paths, t, EmptyMap) \in Path
  BY <1>4, GraphParts, EntryType
<1>6. path \in Path
  BY <1>5, InsertType DEF Path
<1> HIDE DEF hosts, path
<1>7. Insert(g.paths, t, path) \in Maps(Addrs, Path)
  BY <1>6, GraphParts, InsertType
<1>8. [g EXCEPT !.paths = Insert(g.paths, t, path), !.hosts = hosts] \in Graph
  BY <1>3, <1>7 DEF Graph
<1> QED
  BY <1>8 DEF PathHop, hosts, path
-----------------------------------------------------------------------------
(* Merging well-formed graphs gives a well-formed graph. *)

LEMMA RankRange == \A state \in PortStates : Rank(state) \in 1..5
BY DEF Rank, PortStates

LEMMA LargerType == \A m, n \in Scores : Larger(m, n) \in Scores
BY DEF Larger

LEMMA ScoresAreNat == Scores \subseteq Nat
BY LevelsPositive DEF Scores

LEMMA MergePortType == \A a, b \in Port : MergePort(a, b) \in Port
BY LargerType DEF MergePort, BetterState, Port

LEMMA MergeSessionType == \A a, b \in Session : MergeSession(a, b) \in Session
BY LargerType DEF MergeSession, OrElse, Session

LEMMA MergePortsType ==
  ASSUME NEW a \in Maps(Ports, Port), NEW b \in Maps(Ports, Port)
  PROVE  MergeMaps(a, b, MergePort) \in Maps(Ports, Port)
<1> DEFINE m == MergeMaps(a, b, MergePort)
<1>1. m = [k \in DOMAIN a \cup DOMAIN b |-> m[k]]
  BY DEF MergeMaps
<1>2. /\ \A k \in DOMAIN a \ DOMAIN b : m[k] = a[k]
      /\ \A k \in DOMAIN b \ DOMAIN a : m[k] = b[k]
      /\ \A k \in DOMAIN a \cap DOMAIN b : m[k] = MergePort(a[k], b[k])
  BY DEF MergeMaps
<1> HIDE DEF m
<1>3. \A k \in DOMAIN a \cap DOMAIN b : m[k] \in Port
  BY <1>2, MapOf, MergePortType
<1>4. m \in Maps(Ports, Port)
  BY <1>1, <1>2, <1>3, MergeMapsType
<1> QED
  BY <1>4 DEF m

LEMMA MergeHostType == \A a, b \in Host : MergeHost(a, b) \in Host
<1> SUFFICES ASSUME NEW a \in Host, NEW b \in Host
             PROVE  MergeHost(a, b) \in Host
  OBVIOUS
<1>1. MergeMaps(a.ports, b.ports, MergePort) \in Maps(Ports, Port)
  BY MergePortsType DEF Host
<1>2. /\ OrElse(a.hostname, b.hostname) \in Texts \cup {None}
      /\ OrElse(a.detail, b.detail) \in Texts \cup {None}
  BY DEF OrElse, Host
<1>3. Larger(a.os, b.os) \in Scores /\ Larger(a.ttl, b.ttl) \in Scores
  BY LargerType DEF Host
<1>4. a.findings \cup b.findings \in SUBSET ((Ports \cup {0}) \X Texts)
  BY DEF Host
<1>5. (a.up \/ b.up) \in BOOLEAN
  BY DEF Host
<1> DEFINE found == a.findings \cup b.findings
           merged_ports == MergeMaps(a.ports, b.ports, MergePort)
<1> HIDE DEF found, merged_ports
<1>6. [up |-> a.up \/ b.up,
       hostname |-> OrElse(a.hostname, b.hostname),
       detail |-> OrElse(a.detail, b.detail),
       os |-> Larger(a.os, b.os),
       ttl |-> Larger(a.ttl, b.ttl),
       ports |-> merged_ports,
       findings |-> found] \in Host
  BY <1>1, <1>2, <1>3, <1>4, <1>5 DEF Host, found, merged_ports
<1> QED
  BY <1>6 DEF MergeHost, found, merged_ports

LEMMA MergePathType == \A a, b \in Path : MergePath(a, b) \in Path
<1> SUFFICES ASSUME NEW a \in Path, NEW b \in Path
             PROVE  MergePath(a, b) \in Path
  OBVIOUS
<1> DEFINE V == Addrs \cup {None}
<1>0. a \in Maps(Hops, V) /\ b \in Maps(Hops, V)
  BY DEF Path
<1> DEFINE m == MergePath(a, b)
<1>1. m = [k \in DOMAIN a \cup DOMAIN b |-> m[k]]
  BY DEF MergePath, MergeMaps
<1>2. /\ \A k \in DOMAIN a \ DOMAIN b : m[k] = a[k]
      /\ \A k \in DOMAIN b \ DOMAIN a : m[k] = b[k]
      /\ \A k \in DOMAIN a \cap DOMAIN b : m[k] = MergeHop(a[k], b[k])
  BY DEF MergePath, MergeMaps
<1> HIDE DEF m, V
<1>3. \A k \in DOMAIN a \cap DOMAIN b : m[k] \in V
  BY <1>0, <1>2, MapOf DEF MergeHop
<1>4. m \in Maps(Hops, V)
  BY <1>0, <1>1, <1>2, <1>3, MergeMapsType
<1> QED
  BY <1>4 DEF m, V, Path

LEMMA MergeFromType ==
  ASSUME NEW g \in Graph, NEW h \in Graph
  PROVE  MergeFrom(g, h) \in Graph
<1>1. MergeMaps(g.hosts, h.hosts, MergeHost) \in Maps(Addrs, Host)
  <2> DEFINE a == g.hosts
             b == h.hosts
             m == MergeMaps(a, b, MergeHost)
  <2>0. a \in Maps(Addrs, Host) /\ b \in Maps(Addrs, Host)
    BY GraphParts
  <2> HIDE DEF a, b
  <2>1. m = [k \in DOMAIN a \cup DOMAIN b |-> m[k]]
    BY DEF MergeMaps
  <2>2. /\ \A k \in DOMAIN a \ DOMAIN b : m[k] = a[k]
        /\ \A k \in DOMAIN b \ DOMAIN a : m[k] = b[k]
        /\ \A k \in DOMAIN a \cap DOMAIN b : m[k] = MergeHost(a[k], b[k])
    BY DEF MergeMaps
  <2> HIDE DEF m
  <2>3. \A k \in DOMAIN a \cap DOMAIN b : m[k] \in Host
    BY <2>0, <2>2, MapOf, MergeHostType
  <2>4. m \in Maps(Addrs, Host)
    BY <2>0, <2>1, <2>2, <2>3, MergeMapsType
  <2> QED
    BY <2>4 DEF m, a, b
<1>2. MergeMaps(g.dns, h.dns, Union) \in Maps(Texts \cup Addrs, SUBSET (Texts \cup Addrs))
  <2> DEFINE K == Texts \cup Addrs
             V == SUBSET (Texts \cup Addrs)
             a == g.dns
             b == h.dns
             m == MergeMaps(a, b, Union)
  <2>0. a \in Maps(K, V) /\ b \in Maps(K, V)
    BY GraphParts
  <2> HIDE DEF a, b
  <2>1. m = [k \in DOMAIN a \cup DOMAIN b |-> m[k]]
    BY DEF MergeMaps
  <2>2. /\ \A k \in DOMAIN a \ DOMAIN b : m[k] = a[k]
        /\ \A k \in DOMAIN b \ DOMAIN a : m[k] = b[k]
        /\ \A k \in DOMAIN a \cap DOMAIN b : m[k] = a[k] \cup b[k]
    BY DEF MergeMaps, Union
  <2> HIDE DEF m
  <2>3. \A k \in DOMAIN a \cap DOMAIN b : m[k] \in V
    <3> SUFFICES ASSUME NEW k \in DOMAIN a \cap DOMAIN b
                 PROVE  a[k] \cup b[k] \in V
      BY <2>2
    <3>1. a[k] \in V /\ b[k] \in V
      <4> HIDE DEF K, V
      <4> QED  BY <2>0, MapOf
    <3> QED
      BY <3>1
  <2> HIDE DEF K, V
  <2>4. m \in Maps(K, V)
    BY <2>0, <2>1, <2>2, <2>3, MergeMapsType
  <2> QED
    BY <2>4 DEF m, a, b, K, V
<1>3. MergeMaps(g.paths, h.paths, MergePath) \in Maps(Addrs, Path)
  <2> DEFINE a == g.paths
             b == h.paths
             m == MergeMaps(a, b, MergePath)
  <2>0. a \in Maps(Addrs, Path) /\ b \in Maps(Addrs, Path)
    BY GraphParts
  <2> HIDE DEF a, b
  <2>1. m = [k \in DOMAIN a \cup DOMAIN b |-> m[k]]
    BY DEF MergeMaps
  <2>2. /\ \A k \in DOMAIN a \ DOMAIN b : m[k] = a[k]
        /\ \A k \in DOMAIN b \ DOMAIN a : m[k] = b[k]
        /\ \A k \in DOMAIN a \cap DOMAIN b : m[k] = MergePath(a[k], b[k])
    BY DEF MergeMaps
  <2> HIDE DEF m
  <2>3. \A k \in DOMAIN a \cap DOMAIN b : m[k] \in Path
    BY <2>0, <2>2, MapOf, MergePathType
  <2>4. m \in Maps(Addrs, Path)
    BY <2>0, <2>1, <2>2, <2>3, MergeMapsType
  <2> QED
    BY <2>4 DEF m, a, b
<1>4. MergeMaps(g.sessions, h.sessions, MergeSession) \in Maps(Ids, Session)
  <2> DEFINE a == g.sessions
             b == h.sessions
             m == MergeMaps(a, b, MergeSession)
  <2>0. a \in Maps(Ids, Session) /\ b \in Maps(Ids, Session)
    BY GraphParts
  <2> HIDE DEF a, b
  <2>1. m = [k \in DOMAIN a \cup DOMAIN b |-> m[k]]
    BY DEF MergeMaps
  <2>2. /\ \A k \in DOMAIN a \ DOMAIN b : m[k] = a[k]
        /\ \A k \in DOMAIN b \ DOMAIN a : m[k] = b[k]
        /\ \A k \in DOMAIN a \cap DOMAIN b : m[k] = MergeSession(a[k], b[k])
    BY DEF MergeMaps
  <2> HIDE DEF m
  <2>3. \A k \in DOMAIN a \cap DOMAIN b : m[k] \in Session
    BY <2>0, <2>2, MapOf, MergeSessionType
  <2>4. m \in Maps(Ids, Session)
    BY <2>0, <2>1, <2>2, <2>3, MergeMapsType
  <2> QED
    BY <2>4 DEF m, a, b
<1> QED
  BY <1>1, <1>2, <1>3, <1>4 DEF MergeFrom, Graph
-----------------------------------------------------------------------------
(* The order on graphs. *)

LEMMA FilledOrder ==
  \A a, b, c : Filled(a, a) /\ (Filled(a, b) /\ Filled(b, c) => Filled(a, c))
BY DEF Filled

LEMMA ScoreOrder ==
  /\ \A m \in Scores : m <= m
  /\ \A k, m, n \in Scores : k <= m /\ m <= n => k <= n
<1>1. \A k \in Scores : k \in Nat
  BY ScoresAreNat
<1>2. \A k, m, n \in Nat : k <= k /\ (k <= m /\ m <= n => k <= n)
  OBVIOUS
<1> QED
  BY <1>1, <1>2

LEMMA RankOrder ==
  /\ \A x \in PortStates : Rank(x) <= Rank(x)
  /\ \A x, y, z \in PortStates : Rank(x) <= Rank(y) /\ Rank(y) <= Rank(z) => Rank(x) <= Rank(z)
<1>1. \A k, m, n \in 1..5 : k <= k /\ (k <= m /\ m <= n => k <= n)
  OBVIOUS
<1> QED
  BY <1>1, RankRange

LEMMA PortParts ==
  ASSUME NEW a \in Port
  PROVE  a.state \in PortStates /\ a.service \in Scores /\ a.banner \in Scores
BY DEF Port

LEMMA PortReflexive == \A a \in Port : PortBelow(a, a)
BY PortParts, RankOrder, ScoreOrder DEF PortBelow

LEMMA PortTransitive ==
  \A a, b, c \in Port : PortBelow(a, b) /\ PortBelow(b, c) => PortBelow(a, c)
<1> SUFFICES ASSUME NEW a \in Port, NEW b \in Port, NEW c \in Port,
                    PortBelow(a, b), PortBelow(b, c)
             PROVE  PortBelow(a, c)
  OBVIOUS
<1>1. /\ a.state \in PortStates /\ a.service \in Scores /\ a.banner \in Scores
      /\ b.state \in PortStates /\ b.service \in Scores /\ b.banner \in Scores
      /\ c.state \in PortStates /\ c.service \in Scores /\ c.banner \in Scores
  BY PortParts
<1> QED
  BY <1>1, RankOrder, ScoreOrder DEF PortBelow

LEMMA SessionReflexive == \A a \in Session : SessionBelow(a, a)
<1>1. \A a \in Session : a.lines \in Scores
  BY DEF Session
<1> QED
  BY <1>1, ScoreOrder, FilledOrder DEF SessionBelow

LEMMA SessionTransitive ==
  \A a, b, c \in Session :
    SessionBelow(a, b) /\ SessionBelow(b, c) => SessionBelow(a, c)
<1>1. \A a \in Session : a.lines \in Scores
  BY DEF Session
<1> QED
  BY <1>1, ScoreOrder, FilledOrder DEF SessionBelow

LEMMA PathReflexive == \A a \in Path : PathBelow(a, a)
BY FilledOrder DEF PathBelow, MapBelow

LEMMA PathTransitive ==
  \A a, b, c \in Path : PathBelow(a, b) /\ PathBelow(b, c) => PathBelow(a, c)
BY FilledOrder DEF PathBelow, MapBelow

LEMMA HostParts ==
  ASSUME NEW a \in Host
  PROVE  a.ports \in Maps(Ports, Port) /\ a.os \in Scores /\ a.ttl \in Scores
BY DEF Host

LEMMA HostReflexive == \A a \in Host : HostBelow(a, a)
<1> SUFFICES ASSUME NEW a \in Host
             PROVE  HostBelow(a, a)
  OBVIOUS
<1>1. MapBelow(a.ports, a.ports, PortBelow)
  <2>1. \A p \in DOMAIN a.ports : a.ports[p] \in Port
    BY MapOf DEF Host
  <2> QED
    BY <2>1, PortReflexive DEF MapBelow
<1>2. a.os <= a.os /\ a.ttl <= a.ttl
  BY HostParts, ScoreOrder
<1> QED
  BY <1>1, <1>2, FilledOrder DEF HostBelow

LEMMA HostTransitive ==
  \A a, b, c \in Host : HostBelow(a, b) /\ HostBelow(b, c) => HostBelow(a, c)
<1> SUFFICES ASSUME NEW a \in Host, NEW b \in Host, NEW c \in Host,
                    HostBelow(a, b), HostBelow(b, c)
             PROVE  HostBelow(a, c)
  OBVIOUS
<1>1. /\ MapBelow(a.ports, b.ports, PortBelow)
      /\ MapBelow(b.ports, c.ports, PortBelow)
  BY DEF HostBelow
<1>2. MapBelow(a.ports, c.ports, PortBelow)
  <2>1. /\ \A p \in DOMAIN a.ports : a.ports[p] \in Port
        /\ \A p \in DOMAIN b.ports : b.ports[p] \in Port
        /\ \A p \in DOMAIN c.ports : c.ports[p] \in Port
    BY MapOf DEF Host
  <2>2. DOMAIN a.ports \subseteq DOMAIN b.ports /\ DOMAIN b.ports \subseteq DOMAIN c.ports
    BY <1>1 DEF MapBelow
  <2>3. ASSUME NEW p \in DOMAIN a.ports
        PROVE  PortBelow(a.ports[p], c.ports[p])
    <3>1. PortBelow(a.ports[p], b.ports[p]) /\ PortBelow(b.ports[p], c.ports[p])
      BY <1>1, <2>2 DEF MapBelow
    <3> QED
      BY <3>1, <2>1, <2>2, PortTransitive
  <2> QED
    BY <2>2, <2>3 DEF MapBelow
<1>3. a.os <= c.os /\ a.ttl <= c.ttl
  <2>1. /\ a.os \in Scores /\ b.os \in Scores /\ c.os \in Scores
        /\ a.ttl \in Scores /\ b.ttl \in Scores /\ c.ttl \in Scores
    BY HostParts
  <2> QED
    BY <2>1, ScoreOrder DEF HostBelow
<1>4. (a.up => c.up) /\ a.findings \subseteq c.findings
  BY DEF HostBelow
<1>5. Filled(a.hostname, c.hostname) /\ Filled(a.detail, c.detail)
  BY FilledOrder DEF HostBelow
<1> QED
  BY <1>2, <1>3, <1>4, <1>5 DEF HostBelow

LEMMA GraphTransitive ==
  ASSUME NEW f \in Graph, NEW g \in Graph, NEW h \in Graph,
         GraphBelow(f, g), GraphBelow(g, h)
  PROVE  GraphBelow(f, h)
<1>1. MapBelow(f.hosts, h.hosts, HostBelow)
  <2>1. /\ \A a \in DOMAIN f.hosts : f.hosts[a] \in Host
        /\ \A a \in DOMAIN g.hosts : g.hosts[a] \in Host
        /\ \A a \in DOMAIN h.hosts : h.hosts[a] \in Host
    BY GraphParts, MapOf
  <2>2. /\ DOMAIN f.hosts \subseteq DOMAIN g.hosts
        /\ DOMAIN g.hosts \subseteq DOMAIN h.hosts
        /\ \A a \in DOMAIN f.hosts : HostBelow(f.hosts[a], g.hosts[a])
        /\ \A a \in DOMAIN g.hosts : HostBelow(g.hosts[a], h.hosts[a])
    BY DEF GraphBelow, MapBelow
  <2>3. \A a \in DOMAIN f.hosts : HostBelow(f.hosts[a], h.hosts[a])
    BY <2>1, <2>2, HostTransitive
  <2> QED
    BY <2>2, <2>3 DEF MapBelow
<1>2. MapBelow(f.dns, h.dns, SetBelow)
  <2>1. /\ DOMAIN f.dns \subseteq DOMAIN g.dns
        /\ DOMAIN g.dns \subseteq DOMAIN h.dns
        /\ \A n \in DOMAIN f.dns : f.dns[n] \subseteq g.dns[n]
        /\ \A n \in DOMAIN g.dns : g.dns[n] \subseteq h.dns[n]
    BY DEF GraphBelow, MapBelow, SetBelow
  <2>2. ASSUME NEW n \in DOMAIN f.dns
        PROVE  f.dns[n] \subseteq h.dns[n]
    <3>1. f.dns[n] \subseteq g.dns[n] /\ g.dns[n] \subseteq h.dns[n]
      BY <2>1
    <3> QED
      BY <3>1
  <2> QED
    BY <2>1, <2>2 DEF MapBelow, SetBelow
<1>3. MapBelow(f.paths, h.paths, PathBelow)
  <2>1. /\ \A a \in DOMAIN f.paths : f.paths[a] \in Path
        /\ \A a \in DOMAIN g.paths : g.paths[a] \in Path
        /\ \A a \in DOMAIN h.paths : h.paths[a] \in Path
    BY GraphParts, MapOf
  <2>2. /\ DOMAIN f.paths \subseteq DOMAIN g.paths
        /\ DOMAIN g.paths \subseteq DOMAIN h.paths
        /\ \A a \in DOMAIN f.paths : PathBelow(f.paths[a], g.paths[a])
        /\ \A a \in DOMAIN g.paths : PathBelow(g.paths[a], h.paths[a])
    BY DEF GraphBelow, MapBelow
  <2>3. \A a \in DOMAIN f.paths : PathBelow(f.paths[a], h.paths[a])
    BY <2>1, <2>2, PathTransitive
  <2> QED
    BY <2>2, <2>3 DEF MapBelow
<1>4. MapBelow(f.sessions, h.sessions, SessionBelow)
  <2>1. /\ \A i \in DOMAIN f.sessions : f.sessions[i] \in Session
        /\ \A i \in DOMAIN g.sessions : g.sessions[i] \in Session
        /\ \A i \in DOMAIN h.sessions : h.sessions[i] \in Session
    BY GraphParts, MapOf
  <2>2. /\ DOMAIN f.sessions \subseteq DOMAIN g.sessions
        /\ DOMAIN g.sessions \subseteq DOMAIN h.sessions
        /\ \A i \in DOMAIN f.sessions : SessionBelow(f.sessions[i], g.sessions[i])
        /\ \A i \in DOMAIN g.sessions : SessionBelow(g.sessions[i], h.sessions[i])
    BY DEF GraphBelow, MapBelow
  <2>3. \A i \in DOMAIN f.sessions : SessionBelow(f.sessions[i], h.sessions[i])
    BY <2>1, <2>2, SessionTransitive
  <2> QED
    BY <2>2, <2>3 DEF MapBelow
<1> QED
  BY <1>1, <1>2, <1>3, <1>4 DEF GraphBelow
-----------------------------------------------------------------------------
(* A merge is above both graphs. *)

LEMMA LargerAbove ==
  \A m, n \in Scores : m <= Larger(m, n) /\ n <= Larger(m, n)
<1>1. \A m, n \in Nat : m <= Larger(m, n) /\ n <= Larger(m, n)
  BY DEF Larger
<1> QED
  BY <1>1, ScoresAreNat

LEMMA BetterStateAbove ==
  \A x, y \in PortStates : /\ Rank(x) <= Rank(BetterState(x, y))
                           /\ Rank(y) <= Rank(BetterState(x, y))
<1>1. \A m, n \in 1..5 : m <= m /\ (~(n > m) => n <= m) /\ (n > m => m <= n)
  OBVIOUS
<1> QED
  BY <1>1, RankRange DEF BetterState

LEMMA OrElseAbove ==
  \A x, y : Filled(x, OrElse(x, y)) /\ Filled(y, OrElse(x, y))
BY DEF Filled, OrElse

LEMMA MergePortAbove ==
  \A a, b \in Port : PortBelow(a, MergePort(a, b)) /\ PortBelow(b, MergePort(a, b))
BY PortParts, LargerAbove, BetterStateAbove DEF PortBelow, MergePort

LEMMA MergeHostAbove ==
  \A a, b \in Host : HostBelow(a, MergeHost(a, b)) /\ HostBelow(b, MergeHost(a, b))
<1> SUFFICES ASSUME NEW a \in Host, NEW b \in Host
             PROVE  HostBelow(a, MergeHost(a, b)) /\ HostBelow(b, MergeHost(a, b))
  OBVIOUS
<1> DEFINE m == MergeMaps(a.ports, b.ports, MergePort)
<1>1. MapBelow(a.ports, m, PortBelow) /\ MapBelow(b.ports, m, PortBelow)
  <2>1. /\ \A p \in DOMAIN a.ports : a.ports[p] \in Port
        /\ \A p \in DOMAIN b.ports : b.ports[p] \in Port
    BY HostParts, MapOf
  <2>2. /\ DOMAIN m = DOMAIN a.ports \cup DOMAIN b.ports
        /\ \A p \in DOMAIN a.ports \ DOMAIN b.ports : m[p] = a.ports[p]
        /\ \A p \in DOMAIN b.ports \ DOMAIN a.ports : m[p] = b.ports[p]
        /\ \A p \in DOMAIN a.ports \cap DOMAIN b.ports :
             m[p] = MergePort(a.ports[p], b.ports[p])
    BY DEF MergeMaps
  <2> HIDE DEF m
  <2>3. ASSUME NEW p \in DOMAIN a.ports
        PROVE  PortBelow(a.ports[p], m[p])
    BY <2>1, <2>2, MergePortAbove, PortReflexive
  <2>4. ASSUME NEW p \in DOMAIN b.ports
        PROVE  PortBelow(b.ports[p], m[p])
    BY <2>1, <2>2, MergePortAbove, PortReflexive
  <2> QED
    BY <2>2, <2>3, <2>4 DEF MapBelow
<1> HIDE DEF m
<1>2. /\ a.os <= Larger(a.os, b.os) /\ b.os <= Larger(a.os, b.os)
      /\ a.ttl <= Larger(a.ttl, b.ttl) /\ b.ttl <= Larger(a.ttl, b.ttl)
  BY HostParts, LargerAbove
<1> DEFINE h == MergeHost(a, b)
<1>3. /\ h.hostname = OrElse(a.hostname, b.hostname)
      /\ h.detail = OrElse(a.detail, b.detail)
      /\ h.os = Larger(a.os, b.os)
      /\ h.ttl = Larger(a.ttl, b.ttl)
      /\ h.ports = m
      /\ h.findings = a.findings \cup b.findings
  BY DEF MergeHost, m
<1>4. (a.up => h.up) /\ (b.up => h.up)
  BY DEF MergeHost, Host
<1> HIDE DEF h
<1> QED
  BY <1>1, <1>2, <1>3, <1>4, OrElseAbove DEF HostBelow, h

LEMMA MergePathAbove ==
  \A a, b \in Path : PathBelow(a, MergePath(a, b)) /\ PathBelow(b, MergePath(a, b))
BY DEF MergePath, MergeMaps, MergeHop, PathBelow, MapBelow, Filled

LEMMA MergeSessionAbove ==
  \A a, b \in Session :
    SessionBelow(a, MergeSession(a, b)) /\ SessionBelow(b, MergeSession(a, b))
<1>1. \A a \in Session : a.lines \in Scores
  BY DEF Session
<1> QED
  BY <1>1, LargerAbove, OrElseAbove DEF SessionBelow, MergeSession

\* merge_from loses nothing of either graph.
THEOREM MergeAbove ==
  ASSUME NEW g \in Graph, NEW h \in Graph
  PROVE  GraphBelow(g, MergeFrom(g, h)) /\ GraphBelow(h, MergeFrom(g, h))
<1> DEFINE m == MergeFrom(g, h)
<1>1. MapBelow(g.hosts, m.hosts, HostBelow) /\ MapBelow(h.hosts, m.hosts, HostBelow)
  <2>1. /\ \A a \in DOMAIN g.hosts : g.hosts[a] \in Host
        /\ \A a \in DOMAIN h.hosts : h.hosts[a] \in Host
    BY GraphParts, MapOf
  <2>2. /\ DOMAIN m.hosts = DOMAIN g.hosts \cup DOMAIN h.hosts
        /\ \A a \in DOMAIN g.hosts \ DOMAIN h.hosts : m.hosts[a] = g.hosts[a]
        /\ \A a \in DOMAIN h.hosts \ DOMAIN g.hosts : m.hosts[a] = h.hosts[a]
        /\ \A a \in DOMAIN g.hosts \cap DOMAIN h.hosts :
             m.hosts[a] = MergeHost(g.hosts[a], h.hosts[a])
    BY DEF MergeFrom, MergeMaps
  <2> HIDE DEF m
  <2>3. /\ \A a \in DOMAIN g.hosts : HostBelow(g.hosts[a], m.hosts[a])
        /\ \A a \in DOMAIN h.hosts : HostBelow(h.hosts[a], m.hosts[a])
    BY <2>1, <2>2, MergeHostAbove, HostReflexive
  <2> QED
    BY <2>2, <2>3 DEF MapBelow
<1>2. MapBelow(g.dns, m.dns, SetBelow) /\ MapBelow(h.dns, m.dns, SetBelow)
  BY DEF MergeFrom, MergeMaps, Union, MapBelow, SetBelow
<1>3. MapBelow(g.paths, m.paths, PathBelow) /\ MapBelow(h.paths, m.paths, PathBelow)
  <2>1. /\ \A a \in DOMAIN g.paths : g.paths[a] \in Path
        /\ \A a \in DOMAIN h.paths : h.paths[a] \in Path
    BY GraphParts, MapOf
  <2>2. /\ DOMAIN m.paths = DOMAIN g.paths \cup DOMAIN h.paths
        /\ \A a \in DOMAIN g.paths \ DOMAIN h.paths : m.paths[a] = g.paths[a]
        /\ \A a \in DOMAIN h.paths \ DOMAIN g.paths : m.paths[a] = h.paths[a]
        /\ \A a \in DOMAIN g.paths \cap DOMAIN h.paths :
             m.paths[a] = MergePath(g.paths[a], h.paths[a])
    BY DEF MergeFrom, MergeMaps
  <2> HIDE DEF m
  <2>3. /\ \A a \in DOMAIN g.paths : PathBelow(g.paths[a], m.paths[a])
        /\ \A a \in DOMAIN h.paths : PathBelow(h.paths[a], m.paths[a])
    BY <2>1, <2>2, MergePathAbove, PathReflexive
  <2> QED
    BY <2>2, <2>3 DEF MapBelow
<1>4. /\ MapBelow(g.sessions, m.sessions, SessionBelow)
      /\ MapBelow(h.sessions, m.sessions, SessionBelow)
  <2>1. /\ \A i \in DOMAIN g.sessions : g.sessions[i] \in Session
        /\ \A i \in DOMAIN h.sessions : h.sessions[i] \in Session
    BY GraphParts, MapOf
  <2>2. /\ DOMAIN m.sessions = DOMAIN g.sessions \cup DOMAIN h.sessions
        /\ \A i \in DOMAIN g.sessions \ DOMAIN h.sessions : m.sessions[i] = g.sessions[i]
        /\ \A i \in DOMAIN h.sessions \ DOMAIN g.sessions : m.sessions[i] = h.sessions[i]
        /\ \A i \in DOMAIN g.sessions \cap DOMAIN h.sessions :
             m.sessions[i] = MergeSession(g.sessions[i], h.sessions[i])
    BY DEF MergeFrom, MergeMaps
  <2> HIDE DEF m
  <2>3. /\ \A i \in DOMAIN g.sessions : SessionBelow(g.sessions[i], m.sessions[i])
        /\ \A i \in DOMAIN h.sessions : SessionBelow(h.sessions[i], m.sessions[i])
    BY <2>1, <2>2, MergeSessionAbove, SessionReflexive
  <2> QED
    BY <2>2, <2>3 DEF MapBelow
<1> QED
  BY <1>1, <1>2, <1>3, <1>4 DEF GraphBelow
-----------------------------------------------------------------------------
(* Type correctness. *)

\* What Apply needs to keep the types: a graph that keeps the sessions open.
LEMMA ApplyType ==
  ASSUME TypeOK, NEW g \in Graph, Apply(g), talking' \in SUBSET DOMAIN g.sessions
  PROVE  TypeOK'
<1>1. events' \in 0..MaxEvents
  BY MaxEventsNatural DEF TypeOK, Apply
<1> QED
  BY <1>1 DEF TypeOK, Apply

LEMMA ToldType ==
  ASSUME TypeOK, NEW a \in Addrs, NEW h \in Host, Told(a, h)
  PROVE  TypeOK'
<1>1. SetHost(live, a, h) \in Graph
  BY SetHostType DEF TypeOK
<1>2. SetHost(live, a, h).sessions = live.sessions
  BY DEF SetHost, TypeOK, Graph
<1> QED
  BY <1>1, <1>2, ApplyType DEF Told, TypeOK

\* Every graph is well formed, in every run of every command.
THEOREM TypeCorrect == Spec => []TypeOK
<1>1. Init => TypeOK
  BY EmptyGraphType, MaxEventsNatural DEF Init, TypeOK
<1>2. TypeOK /\ [Next]_vars => TypeOK'
  <2> SUFFICES ASSUME TypeOK, [Next]_vars
               PROVE  TypeOK'
    OBVIOUS
  <2>0. live \in Graph /\ workspace \in Graph /\ talking \in SUBSET DOMAIN live.sessions
    BY DEF TypeOK
  <2>1. ASSUME NEW a \in Addrs, Discover(a)
        PROVE  TypeOK'
    <3>1. HostOf(live, a) \in Host
      BY <2>0, HostOfType
    <3>2. CASE \E x \in Texts : Told(a, HostUp(HostOf(live, a), x))
      <4>1. \A x \in Texts : HostUp(HostOf(live, a), x) \in Host
        BY <3>1 DEF HostUp, Host
      <4> QED
        BY <3>2, <4>1, ToldType
    <3>3. CASE Told(a, HostDown(HostOf(live, a)))
      <4>1. HostDown(HostOf(live, a)) \in Host
        BY <3>1 DEF HostDown, Host
      <4> QED
        BY <3>3, <4>1, ToldType
    <3> QED
      BY <2>1, <3>2, <3>3 DEF Discover
  <2>2. ASSUME NEW a \in Addrs, Scan(a)
        PROVE  TypeOK'
    <3>1. PICK p \in Ports, protocol \in Protocols, state \in PortStates :
            Told(a, PortResult(HostOf(live, a), p, protocol, state))
      BY <2>2 DEF Scan
    <3>2. Insert(HostOf(live, a).ports, p, NewPort(protocol, state)) \in Maps(Ports, Port)
      BY <2>0, HostOfType, HostParts, PortIn, InsertType
    <3>3. PortResult(HostOf(live, a), p, protocol, state) \in Host
      BY <2>0, <3>2, HostOfType DEF PortResult, Host
    <3> QED
      BY <3>1, <3>3, ToldType
  <2>3. ASSUME NEW a \in Addrs, Identify(a)
        PROVE  TypeOK'
    <3> DEFINE h == HostOf(live, a)
    <3>1. h \in Host
      BY <2>0, HostOfType
    <3> HIDE DEF h
    <3>2. CASE \E p \in Ports, n \in Levels :
                 Told(a, Banner(h, p, n)) \/ Told(a, ServiceDetected(h, p, n))
      <4>1. \A p \in Ports, n \in Levels :
              Banner(h, p, n) \in Host /\ ServiceDetected(h, p, n) \in Host
        BY <3>1, PortEvents
      <4> QED
        BY <3>2, <4>1, ToldType
    <3>3. CASE \E p \in Ports, x \in Texts : Told(a, ProbeResult(h, p, x))
      <4>1. \A p \in Ports, x \in Texts : ProbeResult(h, p, x) \in Host
        BY <3>1, ProbeEvents
      <4> QED
        BY <3>3, <4>1, ToldType
    <3>4. CASE \E x \in Texts : Told(a, AsnInfo(h, x))
      <4>1. \A x \in Texts : AsnInfo(h, x) \in Host
        BY <3>1 DEF AsnInfo, Host
      <4> QED
        BY <3>4, <4>1, ToldType
    <3>5. CASE \E n \in Levels, ttl \in Levels \cup {0} : Told(a, OsGuess(h, n, ttl))
      <4>1. \A n \in Levels, ttl \in Levels \cup {0} : OsGuess(h, n, ttl) \in Host
        BY <3>1 DEF OsGuess, Larger, Host, Scores
      <4> QED
        BY <3>5, <4>1, ToldType
    <3> QED
      BY <2>3, <3>2, <3>3, <3>4, <3>5 DEF Identify, h
  <2>4. ASSUME NEW a \in Addrs, Test(a)
        PROVE  TypeOK'
    <3>1. \A p \in Ports \cup {0}, x \in Texts : MisconfigFinding(HostOf(live, a), p, x) \in Host
      BY <2>0, HostOfType, ProbeEvents
    <3> QED
      BY <2>4, <3>1, ToldType DEF Test
  <2>5. ASSUME NEW a \in Addrs, Resolve(a)
        PROVE  TypeOK'
    <3>1. ASSUME NEW g \in Graph, Apply(g), g.sessions = live.sessions
          PROVE  TypeOK'
      BY <2>0, <2>5, <3>1, ApplyType DEF Resolve
    <3>2. CASE \E x \in Texts : Apply(AddressRecord(live, x, a))
      <4>1. \A x \in Texts : /\ AddressRecord(live, x, a) \in Graph
                            /\ AddressRecord(live, x, a).sessions = live.sessions
        BY <2>0, AddressRecordType DEF AddressRecord, DnsRecord, SetHost, Graph
      <4> QED
        BY <3>1, <3>2, <4>1
    <3>3. CASE \E x \in Texts : Apply(PtrRecord(live, a, x))
      <4>1. \A x \in Texts : /\ PtrRecord(live, a, x) \in Graph
                            /\ PtrRecord(live, a, x).sessions = live.sessions
        BY <2>0, PtrRecordType DEF PtrRecord, DnsRecord, SetHost, Graph
      <4> QED
        BY <3>1, <3>3, <4>1
    <3>4. CASE \E x, value \in Texts : Apply(DnsRecord(live, x, value))
      <4>1. \A x, value \in Texts : /\ DnsRecord(live, x, value) \in Graph
                                   /\ DnsRecord(live, x, value).sessions = live.sessions
        BY <2>0, DnsRecordType DEF DnsRecord, Graph
      <4> QED
        BY <3>1, <3>4, <4>1
    <3> QED
      BY <2>5, <3>2, <3>3, <3>4 DEF Resolve
  <2>6. ASSUME NEW a \in Addrs, Trace(a)
        PROVE  TypeOK'
    <3>1. PICK hop \in Hops, via \in Addrs \cup {None} : Apply(PathHop(live, a, hop, via))
      BY <2>6 DEF Trace
    <3>2. PathHop(live, a, hop, via) \in Graph
      BY <2>0, PathHopType
    <3>3. PathHop(live, a, hop, via).sessions = live.sessions
      BY <2>0 DEF PathHop, Graph
    <3> QED
      BY <2>0, <2>6, <3>1, <3>2, <3>3, ApplyType DEF Trace
  <2>7. CASE Open
    <3>1. PICK id \in Ids : Apply(SessionOpened(live, id)) /\ talking' = talking \cup {id}
      BY <2>7 DEF Open
    <3>2. SessionOpened(live, id) \in Graph
      BY <2>0, SessionOpenedType
    <3>3. DOMAIN SessionOpened(live, id).sessions = DOMAIN live.sessions \cup {id}
      BY <2>0 DEF SessionOpened, Insert, Graph
    <3> QED
      BY <2>0, <3>1, <3>2, <3>3, ApplyType
  <2>8. CASE Close
    <3>1. PICK id \in talking :
            /\ \/ Apply(SessionClosed(live, id))
               \/ \E a \in Addrs, note \in Texts, n \in Levels \cup {0} :
                    Apply(FinishSession(live, id, a, note, n))
            /\ talking' = talking \ {id}
      BY <2>8 DEF Close
    <3>2. id \in DOMAIN live.sessions
      BY <2>0
    <3>3. CASE Apply(SessionClosed(live, id))
      <4>1. SessionClosed(live, id) \in Graph
        BY <2>0, <3>2, SessionClosedType
      <4>2. DOMAIN SessionClosed(live, id).sessions = DOMAIN live.sessions
        BY <2>0, <3>2 DEF SessionClosed, Graph
      <4> QED
        BY <2>0, <3>1, <3>3, <4>1, <4>2, ApplyType
    <3>4. CASE \E a \in Addrs, note \in Texts, n \in Levels \cup {0} :
                 Apply(FinishSession(live, id, a, note, n))
      <4>1. PICK a \in Addrs, note \in Texts, n \in Scores :
              Apply(FinishSession(live, id, a, note, n))
        BY <3>4 DEF Scores
      <4>2. FinishSession(live, id, a, note, n) \in Graph
        BY <2>0, <3>2, FinishSessionType
      <4>3. DOMAIN FinishSession(live, id, a, note, n).sessions = DOMAIN live.sessions
        BY <2>0, <3>2 DEF FinishSession, SetHost, Graph
      <4> QED
        BY <2>0, <3>1, <4>1, <4>2, <4>3, ApplyType
    <3> QED
      BY <3>1, <3>3, <3>4
  <2>9. CASE MergeAndSave
    <3>1. MergeFrom(workspace, live) \in Graph
      BY <2>0, MergeFromType
    <3> QED
      BY <2>9, <3>1 DEF MergeAndSave, TypeOK
  <2>10. CASE Start
    BY <2>10, EmptyGraphType DEF Start, TypeOK
  <2>11. CASE UNCHANGED vars
    BY <2>11 DEF vars, TypeOK
  <2> QED
    BY <2>1, <2>2, <2>3, <2>4, <2>5, <2>6, <2>7, <2>8, <2>9, <2>10, <2>11
    DEF Next, Module
<1> QED
  BY <1>1, <1>2, PTL DEF Spec
-----------------------------------------------------------------------------
(* The workspace accumulates. *)

\* Whatever was merged, the workspace still knows at least as much. That the
\* workspace only grows needs the order to be transitive, hence the types.
THEOREM Accumulation == Spec => []NothingIsLost
<1>1. Init => NothingIsLost
  BY DEF Init, NothingIsLost
<1>2. TypeOK /\ NothingIsLost /\ [Next]_vars => NothingIsLost'
  <2> SUFFICES ASSUME TypeOK, NothingIsLost, [Next]_vars
               PROVE  NothingIsLost'
    OBVIOUS
  <2>1. CASE MergeAndSave
    <3> DEFINE w == MergeFrom(workspace, live)
    <3>1. w \in Graph /\ GraphBelow(workspace, w) /\ GraphBelow(live, w)
      BY MergeFromType, MergeAbove DEF TypeOK
    <3>2. workspace' = w /\ merged' = merged \cup {live}
      BY <2>1 DEF MergeAndSave
    <3> HIDE DEF w
    <3>3. ASSUME NEW g \in merged
          PROVE  GraphBelow(g, w)
      <4>1. GraphBelow(g, workspace) /\ g \in Graph /\ workspace \in Graph
        BY DEF NothingIsLost, TypeOK
      <4> QED
        BY <3>1, <4>1, GraphTransitive
    <3>4. \A g \in merged' : GraphBelow(g, w)
      BY <3>1, <3>2, <3>3
    <3> QED
      BY <3>2, <3>4 DEF NothingIsLost
  <2>2. CASE UNCHANGED <<workspace, merged>>
    BY <2>2 DEF NothingIsLost
  <2>3. [Next]_vars => MergeAndSave \/ UNCHANGED <<workspace, merged>>
    BY DEF Next, Module, Discover, Scan, Identify, Test, Resolve, Trace, Open, Close,
           Start, Told, Apply, vars
  <2> QED
    BY <2>1, <2>2, <2>3
<1> QED
  BY <1>1, <1>2, TypeCorrect, PTL DEF Spec
-----------------------------------------------------------------------------
(* A merge of what is known already changes nothing but hops. *)

LEMMA LargerAbsorbs == \A m, n \in Scores : n <= m => Larger(m, n) = m
<1>1. \A m, n \in Nat : n <= m => Larger(m, n) = m
  BY DEF Larger
<1> QED
  BY <1>1, ScoresAreNat

LEMMA BetterStateAbsorbs ==
  \A x, y \in PortStates : Rank(y) <= Rank(x) => BetterState(x, y) = x
<1>1. \A m, n \in 1..5 : n <= m => ~(n > m)
  OBVIOUS
<1> QED
  BY <1>1, RankRange DEF BetterState

LEMMA OrElseAbsorbs == \A x, y : Filled(y, x) => OrElse(x, y) = x
BY DEF Filled, OrElse

LEMMA MergePortAbsorbs ==
  \A a, b \in Port : PortBelow(b, a) => MergePort(a, b) = a
<1> SUFFICES ASSUME NEW a \in Port, NEW b \in Port, PortBelow(b, a)
             PROVE  MergePort(a, b) = a
  OBVIOUS
<1>1. /\ BetterState(a.state, b.state) = a.state
      /\ Larger(a.service, b.service) = a.service
      /\ Larger(a.banner, b.banner) = a.banner
  BY PortParts, LargerAbsorbs, BetterStateAbsorbs DEF PortBelow
<1>2. a = [protocol |-> a.protocol, state |-> a.state,
           service |-> a.service, banner |-> a.banner]
  BY DEF Port
<1> QED
  BY <1>1, <1>2 DEF MergePort

LEMMA MergeHostAbsorbs ==
  \A a, b \in Host : HostBelow(b, a) => MergeHost(a, b) = a
<1> SUFFICES ASSUME NEW a \in Host, NEW b \in Host, HostBelow(b, a)
             PROVE  MergeHost(a, b) = a
  OBVIOUS
<1>1. MergeMaps(a.ports, b.ports, MergePort) = a.ports
  <2> DEFINE m == MergeMaps(a.ports, b.ports, MergePort)
  <2>1. /\ DOMAIN b.ports \subseteq DOMAIN a.ports
        /\ \A p \in DOMAIN b.ports : PortBelow(b.ports[p], a.ports[p])
    BY DEF HostBelow, MapBelow
  <2>2. /\ \A p \in DOMAIN a.ports : a.ports[p] \in Port
        /\ \A p \in DOMAIN b.ports : b.ports[p] \in Port
        /\ a.ports = [p \in DOMAIN a.ports |-> a.ports[p]]
    BY HostParts, MapOf
  <2>3. /\ m = [p \in DOMAIN a.ports |-> m[p]]
        /\ \A p \in DOMAIN a.ports \ DOMAIN b.ports : m[p] = a.ports[p]
        /\ \A p \in DOMAIN b.ports : m[p] = MergePort(a.ports[p], b.ports[p])
    BY <2>1 DEF MergeMaps
  <2> HIDE DEF m
  <2>4. \A p \in DOMAIN a.ports : m[p] = a.ports[p]
    BY <2>1, <2>2, <2>3, MergePortAbsorbs
  <2>5. m = a.ports
    BY <2>2, <2>3, <2>4
  <2> QED
    BY <2>5 DEF m
<1>2. Larger(a.os, b.os) = a.os /\ Larger(a.ttl, b.ttl) = a.ttl
  BY HostParts, LargerAbsorbs DEF HostBelow
<1>3. OrElse(a.hostname, b.hostname) = a.hostname /\ OrElse(a.detail, b.detail) = a.detail
  BY OrElseAbsorbs DEF HostBelow
<1>4. (a.up \/ b.up) = a.up
  BY DEF HostBelow, Host
<1>5. a.findings \cup b.findings = a.findings
  BY DEF HostBelow
<1>6. a = [up |-> a.up, hostname |-> a.hostname, detail |-> a.detail, os |-> a.os,
           ttl |-> a.ttl, ports |-> a.ports, findings |-> a.findings]
  BY DEF Host
<1> QED
  BY <1>1, <1>2, <1>3, <1>4, <1>5, <1>6 DEF MergeHost

LEMMA MergeSessionAbsorbs ==
  \A a, b \in Session : SessionBelow(b, a) => MergeSession(a, b) = a
<1> SUFFICES ASSUME NEW a \in Session, NEW b \in Session, SessionBelow(b, a)
             PROVE  MergeSession(a, b) = a
  OBVIOUS
<1>1. Larger(a.lines, b.lines) = a.lines
  BY LargerAbsorbs DEF Session, SessionBelow
<1>2. OrElse(a.note, b.note) = a.note
  BY OrElseAbsorbs DEF SessionBelow
<1>3. (a.closed \/ b.closed) = a.closed
  BY DEF SessionBelow, Session
<1>4. a = [closed |-> a.closed, note |-> a.note, lines |-> a.lines]
  BY DEF Session
<1> QED
  BY <1>1, <1>2, <1>3, <1>4 DEF MergeSession

LEMMA MergePathAbsorbs ==
  \A a, b \in Path : PathBelow(b, a) => PathBelow(MergePath(a, b), a)
<1> SUFFICES ASSUME NEW a \in Path, NEW b \in Path, PathBelow(b, a)
             PROVE  PathBelow(MergePath(a, b), a)
  OBVIOUS
<1>1. /\ DOMAIN b \subseteq DOMAIN a
      /\ \A k \in DOMAIN b : Filled(b[k], a[k])
  BY DEF PathBelow, MapBelow
<1> QED
  BY <1>1 DEF PathBelow, MapBelow, MergePath, MergeMaps, MergeHop, Filled

\* Merging what the workspace knows already changes no host, record or session.
THEOREM MergeAbsorbs ==
  ASSUME NEW g \in Graph, NEW h \in Graph, GraphBelow(h, g)
  PROVE  /\ MergeFrom(g, h).hosts = g.hosts
         /\ MergeFrom(g, h).dns = g.dns
         /\ MergeFrom(g, h).sessions = g.sessions
         /\ GraphBelow(MergeFrom(g, h), g)
<1> DEFINE m == MergeFrom(g, h)
<1>1. m.hosts = g.hosts
  <2>1. /\ DOMAIN h.hosts \subseteq DOMAIN g.hosts
        /\ \A a \in DOMAIN h.hosts : HostBelow(h.hosts[a], g.hosts[a])
    BY DEF GraphBelow, MapBelow
  <2>2. /\ \A a \in DOMAIN g.hosts : g.hosts[a] \in Host
        /\ \A a \in DOMAIN h.hosts : h.hosts[a] \in Host
        /\ g.hosts = [a \in DOMAIN g.hosts |-> g.hosts[a]]
    BY GraphParts, MapOf
  <2>3. /\ m.hosts = [a \in DOMAIN g.hosts |-> m.hosts[a]]
        /\ \A a \in DOMAIN g.hosts \ DOMAIN h.hosts : m.hosts[a] = g.hosts[a]
        /\ \A a \in DOMAIN h.hosts : m.hosts[a] = MergeHost(g.hosts[a], h.hosts[a])
    BY <2>1 DEF MergeFrom, MergeMaps
  <2> HIDE DEF m
  <2>4. \A a \in DOMAIN g.hosts : m.hosts[a] = g.hosts[a]
    BY <2>1, <2>2, <2>3, MergeHostAbsorbs
  <2> QED
    BY <2>2, <2>3, <2>4
<1>2. m.dns = g.dns
  <2>1. /\ DOMAIN h.dns \subseteq DOMAIN g.dns
        /\ \A n \in DOMAIN h.dns : h.dns[n] \subseteq g.dns[n]
    BY DEF GraphBelow, MapBelow, SetBelow
  <2>2. g.dns = [n \in DOMAIN g.dns |-> g.dns[n]]
    BY GraphParts, MapOf
  <2>3. /\ m.dns = [n \in DOMAIN g.dns |-> m.dns[n]]
        /\ \A n \in DOMAIN g.dns \ DOMAIN h.dns : m.dns[n] = g.dns[n]
        /\ \A n \in DOMAIN h.dns : m.dns[n] = g.dns[n] \cup h.dns[n]
    BY <2>1 DEF MergeFrom, MergeMaps, Union
  <2> HIDE DEF m
  <2>4. ASSUME NEW n \in DOMAIN h.dns
        PROVE  g.dns[n] \cup h.dns[n] = g.dns[n]
    <3>1. h.dns[n] \subseteq g.dns[n]
      BY <2>1
    <3> QED
      BY <3>1
  <2>5. \A n \in DOMAIN g.dns : m.dns[n] = g.dns[n]
    BY <2>3, <2>4
  <2> QED
    BY <2>2, <2>3, <2>5
<1>3. m.sessions = g.sessions
  <2>1. /\ DOMAIN h.sessions \subseteq DOMAIN g.sessions
        /\ \A i \in DOMAIN h.sessions : SessionBelow(h.sessions[i], g.sessions[i])
    BY DEF GraphBelow, MapBelow
  <2>2. /\ \A i \in DOMAIN g.sessions : g.sessions[i] \in Session
        /\ \A i \in DOMAIN h.sessions : h.sessions[i] \in Session
        /\ g.sessions = [i \in DOMAIN g.sessions |-> g.sessions[i]]
    BY GraphParts, MapOf
  <2>3. /\ m.sessions = [i \in DOMAIN g.sessions |-> m.sessions[i]]
        /\ \A i \in DOMAIN g.sessions \ DOMAIN h.sessions : m.sessions[i] = g.sessions[i]
        /\ \A i \in DOMAIN h.sessions :
             m.sessions[i] = MergeSession(g.sessions[i], h.sessions[i])
    BY <2>1 DEF MergeFrom, MergeMaps
  <2> HIDE DEF m
  <2>4. \A i \in DOMAIN g.sessions : m.sessions[i] = g.sessions[i]
    BY <2>1, <2>2, <2>3, MergeSessionAbsorbs
  <2> QED
    BY <2>2, <2>3, <2>4
<1>4. MapBelow(m.paths, g.paths, PathBelow)
  <2>1. /\ DOMAIN h.paths \subseteq DOMAIN g.paths
        /\ \A a \in DOMAIN h.paths : PathBelow(h.paths[a], g.paths[a])
    BY DEF GraphBelow, MapBelow
  <2>2. /\ \A a \in DOMAIN g.paths : g.paths[a] \in Path
        /\ \A a \in DOMAIN h.paths : h.paths[a] \in Path
    BY GraphParts, MapOf
  <2>3. /\ DOMAIN m.paths = DOMAIN g.paths
        /\ \A a \in DOMAIN g.paths \ DOMAIN h.paths : m.paths[a] = g.paths[a]
        /\ \A a \in DOMAIN h.paths : m.paths[a] = MergePath(g.paths[a], h.paths[a])
    BY <2>1 DEF MergeFrom, MergeMaps
  <2> HIDE DEF m
  <2>4. \A a \in DOMAIN m.paths : PathBelow(m.paths[a], g.paths[a])
    BY <2>1, <2>2, <2>3, MergePathAbsorbs, PathReflexive
  <2> QED
    BY <2>3, <2>4 DEF MapBelow
<1>5. /\ MapBelow(g.hosts, g.hosts, HostBelow)
      /\ MapBelow(g.dns, g.dns, SetBelow)
      /\ MapBelow(g.sessions, g.sessions, SessionBelow)
  <2>1. /\ \A a \in DOMAIN g.hosts : g.hosts[a] \in Host
        /\ \A i \in DOMAIN g.sessions : g.sessions[i] \in Session
    BY GraphParts, MapOf
  <2> QED
    BY <2>1, HostReflexive, SessionReflexive DEF MapBelow, SetBelow
<1> HIDE DEF m
<1>6. GraphBelow(m, g)
  BY <1>1, <1>2, <1>3, <1>4, <1>5 DEF GraphBelow
<1> QED
  BY <1>1, <1>2, <1>3, <1>6 DEF m

\* A graph merged once, however long ago, can be merged again without effect
\* on hosts, records and sessions: a consequence of Accumulation, not of what
\* was merged last.
THEOREM Idempotence == Spec => []StaleMergeAddsNothing
<1>1. TypeOK /\ NothingIsLost => StaleMergeAddsNothing
  <2> SUFFICES ASSUME TypeOK, NothingIsLost, NEW g \in merged
               PROVE  LET again == MergeFrom(workspace, g)
                      IN  /\ again.hosts = workspace.hosts
                          /\ again.dns = workspace.dns
                          /\ again.sessions = workspace.sessions
                          /\ GraphBelow(again, workspace)
    BY DEF StaleMergeAddsNothing
  <2>1. g \in Graph /\ workspace \in Graph /\ GraphBelow(g, workspace)
    BY DEF TypeOK, NothingIsLost
  <2> QED
    BY <2>1, MergeAbsorbs
<1> QED
  BY <1>1, TypeCorrect, Accumulation, PTL
-----------------------------------------------------------------------------
(* What the workspace knows comes from the graphs that were merged. *)

\* What a set of graphs knows of a host, and a set of hosts of a port.
KnownOf(a, graphs) == {g.hosts[a] : g \in {h \in graphs : a \in DOMAIN h.hosts}}
SeenAt(p, known) == {h.ports[p] : h \in {k \in known : p \in DOMAIN k.ports}}

PortTraced(port, seen) ==
  /\ \E s \in seen : s.state = port.state
  /\ \E s \in seen : s.service = port.service

HostTraced(host, known) ==
  /\ host.up => \E h \in known : h.up
  /\ \E h \in known : h.hostname = host.hostname
  /\ \E h \in known : h.os = host.os
  /\ host.findings \subseteq UNION {h.findings : h \in known}
  /\ \A p \in DOMAIN host.ports : PortTraced(host.ports[p], SeenAt(p, known))

SessionTraced(id, session, graphs) ==
  \E g \in graphs : id \in DOMAIN g.sessions /\ g.sessions[id].lines = session.lines

\* NothingIsInvented, by hosts and sessions.
LEMMA InventedByParts ==
  NothingIsInvented <=>
    /\ \A a \in DOMAIN workspace.hosts : HostTraced(workspace.hosts[a], KnownOf(a, merged))
    /\ \A id \in DOMAIN workspace.sessions : SessionTraced(id, workspace.sessions[id], merged)
BY DEF NothingIsInvented, HostTraced, PortTraced, SessionTraced, KnownOf, SeenAt

\* What a set knows, a larger one knows.
LEMMA TracedByMore ==
  ASSUME NEW host, NEW known, NEW more, known \subseteq more, HostTraced(host, known)
  PROVE  HostTraced(host, more)
<1>1. \A p : SeenAt(p, known) \subseteq SeenAt(p, more)
  BY DEF SeenAt
<1>2. UNION {h.findings : h \in known} \subseteq UNION {h.findings : h \in more}
  OBVIOUS
<1>3. \A p \in DOMAIN host.ports : PortTraced(host.ports[p], SeenAt(p, more))
  BY <1>1 DEF HostTraced, PortTraced
<1> QED
  BY <1>2, <1>3 DEF HostTraced

\* A host is traced to itself.
LEMMA TracedToItself ==
  ASSUME NEW known, NEW host \in known
  PROVE  HostTraced(host, known)
BY DEF HostTraced, PortTraced, SeenAt

\* A field of a merged port is that of one of the two, whichever is better.
LEMMA MergedPortTraced ==
  ASSUME NEW a, NEW b, NEW seen, PortTraced(a, seen), PortTraced(b, seen)
  PROVE  PortTraced(MergePort(a, b), seen)
<1>1. /\ MergePort(a, b).state \in {a.state, b.state}
      /\ MergePort(a, b).service \in {a.service, b.service}
  BY DEF MergePort, BetterState, Larger
<1> QED
  BY <1>1 DEF PortTraced

\* So it is with a merged host, and each of its ports is one of the two hosts'
\* or merged.
LEMMA MergedHostTraced ==
  ASSUME NEW a \in Host, NEW b \in Host, NEW known, HostTraced(a, known), HostTraced(b, known)
  PROVE  HostTraced(MergeHost(a, b), known)
<1> DEFINE m == MergeHost(a, b)
<1>1. /\ m.hostname \in {a.hostname, b.hostname}
      /\ m.os \in {a.os, b.os}
      /\ m.findings = a.findings \cup b.findings
  BY DEF MergeHost, OrElse, Larger
<1>2. m.up => a.up \/ b.up
  BY DEF MergeHost
<1>3. /\ DOMAIN m.ports = DOMAIN a.ports \cup DOMAIN b.ports
      /\ \A p \in DOMAIN a.ports \ DOMAIN b.ports : m.ports[p] = a.ports[p]
      /\ \A p \in DOMAIN b.ports \ DOMAIN a.ports : m.ports[p] = b.ports[p]
      /\ \A p \in DOMAIN a.ports \cap DOMAIN b.ports : m.ports[p] = MergePort(a.ports[p], b.ports[p])
  BY DEF MergeHost, MergeMaps
<1> HIDE DEF m
<1>4. ASSUME NEW p \in DOMAIN m.ports
      PROVE  PortTraced(m.ports[p], SeenAt(p, known))
  <2>1. /\ p \in DOMAIN a.ports => PortTraced(a.ports[p], SeenAt(p, known))
        /\ p \in DOMAIN b.ports => PortTraced(b.ports[p], SeenAt(p, known))
    BY DEF HostTraced
  <2> QED
    BY <1>3, <2>1, MergedPortTraced
<1>5. m.findings \subseteq UNION {h.findings : h \in known}
  BY <1>1 DEF HostTraced
<1>6. \E h \in known : h.hostname = m.hostname
  BY <1>1 DEF HostTraced
<1>7. \E h \in known : h.os = m.os
  BY <1>1 DEF HostTraced
<1>8. m.up => \E h \in known : h.up
  BY <1>2 DEF HostTraced
<1>9. HostTraced(m, known)
  BY <1>4, <1>5, <1>6, <1>7, <1>8 DEF HostTraced
<1> QED
  BY <1>9 DEF m

\* Merging never makes up a state, a score, a finding or a name, for any number
\* of runs: beside the types the property is inductive.
THEOREM NoInvention == Spec => []NothingIsInvented
<1>1. Init => NothingIsInvented
  BY DEF Init, EmptyGraph, EmptyMap, NothingIsInvented
<1>2. TypeOK /\ NothingIsInvented /\ [Next]_vars => NothingIsInvented'
  <2> SUFFICES ASSUME TypeOK, NothingIsInvented, [Next]_vars
               PROVE  NothingIsInvented'
    OBVIOUS
  <2>1. CASE MergeAndSave
    <3> DEFINE v == workspace
               w == MergeFrom(v, live)
               G == merged \cup {live}
    <3>1. workspace' = w /\ merged' = G
      BY <2>1 DEF MergeAndSave
    <3>2. /\ \A a \in DOMAIN v.hosts : v.hosts[a] \in Host
          /\ \A a \in DOMAIN live.hosts : live.hosts[a] \in Host
      BY GraphParts, MapOf DEF TypeOK
    <3>3. ASSUME NEW a \in DOMAIN w.hosts
          PROVE  HostTraced(w.hosts[a], KnownOf(a, G))
      <4>1. a \in DOMAIN v.hosts => HostTraced(v.hosts[a], KnownOf(a, G))
        <5>1. KnownOf(a, merged) \subseteq KnownOf(a, G)
          BY DEF KnownOf
        <5> QED
          BY <5>1, TracedByMore, InventedByParts
      <4>2. a \in DOMAIN live.hosts => HostTraced(live.hosts[a], KnownOf(a, G))
        <5>1. a \in DOMAIN live.hosts => live.hosts[a] \in KnownOf(a, G)
          BY DEF KnownOf
        <5> QED
          BY <5>1, TracedToItself
      <4>3. \/ a \in DOMAIN v.hosts \ DOMAIN live.hosts /\ w.hosts[a] = v.hosts[a]
            \/ a \in DOMAIN live.hosts \ DOMAIN v.hosts /\ w.hosts[a] = live.hosts[a]
            \/ /\ a \in DOMAIN v.hosts \cap DOMAIN live.hosts
               /\ w.hosts[a] = MergeHost(v.hosts[a], live.hosts[a])
        BY DEF MergeFrom, MergeMaps
      <4> QED
        BY <3>2, <4>1, <4>2, <4>3, MergedHostTraced
    <3>4. ASSUME NEW id \in DOMAIN w.sessions
          PROVE  SessionTraced(id, w.sessions[id], G)
      <4>1. id \in DOMAIN v.sessions => SessionTraced(id, v.sessions[id], G)
        BY InventedByParts DEF SessionTraced
      <4>2. id \in DOMAIN live.sessions => SessionTraced(id, live.sessions[id], G)
        BY DEF SessionTraced
      <4>3. \/ id \in DOMAIN v.sessions /\ w.sessions[id].lines = v.sessions[id].lines
            \/ id \in DOMAIN live.sessions /\ w.sessions[id].lines = live.sessions[id].lines
        BY DEF MergeFrom, MergeMaps, MergeSession, Larger
      <4> QED
        BY <4>1, <4>2, <4>3 DEF SessionTraced
    <3> HIDE DEF w, G
    <3>5. /\ \A a \in DOMAIN workspace'.hosts : HostTraced(workspace'.hosts[a], KnownOf(a, merged'))
          /\ \A id \in DOMAIN workspace'.sessions : SessionTraced(id, workspace'.sessions[id], merged')
      BY <3>1, <3>3, <3>4
    <3> QED
      BY <3>5 DEF NothingIsInvented, HostTraced, PortTraced, SessionTraced, KnownOf, SeenAt
  <2>2. CASE UNCHANGED <<workspace, merged>>
    BY <2>2 DEF NothingIsInvented
  <2>3. [Next]_vars => MergeAndSave \/ UNCHANGED <<workspace, merged>>
    BY DEF Next, Module, Discover, Scan, Identify, Test, Resolve, Trace, Open, Close,
           Start, Told, Apply, vars
  <2> QED
    BY <2>1, <2>2, <2>3
<1> QED
  BY <1>1, <1>2, TypeCorrect, PTL DEF Spec
-----------------------------------------------------------------------------
(* A merge knows no more than the two graphs together, so that the order of *)
(* merges is no matter.                                                     *)

LEMMA LargerLeast == \A k, m, n \in Scores : k <= n /\ m <= n => Larger(k, m) <= n
BY DEF Larger

LEMMA BetterStateLeast ==
  \A x, y, z \in PortStates :
    Rank(x) <= Rank(z) /\ Rank(y) <= Rank(z) => Rank(BetterState(x, y)) <= Rank(z)
BY DEF BetterState

LEMMA OrElseLeast ==
  \A x, y, z : Filled(x, z) /\ Filled(y, z) => Filled(OrElse(x, y), z)
BY DEF Filled, OrElse

LEMMA MergePortLeast ==
  \A a, b, c \in Port :
    PortBelow(a, c) /\ PortBelow(b, c) => PortBelow(MergePort(a, b), c)
<1> SUFFICES ASSUME NEW a \in Port, NEW b \in Port, NEW c \in Port,
                    PortBelow(a, c), PortBelow(b, c)
             PROVE  PortBelow(MergePort(a, b), c)
  OBVIOUS
<1>1. /\ a.state \in PortStates /\ a.service \in Scores /\ a.banner \in Scores
      /\ b.state \in PortStates /\ b.service \in Scores /\ b.banner \in Scores
      /\ c.state \in PortStates /\ c.service \in Scores /\ c.banner \in Scores
  BY PortParts
<1> QED
  BY <1>1, LargerLeast, BetterStateLeast DEF PortBelow, MergePort

LEMMA MergeHostLeast ==
  \A a, b, c \in Host :
    HostBelow(a, c) /\ HostBelow(b, c) => HostBelow(MergeHost(a, b), c)
<1> SUFFICES ASSUME NEW a \in Host, NEW b \in Host, NEW c \in Host,
                    HostBelow(a, c), HostBelow(b, c)
             PROVE  HostBelow(MergeHost(a, b), c)
  OBVIOUS
<1> DEFINE m == MergeMaps(a.ports, b.ports, MergePort)
           h == MergeHost(a, b)
<1>1. MapBelow(m, c.ports, PortBelow)
  <2>1. /\ \A p \in DOMAIN a.ports : a.ports[p] \in Port
        /\ \A p \in DOMAIN b.ports : b.ports[p] \in Port
        /\ \A p \in DOMAIN c.ports : c.ports[p] \in Port
    BY HostParts, MapOf
  <2>2. /\ DOMAIN a.ports \subseteq DOMAIN c.ports /\ DOMAIN b.ports \subseteq DOMAIN c.ports
        /\ \A p \in DOMAIN a.ports : PortBelow(a.ports[p], c.ports[p])
        /\ \A p \in DOMAIN b.ports : PortBelow(b.ports[p], c.ports[p])
    BY DEF HostBelow, MapBelow
  <2>3. /\ DOMAIN m = DOMAIN a.ports \cup DOMAIN b.ports
        /\ \A p \in DOMAIN a.ports \ DOMAIN b.ports : m[p] = a.ports[p]
        /\ \A p \in DOMAIN b.ports \ DOMAIN a.ports : m[p] = b.ports[p]
        /\ \A p \in DOMAIN a.ports \cap DOMAIN b.ports :
             m[p] = MergePort(a.ports[p], b.ports[p])
    BY DEF MergeMaps
  <2> HIDE DEF m
  <2>4. ASSUME NEW p \in DOMAIN m PROVE PortBelow(m[p], c.ports[p])
    BY <2>1, <2>2, <2>3, MergePortLeast
  <2> QED
    BY <2>2, <2>3, <2>4 DEF MapBelow
<1>2. /\ h.hostname = OrElse(a.hostname, b.hostname)
      /\ h.detail = OrElse(a.detail, b.detail)
      /\ h.os = Larger(a.os, b.os)
      /\ h.ttl = Larger(a.ttl, b.ttl)
      /\ h.ports = m
      /\ h.findings = a.findings \cup b.findings
  BY DEF MergeHost, m
<1>3. h.up => c.up
  BY DEF HostBelow, MergeHost, Host
<1> HIDE DEF m, h
<1>4. h.os <= c.os /\ h.ttl <= c.ttl
  <2>1. /\ a.os \in Scores /\ b.os \in Scores /\ c.os \in Scores
        /\ a.ttl \in Scores /\ b.ttl \in Scores /\ c.ttl \in Scores
    BY HostParts
  <2> QED
    BY <1>2, <2>1, LargerLeast DEF HostBelow
<1>5. /\ Filled(h.hostname, c.hostname) /\ Filled(h.detail, c.detail)
      /\ h.findings \subseteq c.findings
  BY <1>2, OrElseLeast DEF HostBelow
<1>6. MapBelow(h.ports, c.ports, PortBelow)
  BY <1>1, <1>2
<1> QED
  BY <1>3, <1>4, <1>5, <1>6 DEF HostBelow, h

LEMMA MergePathLeast ==
  \A a, b, c \in Path :
    PathBelow(a, c) /\ PathBelow(b, c) => PathBelow(MergePath(a, b), c)
BY DEF MergePath, MergeMaps, MergeHop, PathBelow, MapBelow, Filled

LEMMA MergeSessionLeast ==
  \A a, b, c \in Session :
    SessionBelow(a, c) /\ SessionBelow(b, c) => SessionBelow(MergeSession(a, b), c)
<1>1. \A a \in Session : a.lines \in Scores
  BY DEF Session
<1> QED
  BY <1>1, LargerLeast, OrElseLeast DEF SessionBelow, MergeSession

\* merge_from makes up nothing: what knows at least as much as each of two
\* graphs knows at least as much as their merge.
THEOREM MergeLeast ==
  ASSUME NEW f \in Graph, NEW g \in Graph, NEW h \in Graph,
         GraphBelow(f, h), GraphBelow(g, h)
  PROVE  GraphBelow(MergeFrom(f, g), h)
<1> DEFINE m == MergeFrom(f, g)
<1>1. MapBelow(m.hosts, h.hosts, HostBelow)
  <2>1. /\ \A a \in DOMAIN f.hosts : f.hosts[a] \in Host
        /\ \A a \in DOMAIN g.hosts : g.hosts[a] \in Host
        /\ \A a \in DOMAIN h.hosts : h.hosts[a] \in Host
    BY GraphParts, MapOf
  <2>2. /\ DOMAIN f.hosts \subseteq DOMAIN h.hosts /\ DOMAIN g.hosts \subseteq DOMAIN h.hosts
        /\ \A a \in DOMAIN f.hosts : HostBelow(f.hosts[a], h.hosts[a])
        /\ \A a \in DOMAIN g.hosts : HostBelow(g.hosts[a], h.hosts[a])
    BY DEF GraphBelow, MapBelow
  <2>3. /\ DOMAIN m.hosts = DOMAIN f.hosts \cup DOMAIN g.hosts
        /\ \A a \in DOMAIN f.hosts \ DOMAIN g.hosts : m.hosts[a] = f.hosts[a]
        /\ \A a \in DOMAIN g.hosts \ DOMAIN f.hosts : m.hosts[a] = g.hosts[a]
        /\ \A a \in DOMAIN f.hosts \cap DOMAIN g.hosts :
             m.hosts[a] = MergeHost(f.hosts[a], g.hosts[a])
    BY DEF MergeFrom, MergeMaps
  <2> HIDE DEF m
  <2>4. ASSUME NEW a \in DOMAIN m.hosts PROVE HostBelow(m.hosts[a], h.hosts[a])
    BY <2>1, <2>2, <2>3, MergeHostLeast
  <2> QED
    BY <2>2, <2>3, <2>4 DEF MapBelow
<1>2. MapBelow(m.dns, h.dns, SetBelow)
  <2>1. /\ DOMAIN f.dns \subseteq DOMAIN h.dns /\ DOMAIN g.dns \subseteq DOMAIN h.dns
        /\ \A n \in DOMAIN f.dns : f.dns[n] \subseteq h.dns[n]
        /\ \A n \in DOMAIN g.dns : g.dns[n] \subseteq h.dns[n]
    BY DEF GraphBelow, MapBelow, SetBelow
  <2>2. /\ DOMAIN m.dns = DOMAIN f.dns \cup DOMAIN g.dns
        /\ \A n \in DOMAIN f.dns \ DOMAIN g.dns : m.dns[n] = f.dns[n]
        /\ \A n \in DOMAIN g.dns \ DOMAIN f.dns : m.dns[n] = g.dns[n]
        /\ \A n \in DOMAIN f.dns \cap DOMAIN g.dns : m.dns[n] = f.dns[n] \cup g.dns[n]
    BY DEF MergeFrom, MergeMaps, Union
  <2> HIDE DEF m
  <2>3. ASSUME NEW n \in DOMAIN m.dns PROVE m.dns[n] \subseteq h.dns[n]
    <3>1. CASE n \in DOMAIN f.dns \ DOMAIN g.dns
      BY <2>1, <2>2, <3>1
    <3>2. CASE n \in DOMAIN g.dns \ DOMAIN f.dns
      BY <2>1, <2>2, <3>2
    <3>3. CASE n \in DOMAIN f.dns \cap DOMAIN g.dns
      BY <2>1, <2>2, <3>3
    <3> QED
      BY <2>2, <3>1, <3>2, <3>3
  <2> QED
    BY <2>1, <2>2, <2>3 DEF MapBelow, SetBelow
<1>3. MapBelow(m.paths, h.paths, PathBelow)
  <2>1. /\ \A a \in DOMAIN f.paths : f.paths[a] \in Path
        /\ \A a \in DOMAIN g.paths : g.paths[a] \in Path
        /\ \A a \in DOMAIN h.paths : h.paths[a] \in Path
    BY GraphParts, MapOf
  <2>2. /\ DOMAIN f.paths \subseteq DOMAIN h.paths /\ DOMAIN g.paths \subseteq DOMAIN h.paths
        /\ \A a \in DOMAIN f.paths : PathBelow(f.paths[a], h.paths[a])
        /\ \A a \in DOMAIN g.paths : PathBelow(g.paths[a], h.paths[a])
    BY DEF GraphBelow, MapBelow
  <2>3. /\ DOMAIN m.paths = DOMAIN f.paths \cup DOMAIN g.paths
        /\ \A a \in DOMAIN f.paths \ DOMAIN g.paths : m.paths[a] = f.paths[a]
        /\ \A a \in DOMAIN g.paths \ DOMAIN f.paths : m.paths[a] = g.paths[a]
        /\ \A a \in DOMAIN f.paths \cap DOMAIN g.paths :
             m.paths[a] = MergePath(f.paths[a], g.paths[a])
    BY DEF MergeFrom, MergeMaps
  <2> HIDE DEF m
  <2>4. ASSUME NEW a \in DOMAIN m.paths PROVE PathBelow(m.paths[a], h.paths[a])
    BY <2>1, <2>2, <2>3, MergePathLeast
  <2> QED
    BY <2>2, <2>3, <2>4 DEF MapBelow
<1>4. MapBelow(m.sessions, h.sessions, SessionBelow)
  <2>1. /\ \A i \in DOMAIN f.sessions : f.sessions[i] \in Session
        /\ \A i \in DOMAIN g.sessions : g.sessions[i] \in Session
        /\ \A i \in DOMAIN h.sessions : h.sessions[i] \in Session
    BY GraphParts, MapOf
  <2>2. /\ DOMAIN f.sessions \subseteq DOMAIN h.sessions
        /\ DOMAIN g.sessions \subseteq DOMAIN h.sessions
        /\ \A i \in DOMAIN f.sessions : SessionBelow(f.sessions[i], h.sessions[i])
        /\ \A i \in DOMAIN g.sessions : SessionBelow(g.sessions[i], h.sessions[i])
    BY DEF GraphBelow, MapBelow
  <2>3. /\ DOMAIN m.sessions = DOMAIN f.sessions \cup DOMAIN g.sessions
        /\ \A i \in DOMAIN f.sessions \ DOMAIN g.sessions : m.sessions[i] = f.sessions[i]
        /\ \A i \in DOMAIN g.sessions \ DOMAIN f.sessions : m.sessions[i] = g.sessions[i]
        /\ \A i \in DOMAIN f.sessions \cap DOMAIN g.sessions :
             m.sessions[i] = MergeSession(f.sessions[i], g.sessions[i])
    BY DEF MergeFrom, MergeMaps
  <2> HIDE DEF m
  <2>4. ASSUME NEW i \in DOMAIN m.sessions PROVE SessionBelow(m.sessions[i], h.sessions[i])
    BY <2>1, <2>2, <2>3, MergeSessionLeast
  <2> QED
    BY <2>2, <2>3, <2>4 DEF MapBelow
<1> QED
  BY <1>1, <1>2, <1>3, <1>4 DEF GraphBelow

\* Two graphs merged one way or the other know the same, though the protocol of a
\* port and the text that came first may differ (merge_port, merge_opt_str).
THEOREM MergeEitherWay ==
  ASSUME NEW g \in Graph, NEW h \in Graph
  PROVE  GraphBelow(MergeFrom(g, h), MergeFrom(h, g))
<1>1. MergeFrom(h, g) \in Graph
  BY MergeFromType
<1>2. GraphBelow(g, MergeFrom(h, g)) /\ GraphBelow(h, MergeFrom(h, g))
  BY MergeAbove
<1> QED
  BY <1>1, <1>2, MergeLeast

\* The workspace is below every graph that knows what each run did: it is what the
\* runs know together and no more, in whatever order they were merged and however
\* often.
NothingMore ==
  \A c \in Graph : (\A g \in merged : GraphBelow(g, c)) => GraphBelow(workspace, c)

\* With Accumulation: the workspace is the least graph above those merged, hence
\* the same, as far as it goes, for every order of commands.
THEOREM LeastWorkspace == Spec => []NothingMore
<1>1. Init => NothingMore
  BY DEF Init, NothingMore, EmptyGraph, EmptyMap, GraphBelow, MapBelow
<1>2. TypeOK /\ NothingMore /\ [Next]_vars => NothingMore'
  <2> SUFFICES ASSUME TypeOK, NothingMore, [Next]_vars
               PROVE  NothingMore'
    OBVIOUS
  <2>1. CASE MergeAndSave
    <3> DEFINE w == MergeFrom(workspace, live)
    <3>1. workspace' = w /\ merged' = merged \cup {live}
      BY <2>1 DEF MergeAndSave
    <3>2. workspace \in Graph /\ live \in Graph
      BY DEF TypeOK
    <3>3. ASSUME NEW c \in Graph, \A g \in merged \cup {live} : GraphBelow(g, c)
          PROVE  GraphBelow(w, c)
      <4>1. GraphBelow(live, c) /\ GraphBelow(workspace, c)
        BY <3>3 DEF NothingMore
      <4> QED
        BY <3>2, <4>1, MergeLeast
    <3> HIDE DEF w
    <3> QED
      BY <3>1, <3>3 DEF NothingMore
  <2>2. CASE UNCHANGED <<workspace, merged>>
    BY <2>2 DEF NothingMore
  <2>3. [Next]_vars => MergeAndSave \/ UNCHANGED <<workspace, merged>>
    BY DEF Next, Module, Discover, Scan, Identify, Test, Resolve, Trace, Open, Close,
           Start, Told, Apply, vars
  <2> QED
    BY <2>1, <2>2, <2>3
<1> QED
  BY <1>1, <1>2, TypeCorrect, PTL DEF Spec
=============================================================================
