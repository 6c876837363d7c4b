--------------------------- MODULE SynScanProofs ----------------------------
(***************************************************************************)
(* Theorems about SynScan, for every finite set of pairs, whatever their   *)
(* families, and every finite set of source ports, however few, and the    *)
(* proof that SynScan implements ScanContract for the IPv4 pairs.          *)
(*                                                                         *)
(* ProbesAreCounted says nothing of the time after the thread was joined,  *)
(* and the contract nothing of the time before: IInv follows each pair     *)
(* from its probe to its event (Once, Sent), and ties the counters, which  *)
(* belong to two threads, to the results (Counted).                        *)
(***************************************************************************)
EXTENDS SynScan, FiniteSetTheorems, SequenceTheorems, TLAPS

Reports == Ipv4 \X States

Types ==
  /\ nature \in [Ipv4 -> {"open", "closed", "silent"}]
  /\ unsent \subseteq Targets
  /\ pending \in [Sports -> Ipv4 \cup {Free}]
  /\ answers \subseteq probes /\ probes \subseteq Ipv4 \X Sports
  /\ \A answer \in answers : nature[answer[1]] # "silent"
  /\ tally \in [States -> 0 .. Cardinality(Ipv4)]
  /\ results \in Seq(Reports) /\ emitted \in Seq(Reports)
  /\ held \in Reports \cup {<<>>}
  /\ thread \in {"checking", "blocked", "ended"}
  /\ main \in {"sending", "choosing", "joining", "emitting", "done"}
  /\ expired \in BOOLEAN /\ cancelled \in BOOLEAN
  /\ report \in [States -> 0 .. Cardinality(Ipv4)]

\* The thread holds a result only between its two locks; nothing is emitted
\* before it is joined, and it is joined only when it has ended.
Sequencing ==
  /\ held # <<>> => thread = "checking"
  /\ main \in {"emitting", "done"} => thread = "ended"
  /\ main \in {"sending", "choosing", "joining"} => emitted = <<>>
  /\ main = "choosing" => unsent \cap Ipv4 # {}
  /\ main \in {"joining", "emitting", "done"} => cancelled \/ unsent = {}
  /\ main = "done" => results = <<>>

Held == IF held = <<>> THEN {} ELSE {held}

\* All results so far, wherever they are.
Found == Held \cup ToSet(results) \cup ToSet(emitted)

\* A sequence of reports has no two about one pair.
Distinct(seq) == \A k, l \in DOMAIN seq : seq[k][1] = seq[l][1] => k = l

\* No pair is in two places.
Once ==
  /\ Distinct(results) /\ Distinct(emitted)
  /\ \A r \in ToSet(results) : \A e \in ToSet(emitted) : r[1] # e[1]
  /\ \A h \in Held : \A r \in ToSet(results) : r[1] # h[1]
  /\ \A p, q \in Sports : pending[p] = pending[q] /\ pending[p] # Free => p = q
  /\ main \in {"sending", "choosing", "joining"} => \A r \in Found : \A p \in Sports : pending[p] # r[1]

\* A pair whose probe was sent is pending or has a result; when the pending ones
\* are listed as well, it has one.
Sent ==
  \A t \in Ipv4 :
    t \notin unsent <=>
      \/ \E r \in Found : r[1] = t
      \/ main \in {"sending", "choosing", "joining"} /\ \E p \in Sports : pending[p] = t

\* The pairs found in a state.
With(s) == {t \in Ipv4 : <<t, s>> \in Found}

\* Whichever thread counts it, a counter is the number of results it counts.
Counted == \A s \in States : tally[s] = Cardinality(With(s))

\* RepliesMapBack, of all results.
MapsBack == \A r \in Found : r[2] # "filtered" => r[2] = nature[r[1]]

IInv == Types /\ Sequencing /\ Once /\ Sent /\ Counted /\ MapsBack

-----------------------------------------------------------------------------
\* The pairs that get a probe are finitely many, and no source port's word for free.
LEMMA ProbedPairs == IsFiniteSet(Ipv4) /\ Free \notin Ipv4
BY Ipv4Pairs, TargetsFinite, FreeIsNoTarget, FS_Subset

-----------------------------------------------------------------------------
(* Sequences of reports. *)

\* A report that is appended is there with the others.
LEMMA AppendReports ==
  ASSUME NEW seq \in Seq(Reports), NEW r \in Reports
  PROVE  /\ Append(seq, r) \in Seq(Reports)
         /\ ToSet(Append(seq, r)) = ToSet(seq) \cup {r}
         /\ Distinct(seq) /\ (\A q \in ToSet(seq) : q[1] # r[1]) => Distinct(Append(seq, r))
<1>1. /\ Append(seq, r) \in Seq(Reports)
      /\ DOMAIN Append(seq, r) = 1 .. Len(seq) + 1
      /\ DOMAIN seq = 1 .. Len(seq) /\ Len(seq) \in Nat
      /\ \A k \in 1 .. Len(seq) : Append(seq, r)[k] = seq[k]
      /\ Append(seq, r)[Len(seq) + 1] = r
  BY AppendProperties, LenProperties
<1>2. ToSet(Append(seq, r)) = ToSet(seq) \cup {r}
  BY <1>1 DEF ToSet
<1>3. ASSUME Distinct(seq), \A q \in ToSet(seq) : q[1] # r[1]
      PROVE  Distinct(Append(seq, r))
  <2>1. \A k \in 1 .. Len(seq) : seq[k][1] # r[1]
    BY <1>1, <1>3 DEF ToSet
  <2>2. \A k, l \in 1 .. Len(seq) : seq[k][1] = seq[l][1] => k = l
    BY <1>1, <1>3 DEF Distinct
  <2> QED
    BY <1>1, <2>1, <2>2 DEF Distinct
<1> QED
  BY <1>1, <1>2, <1>3

\* The first report of a sequence without repetition is not in the rest of it.
LEMMA TailReports ==
  ASSUME NEW seq \in Seq(Reports), seq # <<>>, Distinct(seq)
  PROVE  /\ Head(seq) \in Reports /\ Tail(seq) \in Seq(Reports)
         /\ ToSet(seq) = {Head(seq)} \cup ToSet(Tail(seq))
         /\ Distinct(Tail(seq))
         /\ \A q \in ToSet(Tail(seq)) : q[1] # Head(seq)[1]
<1>1. /\ Head(seq) \in Reports /\ Tail(seq) \in Seq(Reports)
      /\ DOMAIN Tail(seq) = 1 .. Len(seq) - 1
      /\ DOMAIN seq = 1 .. Len(seq) /\ Len(seq) \in Nat \ {0}
      /\ \A k \in 1 .. Len(seq) - 1 : Tail(seq)[k] = seq[k + 1]
      /\ Head(seq) = seq[1]
  BY HeadTailProperties, LenProperties, EmptySeq
<1>2. ASSUME NEW k \in 1 .. Len(seq), k # 1
      PROVE  k - 1 \in DOMAIN Tail(seq) /\ seq[k] = Tail(seq)[k - 1]
  <2>1. k - 1 \in 1 .. Len(seq) - 1 /\ (k - 1) + 1 = k
    BY <1>1, <1>2
  <2> QED
    BY <1>1, <2>1
<1>3. ToSet(seq) = {Head(seq)} \cup ToSet(Tail(seq))
  <2>1. ToSet(seq) \subseteq {Head(seq)} \cup ToSet(Tail(seq))
    <3> SUFFICES ASSUME NEW k \in 1 .. Len(seq)
                 PROVE  seq[k] \in {Head(seq)} \cup ToSet(Tail(seq))
      BY <1>1 DEF ToSet
    <3>1. CASE k = 1
      BY <1>1, <3>1
    <3>2. CASE k # 1
      BY <1>2, <3>2 DEF ToSet
    <3> QED
      BY <3>1, <3>2
  <2>2. Head(seq) \in ToSet(seq)
    BY <1>1 DEF ToSet
  <2>3. \A k \in DOMAIN Tail(seq) : k + 1 \in DOMAIN seq /\ Tail(seq)[k] = seq[k + 1]
    BY <1>1
  <2>4. ToSet(Tail(seq)) \subseteq ToSet(seq)
    BY <2>3 DEF ToSet
  <2> QED
    BY <2>1, <2>2, <2>4
<1>4. \A k, l \in 1 .. Len(seq) : seq[k][1] = seq[l][1] => k = l
  BY <1>1 DEF Distinct
<1>5. Distinct(Tail(seq))
  <2> SUFFICES ASSUME NEW k \in 1 .. Len(seq) - 1, NEW l \in 1 .. Len(seq) - 1,
                      seq[k + 1][1] = seq[l + 1][1]
               PROVE  k = l
    BY <1>1 DEF Distinct
  <2>1. k + 1 \in 1 .. Len(seq) /\ l + 1 \in 1 .. Len(seq)
    BY <1>1
  <2>2. k + 1 = l + 1
    BY <1>4, <2>1
  <2> QED
    BY <2>2
<1>6. ASSUME NEW k \in 1 .. Len(seq) - 1 PROVE seq[k + 1][1] # seq[1][1]
  <2>1. k + 1 \in 1 .. Len(seq) /\ 1 \in 1 .. Len(seq) /\ k + 1 # 1
    BY <1>1
  <2> QED
    BY <1>4, <2>1
<1> QED
  BY <1>1, <1>3, <1>5, <1>6 DEF ToSet

\* Two sequences about different pairs, one after the other.
LEMMA ConcatReports ==
  ASSUME NEW s \in Seq(Reports), NEW t \in Seq(Reports)
  PROVE  /\ s \o t \in Seq(Reports)
         /\ ToSet(s \o t) = ToSet(s) \cup ToSet(t)
         /\ /\ Distinct(s) /\ Distinct(t)
            /\ \A r \in ToSet(s) : \A q \in ToSet(t) : r[1] # q[1]
            => Distinct(s \o t)
<1>1. /\ s \o t \in Seq(Reports)
      /\ DOMAIN s = 1 .. Len(s) /\ DOMAIN t = 1 .. Len(t)
      /\ Len(s) \in Nat /\ Len(t) \in Nat
      /\ DOMAIN (s \o t) = 1 .. Len(s) + Len(t)
      /\ \A k \in 1 .. Len(s) + Len(t) :
           (s \o t)[k] = IF k <= Len(s) THEN s[k] ELSE t[k - Len(s)]
  BY ConcatProperties, LenProperties
<1>2. ToSet(s \o t) = ToSet(s) \cup ToSet(t)
  <2>1. \A k \in 1 .. Len(t) : Len(s) + k \in 1 .. Len(s) + Len(t) /\ (s \o t)[Len(s) + k] = t[k]
    BY <1>1
  <2>2. \A k \in 1 .. Len(s) : k \in 1 .. Len(s) + Len(t) /\ (s \o t)[k] = s[k]
    BY <1>1
  <2>3. ToSet(s \o t) \subseteq ToSet(s) \cup ToSet(t)
    BY <1>1 DEF ToSet
  <2>4. ToSet(s) \subseteq ToSet(s \o t)
    BY <1>1, <2>2 DEF ToSet
  <2>5. ToSet(t) \subseteq ToSet(s \o t)
    BY <1>1, <2>1 DEF ToSet
  <2> QED
    BY <2>3, <2>4, <2>5
<1>3. ASSUME Distinct(s), Distinct(t),
             \A r \in ToSet(s) : \A q \in ToSet(t) : r[1] # q[1]
      PROVE  Distinct(s \o t)
  <2>1. \A k \in 1 .. Len(s) : \A l \in 1 .. Len(t) : s[k][1] # t[l][1]
    BY <1>1, <1>3 DEF ToSet
  <2>2. \A k, l \in 1 .. Len(s) : s[k][1] = s[l][1] => k = l
    BY <1>1, <1>3 DEF Distinct
  <2>3. \A k, l \in 1 .. Len(t) : t[k][1] = t[l][1] => k = l
    BY <1>1, <1>3 DEF Distinct
  <2> SUFFICES ASSUME NEW k \in 1 .. Len(s) + Len(t), NEW l \in 1 .. Len(s) + Len(t),
                      (s \o t)[k][1] = (s \o t)[l][1]
               PROVE  k = l
    BY <1>1 DEF Distinct
  <2>4. CASE k <= Len(s) /\ l <= Len(s)
    BY <1>1, <2>2, <2>4
  <2>5. CASE k > Len(s) /\ l > Len(s)
    <3>1. k - Len(s) \in 1 .. Len(t) /\ l - Len(s) \in 1 .. Len(t)
      BY <1>1, <2>5
    <3>2. t[k - Len(s)][1] = t[l - Len(s)][1]
      BY <1>1, <2>5
    <3> QED
      BY <1>1, <2>3, <3>1, <3>2
  <2>6. CASE k <= Len(s) /\ l > Len(s)
    BY <1>1, <2>1, <2>6
  <2>7. CASE k > Len(s) /\ l <= Len(s)
    BY <1>1, <2>1, <2>7
  <2> QED
    BY <1>1, <2>4, <2>5, <2>6, <2>7
<1> QED
  BY <1>1, <1>2, <1>3

\* SetToSeq lists every report of a finite set once.
LEMMA ListedReports ==
  ASSUME NEW S \in SUBSET Reports, IsFiniteSet(S),
         \A r, q \in S : r[1] = q[1] => r = q
  PROVE  /\ SetToSeq(S) \in Seq(Reports)
         /\ ToSet(SetToSeq(S)) = S
         /\ Distinct(SetToSeq(S))
<1> DEFINE n == Cardinality(S)
           seq == SetToSeq(S)
<1>1. n \in Nat /\ ExistsBijection(1 .. n, S)
  BY FS_CardinalityType
<1>2. seq \in [1 .. n -> S] /\ IsInjective(seq)
  <2>1. \E f \in [1 .. n -> S] : IsInjective(f)
    BY <1>1 DEF ExistsBijection, Bijection, Injection, IsInjective
  <2> QED
    BY <2>1 DEF SetToSeq
<1>3. seq \in Injection(1 .. n, S)
  BY <1>2 DEF Injection, IsInjective
<1>4. Cardinality(1 .. n) = n
  BY <1>1, FS_Interval
<1>5. seq \in Surjection(1 .. n, S)
  BY <1>3, <1>4, FS_Injection
<1>6. ToSet(seq) = S
  BY <1>2, <1>5 DEF Surjection, ToSet
<1>7. seq \in Seq(Reports)
  BY <1>1, <1>2, SeqDef
<1>8. Distinct(seq)
  BY <1>2 DEF Distinct, IsInjective
<1> QED
  BY <1>6, <1>7, <1>8

-----------------------------------------------------------------------------
(* What the steps do to the results. *)

\* A report is not the empty tuple.
LEMMA ReportIsSome ==
  ASSUME NEW r \in Reports
  PROVE  r # <<>> /\ r = <<r[1], r[2]>> /\ r[1] \in Ipv4 /\ r[2] \in States
<1>1. Len(r) = 2
  BY DEF Reports
<1> QED
  BY <1>1 DEF Reports

\* Reports are all there is to be found.
LEMMA FoundType ==
  ASSUME Types
  PROVE  Found \subseteq Reports /\ Held \subseteq Reports
BY ElementOfSeq, LenProperties DEF Types, Found, Held, ToSet

\* A step that leaves the results alone.
LEMMA FoundUntouched ==
  ASSUME UNCHANGED <<results, emitted, held>>
  PROVE  Found' = Found /\ Held' = Held
BY DEF Found, Held, ToSet

\* The thread counts the answer of a pair that is pending.
LEMMA MatchEffect ==
  ASSUME Types, Sequencing, NEW answer \in answers, Match(answer)
  PROVE  /\ answer[1] \in Ipv4 /\ answer[2] \in Sports
         /\ pending[answer[2]] = answer[1]
         /\ nature[answer[1]] \in {"open", "closed"}
         /\ main \in {"sending", "choosing", "joining"} /\ emitted = <<>>
         /\ Held = {} /\ Held' = {<<answer[1], nature[answer[1]]>>}
         /\ held' \in Reports
         /\ Found' = Found \cup {<<answer[1], nature[answer[1]]>>}
<1>1. /\ answer[1] \in Ipv4 /\ answer[2] \in Sports
      /\ pending[answer[2]] = answer[1]
      /\ nature[answer[1]] \in {"open", "closed"}
  BY DEF Match, Answers, Types
<1>2. main \in {"sending", "choosing", "joining"} /\ emitted = <<>> /\ held = <<>>
  BY DEF Match, Types, Sequencing
<1>3. held' = <<answer[1], nature[answer[1]]>> /\ UNCHANGED <<results, emitted>>
  BY <1>1 DEF Match
<1>4. held' \in Reports
  BY <1>1, <1>3 DEF Reports, States
<1>5. Held = {} /\ Held' = {<<answer[1], nature[answer[1]]>>}
  BY <1>2, <1>3, <1>4, ReportIsSome DEF Held
<1> QED
  BY <1>1, <1>2, <1>3, <1>4, <1>5 DEF Found

\* The thread lists what it has counted.
LEMMA PushEffect ==
  ASSUME Types, Sequencing, Once, Push
  PROVE  /\ Held = {held} /\ held \in Reports /\ Held' = {}
         /\ results' \in Seq(Reports) /\ ToSet(results') = ToSet(results) \cup {held}
         /\ Distinct(results')
         /\ main \in {"sending", "choosing", "joining"} /\ emitted = <<>>
         /\ Found' = Found
<1>1. Held = {held} /\ held \in Reports /\ Held' = {}
  BY DEF Push, Held, Types
<1>2. results' = Append(results, held) /\ UNCHANGED emitted
  BY DEF Push
<1>3. /\ results' \in Seq(Reports) /\ ToSet(results') = ToSet(results) \cup {held}
      /\ Distinct(results')
  BY <1>1, <1>2, AppendReports DEF Types, Once
<1> QED
  BY <1>1, <1>2, <1>3 DEF Push, Types, Sequencing, Found

\* The caller emits the first of the results.
LEMMA EmitEffect ==
  ASSUME Types, Sequencing, Once, Emit
  PROVE  /\ Head(results) \in ToSet(results) /\ Head(results) \in Reports
         /\ results' \in Seq(Reports) /\ emitted' \in Seq(Reports)
         /\ ToSet(results) = ToSet(results') \cup {Head(results)}
         /\ ToSet(emitted') = ToSet(emitted) \cup {Head(results)}
         /\ Distinct(results') /\ Distinct(emitted')
         /\ \A r \in ToSet(results') : r[1] # Head(results)[1]
         /\ Found' = Found /\ Held' = Held
<1> DEFINE r == Head(results)
<1>1. results' = Tail(results) /\ emitted' = Append(emitted, r) /\ results # <<>>
      /\ UNCHANGED held
  BY DEF Emit, receiver
<1>2. /\ r \in Reports /\ results' \in Seq(Reports) /\ Distinct(results')
      /\ ToSet(results) = ToSet(results') \cup {r}
      /\ \A q \in ToSet(results') : q[1] # r[1]
  BY <1>1, TailReports DEF Types, Once
<1>3. \A q \in ToSet(emitted) : q[1] # r[1]
  BY <1>2 DEF Once
<1>4. /\ emitted' \in Seq(Reports) /\ ToSet(emitted') = ToSet(emitted) \cup {r}
      /\ Distinct(emitted')
  BY <1>1, <1>2, <1>3, AppendReports DEF Types, Once
<1>5. Held' = Held
  BY <1>1 DEF Held
<1>6. Found' = Found
  BY <1>2, <1>4, <1>5 DEF Found
<1> QED
  BY <1>2, <1>4, <1>5, <1>6

Silenced == {<<pending[p], "filtered">> : p \in Unanswered}

\* The pairs still pending, as many as their ports, get the result filtered.
LEMMA CollectEffect ==
  ASSUME Types, Sequencing, Once, Collect
  PROVE  /\ Silenced \subseteq Reports
         /\ Cardinality({pending[p] : p \in Unanswered}) = Cardinality(Unanswered)
         /\ {pending[p] : p \in Unanswered} \subseteq Ipv4
         /\ results' \in Seq(Reports) /\ ToSet(results') = ToSet(results) \cup Silenced
         /\ Distinct(results')
         /\ emitted = <<>> /\ UNCHANGED emitted /\ Held = {} /\ Held' = {}
         /\ \A r \in Found : \A p \in Sports : pending[p] # r[1]
         /\ Found' = Found \cup Silenced
<1> DEFINE P == {pending[p] : p \in Unanswered}
<1>1. IsFiniteSet(Unanswered)
  BY SportsFinite, FS_Subset DEF Unanswered
<1>2. \A p \in Unanswered : p \in Sports /\ pending[p] \in Ipv4
  BY DEF Unanswered, Types
<1>3. \A p, q \in Unanswered : pending[p] = pending[q] => p = q
  BY DEF Once, Unanswered
<1>4. Cardinality(P) = Cardinality(Unanswered)
  <2> DEFINE f == [p \in Unanswered |-> pending[p]]
  <2>1. f \in Bijection(Unanswered, P)
    BY <1>3 DEF Bijection, Injection, Surjection, IsInjective
  <2>2. ExistsBijection(Unanswered, P)
    BY <2>1 DEF ExistsBijection
  <2> QED
    BY <1>1, <2>2, FS_Bijection
<1>5. IsFiniteSet(Silenced)
  <2> DEFINE f == [p \in Unanswered |-> <<pending[p], "filtered">>]
  <2>1. f \in Bijection(Unanswered, Silenced)
    <3>1. \A p, q \in Unanswered : f[p] = f[q] => p = q
      BY <1>3
    <3> QED
      BY <3>1 DEF Bijection, Injection, Surjection, IsInjective, Silenced
  <2>2. ExistsBijection(Unanswered, Silenced)
    BY <2>1 DEF ExistsBijection
  <2> QED
    BY <1>1, <2>2, FS_Bijection
<1>6. Silenced \subseteq Reports /\ \A r, q \in Silenced : r[1] = q[1] => r = q
  BY <1>2 DEF Silenced, Reports, States
<1>7. /\ main = "joining" /\ thread = "ended" /\ UNCHANGED <<emitted, held>>
      /\ results' = results \o SetToSeq(Silenced)
  BY DEF Collect, receiver, Silenced
<1>8. emitted = <<>> /\ held = <<>> /\ Held = {} /\ Held' = {}
  BY <1>7 DEF Sequencing, Held
<1>9. \A r \in Found : \A p \in Sports : pending[p] # r[1]
  BY <1>7 DEF Once
<1>10. \A r \in ToSet(results) : \A q \in Silenced : r[1] # q[1]
  BY <1>2, <1>9 DEF Silenced, Found
<1>11. /\ SetToSeq(Silenced) \in Seq(Reports) /\ ToSet(SetToSeq(Silenced)) = Silenced
       /\ Distinct(SetToSeq(Silenced))
  BY <1>5, <1>6, ListedReports
<1>12. /\ results' \in Seq(Reports) /\ ToSet(results') = ToSet(results) \cup Silenced
       /\ Distinct(results')
  BY <1>7, <1>10, <1>11, ConcatReports DEF Types, Once
<1>13. Found' = Found \cup Silenced
  BY <1>7, <1>8, <1>12 DEF Found
<1> QED
  BY <1>2, <1>4, <1>6, <1>7, <1>8, <1>9, <1>12, <1>13

-----------------------------------------------------------------------------
(* The invariant. *)

LEMMA InitIInv == Init => IInv
<1> SUFFICES ASSUME Init PROVE IInv
  OBVIOUS
<1> USE DEF Init
<1>1. Held = {} /\ Found = {}
  BY DEF Held, Found, ToSet
<1>2. Types
  <2>1. Cardinality(Ipv4) \in Nat
    BY ProbedPairs, FS_CardinalityType
  <2>2. <<>> \in Seq(Reports)
    BY EmptySeq
  <2>3. tally \in [States -> 0 .. Cardinality(Ipv4)] /\ report \in [States -> 0 .. Cardinality(Ipv4)]
    BY <2>1
  <2>4. pending \in [Sports -> Ipv4 \cup {Free}]
    OBVIOUS
  <2>5. results \in Seq(Reports) /\ emitted \in Seq(Reports) /\ held \in Reports \cup {<<>>}
    BY <2>2
  <2> QED
    BY <2>3, <2>4, <2>5 DEF Types
<1>3. Sequencing
  BY DEF Sequencing
<1>4. Once
  BY <1>1 DEF Once, Distinct, ToSet
<1>5. Sent
  BY <1>1, Ipv4Pairs, ProbedPairs DEF Sent
<1>6. Counted
  <2>1. \A s \in States : With(s) = {}
    BY <1>1 DEF With
  <2> QED
    BY <2>1, FS_EmptySet DEF Counted
<1>7. MapsBack
  BY <1>1 DEF MapsBack
<1> QED
  BY <1>2, <1>3, <1>4, <1>5, <1>6, <1>7 DEF IInv

LEMMA SequencingStep ==
  ASSUME Types, Sequencing, Once, [Next]_vars
  PROVE  Sequencing'
<1> USE DEF Sequencing
<1>1. ASSUME NEW t \in Targets, NEW p \in Sports, Send(t, p) PROVE Sequencing'
  BY <1>1 DEF Send, Types, receiver
<1>2. CASE StopSending
  BY <1>2 DEF StopSending, Types, receiver
<1>3. CASE Collect
  BY <1>3 DEF Collect, Types, receiver
<1>4. CASE Emit
  BY <1>4 DEF Emit, Types, receiver
<1>5. CASE EmitStats
  BY <1>5 DEF EmitStats, receiver
<1>6. CASE Check
  BY <1>6 DEF Check, Types, receiver
<1>7. CASE Push
  BY <1>7 DEF Push
<1>8. CASE Ignore
  BY <1>8 DEF Ignore, Types, receiver
<1>9. CASE ReadFails
  BY <1>9 DEF ReadFails, Types, receiver
<1>10. ASSUME NEW answer \in answers, Match(answer) PROVE Sequencing'
  BY <1>10, MatchEffect DEF Match
<1>11. ASSUME NEW probe \in probes, Answer(probe) PROVE Sequencing'
  BY <1>11 DEF Answer, Types, receiver
<1>12. CASE Expire
  BY <1>12 DEF Expire, Types, receiver
<1>13. CASE Cancel
  BY <1>13 DEF Cancel, Types, receiver
<1>14. CASE UNCHANGED vars
  BY <1>14 DEF vars, receiver
<1>15. ASSUME NEW t \in Targets, Skip(t) PROVE Sequencing'
  BY <1>15 DEF Skip, Types, receiver
<1>16. CASE Choose
  BY <1>16 DEF Choose, Types, receiver
<1> QED
  BY <1>1, <1>15, <1>16, <1>2, <1>3, <1>4, <1>5, <1>6, <1>7, <1>8, <1>9, <1>10, <1>11, <1>12, <1>13, <1>14 DEF Next, Main, OwnSteps, Reads

\* Match counts a pair that had no result, Collect as many as are pending.
LEMMA CountedStep ==
  ASSUME Types, Sequencing, Once, Counted, [Next]_vars
  PROVE  Counted'
<1>0. ASSUME UNCHANGED tally, Found' = Found PROVE Counted'
  BY <1>0 DEF Counted, With
<1>a. ASSUME NEW s \in States PROVE IsFiniteSet(With(s)) /\ Cardinality(With(s)) \in Nat
  BY ProbedPairs, FS_Subset, FS_CardinalityType DEF With
<1>1. ASSUME NEW t \in Targets, NEW p \in Sports, Send(t, p) PROVE Counted'
  BY <1>0, <1>1, FoundUntouched DEF Send, receiver
<1>2. CASE StopSending
  BY <1>0, <1>2, FoundUntouched DEF StopSending, receiver
<1>3. CASE Collect
  <2> DEFINE P == {pending[p] : p \in Unanswered}
  <2>1. tally' = [tally EXCEPT !["filtered"] = @ + Cardinality(P)]
    BY <1>3, CollectEffect DEF Collect
  <2>2. P \subseteq Ipv4 /\ Found' = Found \cup Silenced
    BY <1>3, CollectEffect
  <2>3. \A r \in Found : r[1] \notin P
    BY <1>3, CollectEffect DEF Unanswered
  <2> SUFFICES ASSUME NEW s \in States PROVE tally'[s] = Cardinality(With(s)')
    BY DEF Counted
  <2>4. With(s) \cap P = {}
    BY <2>3 DEF With
  <2>5. With(s)' = IF s = "filtered" THEN With(s) \cup P ELSE With(s)
    BY <2>2 DEF With, Silenced
  <2>6. tally[s] = Cardinality(With(s))
        /\ tally'[s] = IF s = "filtered" THEN tally[s] + Cardinality(P) ELSE tally[s]
    BY <2>1 DEF Counted, Types
  <2>7. IsFiniteSet(P) /\ Cardinality(P) \in Nat
    BY <2>2, ProbedPairs, FS_Subset, FS_CardinalityType
  <2>8. Cardinality(With(s) \cup P) = Cardinality(With(s)) + Cardinality(P)
    <3>1. Cardinality(With(s) \cup P)
            = Cardinality(With(s)) + Cardinality(P) - Cardinality(With(s) \cap P)
      BY <1>a, <2>7, FS_Union
    <3>2. Cardinality(With(s) \cap P) = 0
      BY <2>4, FS_EmptySet
    <3> QED
      BY <1>a, <2>7, <3>1, <3>2
  <2> QED
    BY <2>5, <2>6, <2>8
<1>4. CASE Emit
  BY <1>0, <1>4, EmitEffect DEF Emit
<1>5. CASE EmitStats
  BY <1>0, <1>5, FoundUntouched DEF EmitStats, receiver
<1>6. CASE Check
  BY <1>0, <1>6, FoundUntouched DEF Check, receiver
<1>7. CASE Push
  BY <1>0, <1>7, PushEffect DEF Push
<1>8. CASE Ignore
  BY <1>0, <1>8, FoundUntouched DEF Ignore, receiver
<1>9. CASE ReadFails
  BY <1>0, <1>9, FoundUntouched DEF ReadFails, receiver
<1>10. ASSUME NEW answer \in answers, Match(answer) PROVE Counted'
  <2> DEFINE t == answer[1]
  <2>1. /\ t \in Ipv4 /\ nature[t] \in States
        /\ Found' = Found \cup {<<t, nature[t]>>}
        /\ \A r \in Found : r[1] # t
    BY <1>10, MatchEffect DEF Once, States
  <2>2. tally' = [tally EXCEPT ![nature[t]] = @ + 1]
    BY <1>10 DEF Match
  <2> SUFFICES ASSUME NEW s \in States PROVE tally'[s] = Cardinality(With(s)')
    BY DEF Counted
  <2>3. t \notin With(s)
    BY <2>1 DEF With
  <2>4. With(s)' = IF s = nature[t] THEN With(s) \cup {t} ELSE With(s)
    BY <2>1 DEF With
  <2>5. tally[s] = Cardinality(With(s)) /\ tally'[s] = IF s = nature[t] THEN tally[s] + 1 ELSE tally[s]
    BY <2>1, <2>2 DEF Counted, Types
  <2> QED
    BY <1>a, <2>3, <2>4, <2>5, FS_AddElement
<1>11. ASSUME NEW probe \in probes, Answer(probe) PROVE Counted'
  BY <1>0, <1>11, FoundUntouched DEF Answer, receiver
<1>12. CASE Expire
  BY <1>0, <1>12, FoundUntouched DEF Expire, receiver
<1>13. CASE Cancel
  BY <1>0, <1>13, FoundUntouched DEF Cancel, receiver
<1>14. CASE UNCHANGED vars
  BY <1>0, <1>14, FoundUntouched DEF vars, receiver
<1>15. ASSUME NEW t \in Targets, Skip(t) PROVE Counted'
  BY <1>0, <1>15, FoundUntouched DEF Skip, receiver
<1>16. CASE Choose
  BY <1>0, <1>16, FoundUntouched DEF Choose, receiver
<1> QED
  BY <1>1, <1>15, <1>16, <1>2, <1>3, <1>4, <1>5, <1>6, <1>7, <1>8, <1>9, <1>10, <1>11, <1>12, <1>13, <1>14 DEF Next, Main, OwnSteps, Reads

\* The counters stay within the number of pairs because each counts a set of them.
LEMMA TypesStep ==
  ASSUME Types, Sequencing, Once, Counted, Counted', [Next]_vars
  PROVE  Types'
<1>a. \A s \in States : tally'[s] \in 0 .. Cardinality(Ipv4)
  <2>1. ASSUME NEW s \in States PROVE Cardinality(With(s)') \in 0 .. Cardinality(Ipv4)
    <3>1. With(s)' \subseteq Ipv4
      BY DEF With
    <3> QED
      BY <3>1, ProbedPairs, FS_Subset, FS_CardinalityType
  <2> QED
    BY <2>1 DEF Counted
<1>1. ASSUME NEW t \in Targets, NEW p \in Sports, Send(t, p) PROVE Types'
  BY <1>1 DEF Send, Types, link, receiver
<1>2. CASE StopSending
  BY <1>2 DEF StopSending, Types, link, receiver
<1>3. CASE Collect
  <2>1. results' \in Seq(Reports)
    BY <1>3, CollectEffect
  <2>2. tally' \in [States -> 0 .. Cardinality(Ipv4)]
    BY <1>a, <1>3 DEF Collect, Types
  <2> QED
    BY <2>1, <2>2, <1>3 DEF Collect, Types, link, receiver
<1>4. CASE Emit
  BY <1>4, EmitEffect DEF Emit, Types, link, receiver
<1>5. CASE EmitStats
  BY <1>5 DEF EmitStats, Types, link, receiver
<1>6. CASE Check
  BY <1>6 DEF Check, Types, link, receiver
<1>7. CASE Push
  BY <1>7, PushEffect DEF Push, Types, link
<1>8. CASE Ignore
  BY <1>8 DEF Ignore, Types, link, receiver
<1>9. CASE ReadFails
  BY <1>9 DEF ReadFails, Types, link, receiver
<1>10. ASSUME NEW answer \in answers, Match(answer) PROVE Types'
  <2>1. held' \in Reports
    BY <1>10, MatchEffect
  <2>2. tally' \in [States -> 0 .. Cardinality(Ipv4)]
    BY <1>a, <1>10 DEF Match, Types
  <2> QED
    BY <2>1, <2>2, <1>10 DEF Match, Types, link
<1>11. ASSUME NEW probe \in probes, Answer(probe) PROVE Types'
  BY <1>11 DEF Answer, Types, link, receiver
<1>12. CASE Expire
  BY <1>12 DEF Expire, Types, link, receiver
<1>13. CASE Cancel
  BY <1>13 DEF Cancel, Types, link, receiver
<1>14. CASE UNCHANGED vars
  BY <1>14 DEF vars, Types, link, receiver
<1>15. ASSUME NEW t \in Targets, Skip(t) PROVE Types'
  BY <1>15 DEF Skip, Types, link, receiver
<1>16. CASE Choose
  BY <1>16 DEF Choose, Types, link, receiver
<1> QED
  BY <1>1, <1>15, <1>16, <1>2, <1>3, <1>4, <1>5, <1>6, <1>7, <1>8, <1>9, <1>10, <1>11, <1>12, <1>13, <1>14 DEF Next, Main, OwnSteps, Reads

\* A pair leaves the map when it gets a result, and enters it when it is sent.
LEMMA OnceStep ==
  ASSUME Types, Sequencing, Once, Sent, [Next]_vars
  PROVE  Once'
<1>1. ASSUME NEW t \in Targets, NEW p \in Sports, Send(t, p) PROVE Once'
  <2>1. /\ UNCHANGED <<results, emitted, held>> /\ main = "choosing" /\ main' = "sending"
        /\ t \in unsent /\ t \in Ipv4 /\ pending' = [pending EXCEPT ![p] = t]
    BY <1>1 DEF Send, receiver
  <2>2. Found' = Found /\ Held' = Held
    BY <2>1, FoundUntouched
  <2>3. (\A r \in Found : r[1] # t) /\ (\A q \in Sports : pending[q] # t)
    BY <2>1 DEF Sent
  <2>4. \A q, o \in Sports : pending'[q] = pending'[o] /\ pending'[q] # Free => q = o
    BY <2>1, <2>3 DEF Types, Once
  <2>5. \A r \in Found : \A q \in Sports : pending'[q] # r[1]
    BY <2>1, <2>3 DEF Types, Once
  <2> QED
    BY <2>1, <2>2, <2>4, <2>5 DEF Once, Distinct, ToSet
<1>2. CASE StopSending
  <2>1. UNCHANGED <<results, emitted, held, pending>>
        /\ (main' \in {"sending", "choosing", "joining"} => main \in {"sending", "choosing", "joining"})
    BY <1>2 DEF StopSending, receiver
  <2> QED
    BY <2>1, FoundUntouched DEF Once, Distinct, ToSet
<1>3. CASE Collect
  <2>1. /\ Distinct(results') /\ emitted = <<>> /\ UNCHANGED emitted /\ Held' = {}
    BY <1>3, CollectEffect
  <2>2. UNCHANGED pending /\ main' = "emitting"
    BY <1>3 DEF Collect
  <2>3. \A e : e \notin ToSet(emitted')
    BY <2>1 DEF ToSet
  <2> QED
    BY <2>1, <2>2, <2>3 DEF Once
<1>4. CASE Emit
  <2>1. /\ Distinct(results') /\ Distinct(emitted')
        /\ ToSet(results) = ToSet(results') \cup {Head(results)}
        /\ ToSet(emitted') = ToSet(emitted) \cup {Head(results)}
        /\ \A r \in ToSet(results') : r[1] # Head(results)[1]
        /\ Found' = Found /\ Held' = Held
    BY <1>4, EmitEffect
  <2>2. UNCHANGED <<pending, main>>
    BY <1>4 DEF Emit
  <2>3. \A r \in ToSet(results') : \A e \in ToSet(emitted') : r[1] # e[1]
    BY <2>1 DEF Once
  <2> QED
    BY <2>1, <2>2, <2>3 DEF Once
<1>5. CASE EmitStats
  <2>1. UNCHANGED <<results, emitted, held, pending>>
        /\ (main' \in {"sending", "choosing", "joining"} => main \in {"sending", "choosing", "joining"})
    BY <1>5 DEF EmitStats, receiver
  <2> QED
    BY <2>1, FoundUntouched DEF Once, Distinct, ToSet
<1>6. CASE Check
  <2>1. UNCHANGED <<results, emitted, held, pending>>
        /\ (main' \in {"sending", "choosing", "joining"} => main \in {"sending", "choosing", "joining"})
    BY <1>6 DEF Check, receiver
  <2> QED
    BY <2>1, FoundUntouched DEF Once, Distinct, ToSet
<1>7. CASE Push
  <2>1. /\ Held = {held} /\ Held' = {} /\ Distinct(results') /\ Found' = Found
        /\ ToSet(results') = ToSet(results) \cup {held} /\ emitted = <<>>
    BY <1>7, PushEffect
  <2>2. UNCHANGED <<pending, emitted, main>>
    BY <1>7 DEF Push
  <2>3. \A e : e \notin ToSet(emitted')
    BY <2>1, <2>2 DEF ToSet
  <2> QED
    BY <2>1, <2>2, <2>3 DEF Once
<1>8. CASE Ignore
  <2>1. UNCHANGED <<results, emitted, held, pending>>
        /\ (main' \in {"sending", "choosing", "joining"} => main \in {"sending", "choosing", "joining"})
    BY <1>8 DEF Ignore, receiver
  <2> QED
    BY <2>1, FoundUntouched DEF Once, Distinct, ToSet
<1>9. CASE ReadFails
  <2>1. UNCHANGED <<results, emitted, held, pending>>
        /\ (main' \in {"sending", "choosing", "joining"} => main \in {"sending", "choosing", "joining"})
    BY <1>9 DEF ReadFails, receiver
  <2> QED
    BY <2>1, FoundUntouched DEF Once, Distinct, ToSet
<1>10. ASSUME NEW answer \in answers, Match(answer) PROVE Once'
  <2> DEFINE t == answer[1]
             h == <<t, nature[t]>>
  <2>1. /\ t \in Ipv4 /\ answer[2] \in Sports /\ pending[answer[2]] = t
        /\ emitted = <<>> /\ Held' = {h} /\ Found' = Found \cup {h}
        /\ \A r \in Found : \A p \in Sports : pending[p] # r[1]
    BY <1>10, MatchEffect DEF Once
  <2>2. UNCHANGED <<results, emitted, main>> /\ pending' = [pending EXCEPT ![answer[2]] = Free]
    BY <1>10 DEF Match
  <2>3. \A r \in ToSet(results) : r[1] # h[1]
    BY <2>1 DEF Found
  <2>4. \A p \in Sports : pending'[p] # h[1]
    BY <2>1, <2>2, ProbedPairs DEF Once, Types
  <2>5. \A r \in Found : \A p \in Sports : pending'[p] # r[1]
    BY <2>1, <2>2, ProbedPairs, FoundType DEF Types, Reports
  <2>6. \A q, o \in Sports : pending'[q] = pending'[o] /\ pending'[q] # Free => q = o
    BY <2>1, <2>2 DEF Types, Once
  <2> QED
    BY <2>1, <2>2, <2>3, <2>4, <2>5, <2>6 DEF Once, Distinct, ToSet
<1>11. ASSUME NEW probe \in probes, Answer(probe) PROVE Once'
  <2>1. UNCHANGED <<results, emitted, held, pending>>
        /\ (main' \in {"sending", "choosing", "joining"} => main \in {"sending", "choosing", "joining"})
    BY <1>11 DEF Answer, receiver
  <2> QED
    BY <2>1, FoundUntouched DEF Once, Distinct, ToSet
<1>12. CASE Expire
  <2>1. UNCHANGED <<results, emitted, held, pending>>
        /\ (main' \in {"sending", "choosing", "joining"} => main \in {"sending", "choosing", "joining"})
    BY <1>12 DEF Expire, receiver
  <2> QED
    BY <2>1, FoundUntouched DEF Once, Distinct, ToSet
<1>13. CASE Cancel
  <2>1. UNCHANGED <<results, emitted, held, pending>>
        /\ (main' \in {"sending", "choosing", "joining"} => main \in {"sending", "choosing", "joining"})
    BY <1>13 DEF Cancel, receiver
  <2> QED
    BY <2>1, FoundUntouched DEF Once, Distinct, ToSet
<1>14. CASE UNCHANGED vars
  <2>1. UNCHANGED <<results, emitted, held, pending>>
        /\ (main' \in {"sending", "choosing", "joining"} => main \in {"sending", "choosing", "joining"})
    BY <1>14 DEF vars, receiver
  <2> QED
    BY <2>1, FoundUntouched DEF Once, Distinct, ToSet
<1>15. ASSUME NEW t \in Targets, Skip(t) PROVE Once'
  <2>1. UNCHANGED <<results, emitted, held, pending>>
        /\ (main' \in {"sending", "choosing", "joining"} => main \in {"sending", "choosing", "joining"})
    BY <1>15 DEF Skip, receiver
  <2> QED
    BY <2>1, FoundUntouched DEF Once, Distinct, ToSet
<1>16. CASE Choose
  <2>1. UNCHANGED <<results, emitted, held, pending>>
        /\ (main' \in {"sending", "choosing", "joining"} => main \in {"sending", "choosing", "joining"})
    BY <1>16 DEF Choose, receiver
  <2> QED
    BY <2>1, FoundUntouched DEF Once, Distinct, ToSet
<1> QED
  BY <1>1, <1>15, <1>16, <1>2, <1>3, <1>4, <1>5, <1>6, <1>7, <1>8, <1>9, <1>10, <1>11, <1>12, <1>13, <1>14 DEF Next, Main, OwnSteps, Reads

\* A pair that was sent never loses its trace.
LEMMA SentStep ==
  ASSUME Types, Sequencing, Once, Sent, [Next]_vars
  PROVE  Sent'
<1>1. ASSUME NEW t \in Targets, NEW p \in Sports, Send(t, p) PROVE Sent'
  <2>1. /\ UNCHANGED <<results, emitted, held>> /\ main = "choosing" /\ main' = "sending"
        /\ pending[p] = Free /\ t \in Ipv4
        /\ unsent' = unsent \ {t} /\ pending' = [pending EXCEPT ![p] = t]
    BY <1>1 DEF Send, receiver
  <2>2. Found' = Found
    BY <2>1, FoundUntouched
  <2>3. ASSUME NEW u \in Ipv4
        PROVE  (\E q \in Sports : pending'[q] = u) <=> (u = t \/ \E q \in Sports : pending[q] = u)
    BY <2>1, ProbedPairs DEF Types
  <2> QED
    BY <2>1, <2>2, <2>3 DEF Sent
<1>2. CASE StopSending
  <2>1. UNCHANGED <<results, emitted, held, pending, unsent>>
        /\ (main' \in {"sending", "choosing", "joining"} <=> main \in {"sending", "choosing", "joining"})
    BY <1>2 DEF StopSending, receiver
  <2> QED
    BY <2>1, FoundUntouched DEF Sent
<1>3. CASE Collect
  <2>1. Found' = Found \cup Silenced /\ main = "joining" /\ main' = "emitting" /\ UNCHANGED unsent
    BY <1>3, CollectEffect DEF Collect
  <2>2. ASSUME NEW u \in Ipv4
        PROVE  (\E r \in Silenced : r[1] = u) <=> (\E p \in Sports : pending[p] = u)
    <3>1. ASSUME NEW p \in Sports, pending[p] = u PROVE \E r \in Silenced : r[1] = u
      <4>1. p \in Unanswered
        BY <3>1, ProbedPairs DEF Unanswered
      <4>2. <<pending[p], "filtered">> \in Silenced
        BY <4>1 DEF Silenced
      <4> QED
        BY <3>1, <4>2
    <3>2. ASSUME NEW r \in Silenced, r[1] = u PROVE \E p \in Sports : pending[p] = u
      BY <3>2 DEF Silenced, Unanswered
    <3> QED
      BY <3>1, <3>2
  <2>3. ASSUME NEW u \in Ipv4
        PROVE  (\E r \in Found' : r[1] = u)
                 <=> (\E r \in Found : r[1] = u) \/ (\E p \in Sports : pending[p] = u)
    BY <2>1, <2>2
  <2> QED
    BY <2>1, <2>3 DEF Sent
<1>4. CASE Emit
  BY <1>4, EmitEffect DEF Emit, Sent
<1>5. CASE EmitStats
  <2>1. UNCHANGED <<results, emitted, held, pending, unsent>>
        /\ (main' \in {"sending", "choosing", "joining"} <=> main \in {"sending", "choosing", "joining"})
    BY <1>5 DEF EmitStats, receiver
  <2> QED
    BY <2>1, FoundUntouched DEF Sent
<1>6. CASE Check
  <2>1. UNCHANGED <<results, emitted, held, pending, unsent>>
        /\ (main' \in {"sending", "choosing", "joining"} <=> main \in {"sending", "choosing", "joining"})
    BY <1>6 DEF Check, receiver
  <2> QED
    BY <2>1, FoundUntouched DEF Sent
<1>7. CASE Push
  BY <1>7, PushEffect DEF Push, Sent
<1>8. CASE Ignore
  <2>1. UNCHANGED <<results, emitted, held, pending, unsent>>
        /\ (main' \in {"sending", "choosing", "joining"} <=> main \in {"sending", "choosing", "joining"})
    BY <1>8 DEF Ignore, receiver
  <2> QED
    BY <2>1, FoundUntouched DEF Sent
<1>9. CASE ReadFails
  <2>1. UNCHANGED <<results, emitted, held, pending, unsent>>
        /\ (main' \in {"sending", "choosing", "joining"} <=> main \in {"sending", "choosing", "joining"})
    BY <1>9 DEF ReadFails, receiver
  <2> QED
    BY <2>1, FoundUntouched DEF Sent
<1>10. ASSUME NEW answer \in answers, Match(answer) PROVE Sent'
  <2> DEFINE t == answer[1]
             h == <<t, nature[t]>>
  <2>1. /\ t \in Ipv4 /\ answer[2] \in Sports /\ pending[answer[2]] = t
        /\ main \in {"sending", "choosing", "joining"} /\ Found' = Found \cup {h}
    BY <1>10, MatchEffect
  <2>2. UNCHANGED <<unsent, main>> /\ pending' = [pending EXCEPT ![answer[2]] = Free]
    BY <1>10 DEF Match
  <2>3. ASSUME NEW u \in Ipv4, u # t
        PROVE  (\E q \in Sports : pending'[q] = u) <=> (\E q \in Sports : pending[q] = u)
    BY <2>1, <2>2, <2>3, ProbedPairs DEF Types
  <2>4. ASSUME NEW u \in Ipv4, u # t
        PROVE  (\E r \in Found' : r[1] = u) <=> (\E r \in Found : r[1] = u)
    BY <2>1, <2>4
  <2>5. t \notin unsent /\ h[1] = t /\ h \in Found'
    BY <2>1 DEF Sent
  <2> QED
    BY <2>1, <2>2, <2>3, <2>4, <2>5 DEF Sent
<1>11. ASSUME NEW probe \in probes, Answer(probe) PROVE Sent'
  <2>1. UNCHANGED <<results, emitted, held, pending, unsent>>
        /\ (main' \in {"sending", "choosing", "joining"} <=> main \in {"sending", "choosing", "joining"})
    BY <1>11 DEF Answer, receiver
  <2> QED
    BY <2>1, FoundUntouched DEF Sent
<1>12. CASE Expire
  <2>1. UNCHANGED <<results, emitted, held, pending, unsent>>
        /\ (main' \in {"sending", "choosing", "joining"} <=> main \in {"sending", "choosing", "joining"})
    BY <1>12 DEF Expire, receiver
  <2> QED
    BY <2>1, FoundUntouched DEF Sent
<1>13. CASE Cancel
  <2>1. UNCHANGED <<results, emitted, held, pending, unsent>>
        /\ (main' \in {"sending", "choosing", "joining"} <=> main \in {"sending", "choosing", "joining"})
    BY <1>13 DEF Cancel, receiver
  <2> QED
    BY <2>1, FoundUntouched DEF Sent
<1>14. CASE UNCHANGED vars
  <2>1. UNCHANGED <<results, emitted, held, pending, unsent>>
        /\ (main' \in {"sending", "choosing", "joining"} <=> main \in {"sending", "choosing", "joining"})
    BY <1>14 DEF vars, receiver
  <2> QED
    BY <2>1, FoundUntouched DEF Sent
<1>15. ASSUME NEW t \in Targets, Skip(t) PROVE Sent'
  <2>1. UNCHANGED <<results, emitted, held, pending, main>>
        /\ unsent' = unsent \ {t} /\ t \notin Ipv4
    BY <1>15 DEF Skip, receiver
  <2> QED
    BY <2>1, FoundUntouched DEF Sent
<1>16. CASE Choose
  <2>1. UNCHANGED <<results, emitted, held, pending>> /\ UNCHANGED unsent
        /\ (main' \in {"sending", "choosing", "joining"} <=> main \in {"sending", "choosing", "joining"})
    BY <1>16 DEF Choose, receiver
  <2> QED
    BY <2>1, FoundUntouched DEF Sent
<1> QED
  BY <1>1, <1>15, <1>16, <1>2, <1>3, <1>4, <1>5, <1>6, <1>7, <1>8, <1>9, <1>10, <1>11, <1>12, <1>13, <1>14 DEF Next, Main, OwnSteps, Reads

LEMMA MapsBackStep ==
  ASSUME Types, Sequencing, Once, MapsBack, [Next]_vars
  PROVE  MapsBack'
<1>1. ASSUME NEW t \in Targets, NEW p \in Sports, Send(t, p) PROVE MapsBack'
  BY <1>1, FoundUntouched DEF Send, link, receiver, MapsBack
<1>2. CASE StopSending
  BY <1>2, FoundUntouched DEF StopSending, link, receiver, MapsBack
<1>3. CASE Collect
  BY <1>3, CollectEffect DEF Collect, Silenced, link, MapsBack
<1>4. CASE Emit
  BY <1>4, EmitEffect DEF Emit, link, MapsBack
<1>5. CASE EmitStats
  BY <1>5, FoundUntouched DEF EmitStats, link, receiver, MapsBack
<1>6. CASE Check
  BY <1>6, FoundUntouched DEF Check, link, receiver, MapsBack
<1>7. CASE Push
  BY <1>7, PushEffect DEF Push, link, MapsBack
<1>8. CASE Ignore
  BY <1>8, FoundUntouched DEF Ignore, link, receiver, MapsBack
<1>9. CASE ReadFails
  BY <1>9, FoundUntouched DEF ReadFails, link, receiver, MapsBack
<1>10. ASSUME NEW answer \in answers, Match(answer) PROVE MapsBack'
  <2> DEFINE h == <<answer[1], nature[answer[1]]>>
  <2>1. Found' = Found \cup {h} /\ nature' = nature
    BY <1>10, MatchEffect DEF Match, link
  <2>2. h[2] = nature[h[1]]
    OBVIOUS
  <2> QED
    BY <2>1, <2>2 DEF MapsBack
<1>11. ASSUME NEW probe \in probes, Answer(probe) PROVE MapsBack'
  BY <1>11, FoundUntouched DEF Answer, link, receiver, MapsBack
<1>12. CASE Expire
  BY <1>12, FoundUntouched DEF Expire, link, receiver, MapsBack
<1>13. CASE Cancel
  BY <1>13, FoundUntouched DEF Cancel, link, receiver, MapsBack
<1>14. CASE UNCHANGED vars
  BY <1>14, FoundUntouched DEF vars, link, receiver, MapsBack
<1>15. ASSUME NEW t \in Targets, Skip(t) PROVE MapsBack'
  BY <1>15, FoundUntouched DEF Skip, link, receiver, MapsBack
<1>16. CASE Choose
  BY <1>16, FoundUntouched DEF Choose, link, receiver, MapsBack
<1> QED
  BY <1>1, <1>15, <1>16, <1>2, <1>3, <1>4, <1>5, <1>6, <1>7, <1>8, <1>9, <1>10, <1>11, <1>12, <1>13, <1>14 DEF Next, Main, OwnSteps, Reads

\* The invariant holds in every state the scan can be in.
THEOREM Invariance == Spec => []IInv
<1>1. IInv /\ [Next]_vars => IInv'
  <2> SUFFICES ASSUME IInv, [Next]_vars PROVE IInv'
    OBVIOUS
  <2> USE DEF IInv
  <2>1. Counted'
    BY CountedStep
  <2>2. Types' /\ Sequencing' /\ Once' /\ Sent' /\ MapsBack'
    BY <2>1, TypesStep, SequencingStep, OnceStep, SentStep, MapsBackStep
  <2> QED
    BY <2>1, <2>2
<1> QED
  BY InitIInv, <1>1, PTL DEF Spec

-----------------------------------------------------------------------------
(* What follows from it. *)

\* Every variable stays in its type: the counters of both threads and of the
\* summary never pass the number of pairs.
THEOREM TypeCorrect == Spec => []TypeOK
<1>1. IInv => TypeOK
  <2> SUFFICES ASSUME IInv PROVE TypeOK
    OBVIOUS
  <2> USE DEF IInv
  <2>1. ToSet(results \o emitted) = ToSet(results) \cup ToSet(emitted)
    BY ConcatReports DEF Types
  <2>2. ToSet(results \o emitted) \cup ({held} \ {<<>>}) = Found
    BY <2>1 DEF Found, Held
  <2>3. Found \subseteq Ipv4 \X States
    BY FoundType DEF Reports
  <2> QED
    BY <2>2, <2>3 DEF TypeOK, Types
<1> QED
  BY <1>1, Invariance, PTL

\* An answer is credited to the pair it came from, for every number of source
\* ports: the match in the map is enough, however often a port is used again.
THEOREM AnswersMapBack == Spec => []RepliesMapBack
<1>1. IInv => RepliesMapBack
  <2> SUFFICES ASSUME IInv PROVE RepliesMapBack
    OBVIOUS
  <2> USE DEF IInv
  <2>1. ToSet(results \o emitted) = ToSet(results) \cup ToSet(emitted)
    BY ConcatReports DEF Types
  <2>2. ToSet(results \o emitted) \cup ({held} \ {<<>>}) = Found
    BY <2>1 DEF Found, Held
  <2> QED
    BY <2>2 DEF RepliesMapBack, MapsBack
<1> QED
  BY <1>1, Invariance, PTL

\* A set of which no two members differ has one member or none.
LEMMA OneAtMost ==
  ASSUME NEW S, \A x, y \in S : x = y
  PROVE  Cardinality(S) = IF S = {} THEN 0 ELSE 1
<1>1. CASE S = {}
  BY <1>1, FS_EmptySet
<1>2. CASE S # {}
  <2>1. PICK x : x \in S
    BY <1>2
  <2>2. S = {x}
    BY <2>1
  <2> QED
    BY <1>2, <2>2, FS_Singleton
<1> QED
  BY <1>1, <1>2

\* Between any two steps of the two threads, a probe that was sent is pending,
\* held or listed, and only one of them.
THEOREM EveryProbeCounts == Spec => []ProbesAreCounted
<1>1. IInv => ProbesAreCounted
  <2> SUFFICES ASSUME IInv, main \in {"sending", "choosing", "joining"}, NEW t \in Targets
               PROVE  Cardinality({p \in Sports : pending[p] = t})
                        + Cardinality({k \in DOMAIN results : results[k][1] = t})
                        + (IF held # <<>> /\ held[1] = t THEN 1 ELSE 0)
                        = (IF t \in unsent \/ t \notin Ipv4 THEN 0 ELSE 1)
    BY DEF ProbesAreCounted
  <2> USE DEF IInv
  <2> DEFINE P == {p \in Sports : pending[p] = t}
             K == {k \in DOMAIN results : results[k][1] = t}
  <2>1. Cardinality(P) = IF P = {} THEN 0 ELSE 1
    <3>1. \A p, q \in P : p = q
      BY FreeIsNoTarget DEF Once
    <3> QED
      BY <3>1, OneAtMost
  <2>2. Cardinality(K) = IF K = {} THEN 0 ELSE 1
    <3>1. \A k, l \in K : k = l
      BY DEF Once, Distinct
    <3> QED
      BY <3>1, OneAtMost
  <2>3. P # {} <=> \E p \in Sports : pending[p] = t
    OBVIOUS
  <2>4. K # {} <=> \E r \in ToSet(results) : r[1] = t
    BY DEF ToSet
  <2>5. held # <<>> /\ held[1] = t <=> \E r \in Held : r[1] = t
    BY DEF Held
  <2>6. ToSet(emitted) = {}
    BY DEF Sequencing, ToSet
  <2>7. t \in Ipv4 =>
          (t \notin unsent <=> P # {} \/ K # {} \/ (held # <<>> /\ held[1] = t))
    BY <2>3, <2>4, <2>5, <2>6 DEF Sent, Found
  <2>a. t \notin Ipv4 => P = {} /\ K = {} /\ ~(held # <<>> /\ held[1] = t)
    <3>1. \A r \in Found : r[1] \in Ipv4
      BY FoundType, ReportIsSome
    <3>2. \A p \in Sports : pending[p] \in Ipv4 \cup {Free}
      BY DEF Types
    <3> QED
      BY <2>3, <2>4, <2>5, <3>1, <3>2, FreeIsNoTarget DEF Found
  <2>8. K # {} => ~(held # <<>> /\ held[1] = t)
    BY <2>4, <2>5 DEF Once
  <2>9. P # {} => K = {} /\ ~(held # <<>> /\ held[1] = t)
    BY <2>3, <2>4, <2>5 DEF Once, Found
  <2> QED
    BY <2>1, <2>2, <2>7, <2>a, <2>8, <2>9
<1> QED
  BY <1>1, Invariance, PTL

-----------------------------------------------------------------------------
(* Source ports. *)

\* The caller waits for a source port (the loop of syn_linux.rs:185, which does
\* not read the token) only in a scan of more IPv4 pairs than there are source
\* ports: the pending probes are of different pairs, none of them the next one.
WaitsOnlyInLargeScans ==
  main = "choosing" /\ NoPortFree => Cardinality(Ipv4) > Cardinality(Sports)

\* Whatever is answered and whatever is lost, a scan of no more IPv4 pairs than
\* source ports never waits for one: the third way to end of Terminates is left
\* to the scans that are larger.
THEOREM PortsSuffice == Spec => []WaitsOnlyInLargeScans
<1>1. IInv => WaitsOnlyInLargeScans
  <2> SUFFICES ASSUME IInv, main = "choosing", NoPortFree,
                      ~(Cardinality(Ipv4) > Cardinality(Sports))
               PROVE  FALSE
    BY DEF WaitsOnlyInLargeScans
  <2>1. PICK t : t \in unsent \cap Ipv4
    BY DEF IInv, Sequencing
  <2>2. \A p \in Sports : pending[p] # t
    BY <2>1 DEF IInv, Sent
  <2>3. pending \in [Sports -> Ipv4 \ {t}]
    BY <2>2 DEF NoPortFree, IInv, Types
  <2>4. /\ IsFiniteSet(Ipv4 \ {t})
        /\ Cardinality(Ipv4 \ {t}) = Cardinality(Ipv4) - 1
        /\ Cardinality(Ipv4) \in Nat
    BY <2>1, ProbedPairs, FS_RemoveElement, FS_CardinalityType
  <2>5. Cardinality(Ipv4 \ {t}) < Cardinality(Sports) /\ IsFiniteSet(Sports)
    BY <2>4, SportsFinite, FS_CardinalityType
  <2>6. PICK p, q \in Sports : p # q /\ pending[p] = pending[q]
    BY <2>3, <2>4, <2>5, FS_PigeonHole
  <2> QED
    BY <2>6 DEF NoPortFree, IInv, Once
<1> QED
  BY <1>1, Invariance, PTL

-----------------------------------------------------------------------------
(* Termination after the deadline. *)

Unreported == {t \in Ipv4 : \A e \in ToSet(emitted) : e[1] # t}
Unheard == (Ipv4 \X Sports) \ answers

AheadOfMain ==
  CASE main = "sending" -> 4 [] main = "choosing" -> 3 [] main = "joining" -> 2 [] main = "emitting" -> 1 [] OTHER -> 0

AheadOfThread ==
  CASE thread = "blocked" -> 3
    [] thread = "checking" /\ held # <<>> -> 2
    [] thread = "checking" /\ held = <<>> -> 1
    [] OTHER -> 0

AheadOfOthers == (IF expired THEN 0 ELSE 1) + (IF cancelled THEN 0 ELSE 1)

AheadOfBoth == AheadOfMain + AheadOfThread + AheadOfOthers

\* A pair has two steps ahead of it, Choose and Send.
StepsAhead ==
  2 * Cardinality(unsent) + Cardinality(Unreported) + Cardinality(Unheard) + AheadOfBoth

\* Until the deadline the thread reads whatever the link carries, for as long as
\* it carries something. Once the deadline has passed or the scan is cancelled
\* every step of the caller, the thread or the link brings the end nearer: neither
\* late nor repeated answers keep the scan going (syn_linux.rs, the while loop
\* of the receiver and the join after the sending loop). What can still keep it
\* from its end is that no step is taken, the two waits Terminates names.
WindsDown == [][expired \/ cancelled => StepsAhead' < StepsAhead]_vars

LEMMA SmallerSet ==
  ASSUME NEW S, IsFiniteSet(S), NEW T \in SUBSET S
  PROVE  /\ Cardinality(T) \in Nat /\ Cardinality(S) \in Nat
         /\ Cardinality(T) <= Cardinality(S)
         /\ T # S => Cardinality(T) < Cardinality(S)
<1>1. IsFiniteSet(T) /\ Cardinality(T) <= Cardinality(S) /\ (Cardinality(S) = Cardinality(T) => S = T)
  BY FS_Subset
<1>2. Cardinality(T) \in Nat /\ Cardinality(S) \in Nat
  BY <1>1, FS_CardinalityType
<1> QED
  BY <1>1, <1>2

LEMMA FewerSum ==
  \A i, j, k, x, y, z \in Nat :
    \/ x < i /\ y = j /\ z = k
    \/ x = i /\ y < j /\ z = k
    => x + y + z \in Nat /\ x + y + z < i + j + k
OBVIOUS

LEMMA WindDownStep == IInv /\ Next /\ (expired \/ cancelled) /\ vars' # vars => StepsAhead' < StepsAhead
<1> SUFFICES ASSUME IInv, Next, expired \/ cancelled, vars' # vars
             PROVE  StepsAhead' < StepsAhead
  OBVIOUS
<1> USE DEF IInv
<1> DEFINE A == 2 * Cardinality(unsent)
           R == Cardinality(Unreported)
           U == Cardinality(Unheard)
<1>1. IsFiniteSet(unsent) /\ IsFiniteSet(Unreported) /\ IsFiniteSet(Unheard)
  <2>1. IsFiniteSet(Ipv4 \X Sports)
    BY ProbedPairs, SportsFinite, FS_Product
  <2>2. unsent \in SUBSET Targets /\ Unreported \in SUBSET Ipv4
        /\ Unheard \in SUBSET (Ipv4 \X Sports)
    BY DEF Types, Unreported, Unheard
  <2> QED
    BY <2>1, <2>2, TargetsFinite, ProbedPairs, FS_Subset
<1>2. A \in Nat /\ R \in Nat /\ U \in Nat
  BY <1>1, FS_CardinalityType
<1>3. AheadOfBoth \in Nat
  BY DEF AheadOfBoth, AheadOfOthers, AheadOfMain, AheadOfThread
<1>4. unsent' = unsent => A' = A
  OBVIOUS
<1>5. emitted' = emitted => R' = R
  <2>1. emitted' = emitted => Unreported' = Unreported
    BY DEF Unreported, ToSet
  <2> QED
    BY <2>1
<1>6. answers' = answers => U' = U
  BY DEF Unheard
<1> HIDE DEF A, R, U
<1>7. ASSUME UNCHANGED <<unsent, emitted, answers>>, AheadOfBoth' \in Nat, AheadOfBoth' < AheadOfBoth
      PROVE  StepsAhead' < StepsAhead
  <2>1. A' = A /\ R' = R /\ U' = U
    BY <1>4, <1>5, <1>6, <1>7
  <2> QED
    BY <1>2, <1>3, <1>7, <2>1 DEF StepsAhead, A, R, U
<1>8. CASE \E t \in Targets, p \in Sports : Send(t, p)
  <2>1. PICK t \in Targets, p \in Sports : Send(t, p)
    BY <1>8
  <2>2. unsent' \in SUBSET unsent /\ unsent' # unsent
    BY <2>1 DEF Send
  <2>3. A' \in Nat /\ A' + 2 <= A
    BY <1>1, <2>2, SmallerSet DEF A
  <2>4. /\ UNCHANGED <<emitted, answers, thread, held, expired, cancelled>>
        /\ main = "choosing" /\ main' = "sending"
    BY <2>1 DEF Send, receiver
  <2>5. /\ R' = R /\ U' = U
        /\ AheadOfMain' = AheadOfMain + 1 /\ AheadOfMain \in Nat
        /\ AheadOfThread' = AheadOfThread /\ AheadOfOthers' = AheadOfOthers
    BY <1>5, <1>6, <2>4 DEF AheadOfOthers, AheadOfMain, AheadOfThread
  <2>6. AheadOfThread \in Nat /\ AheadOfOthers \in Nat
    BY DEF AheadOfThread, AheadOfOthers
  <2>7. AheadOfBoth' = AheadOfBoth + 1
    BY <2>5, <2>6 DEF AheadOfBoth
  <2> QED
    BY <1>2, <1>3, <2>3, <2>5, <2>7 DEF StepsAhead, A, R, U
<1>14. CASE \E t \in Targets : Skip(t)
  <2>1. PICK t \in Targets : Skip(t)
    BY <1>14
  <2>2. unsent' \in SUBSET unsent /\ unsent' # unsent
    BY <2>1 DEF Skip
  <2>3. A' < A /\ A' \in Nat
    BY <1>1, <2>2, SmallerSet DEF A
  <2>4. UNCHANGED <<emitted, answers, main, thread, held, expired, cancelled>>
    BY <2>1 DEF Skip, link, receiver
  <2>5. R' = R /\ U' = U /\ AheadOfBoth' = AheadOfBoth
    BY <1>5, <1>6, <2>4 DEF AheadOfBoth, AheadOfOthers, AheadOfMain, AheadOfThread
  <2> QED
    BY <1>2, <1>3, <2>3, <2>5 DEF StepsAhead, A, R, U
<1>9. CASE Emit
  <2>1. UNCHANGED <<unsent, answers, main, thread, held, expired, cancelled>>
    BY <1>9 DEF Emit, link, receiver
  <2>2. A' = A /\ U' = U /\ AheadOfBoth' = AheadOfBoth
    BY <1>4, <1>6, <2>1 DEF AheadOfBoth, AheadOfOthers, AheadOfMain, AheadOfThread
  <2> DEFINE r == Head(results)
  <2>3. /\ r \in Reports /\ r \in ToSet(results)
        /\ ToSet(emitted') = ToSet(emitted) \cup {r}
    BY <1>9, EmitEffect
  <2>4. \A e \in ToSet(emitted) : e[1] # r[1]
    BY <2>3 DEF Once
  <2>5. r[1] \in Unreported /\ r[1] \notin Unreported'
    BY <2>3, <2>4 DEF Unreported, Reports
  <2>6. Unreported' \in SUBSET Unreported
    BY <2>3 DEF Unreported
  <2>7. R' < R /\ R' \in Nat
    BY <1>1, <2>5, <2>6, SmallerSet DEF R
  <2> QED
    BY <1>2, <1>3, <2>2, <2>7 DEF StepsAhead, A, R, U
<1>10. CASE \E probe \in probes : Answer(probe)
  <2>1. PICK probe \in probes : Answer(probe)
    BY <1>10
  <2>2. UNCHANGED <<nature, unsent, pending, probes, tally, results, receiver, expired, main,
                    emitted, cancelled, report>>
    BY <2>1 DEF Answer
  <2>3. answers' # answers
    BY <2>2 DEF vars, link
  <2>4. probe \in Unheard /\ probe \notin Unheard' /\ Unheard' \in SUBSET Unheard
    BY <2>1, <2>3 DEF Answer, Unheard, Types
  <2>5. U' < U /\ U' \in Nat
    BY <1>1, <2>4, SmallerSet DEF U
  <2>6. A' = A /\ R' = R /\ AheadOfBoth' = AheadOfBoth
    BY <1>4, <1>5, <2>2 DEF AheadOfBoth, AheadOfOthers, AheadOfMain, AheadOfThread, receiver
  <2> QED
    BY <1>2, <1>3, <2>5, <2>6 DEF StepsAhead, A, R, U
<1>11. CASE Choose \/ StopSending \/ Collect \/ EmitStats
  <2>1. UNCHANGED <<unsent, emitted, answers, thread, held, expired, cancelled>>
    BY <1>11 DEF Choose, StopSending, Collect, EmitStats, link, receiver
  <2>2. AheadOfMain' < AheadOfMain /\ AheadOfMain \in Nat /\ AheadOfMain' \in Nat
    BY <1>11 DEF Choose, StopSending, Collect, EmitStats, AheadOfMain
  <2>3. AheadOfThread' = AheadOfThread /\ AheadOfThread \in Nat
    BY <2>1 DEF AheadOfThread
  <2>4. AheadOfOthers' = AheadOfOthers /\ AheadOfOthers \in Nat
    BY <2>1 DEF AheadOfOthers
  <2>5. AheadOfBoth' \in Nat /\ AheadOfBoth' < AheadOfBoth
    <3>1. /\ AheadOfBoth = AheadOfMain + AheadOfThread + AheadOfOthers
          /\ AheadOfBoth' = AheadOfMain' + AheadOfThread' + AheadOfOthers'
      BY DEF AheadOfBoth
    <3> QED
      BY <2>2, <2>3, <2>4, <3>1, FewerSum
  <2> QED
    BY <1>7, <2>1, <2>5
<1>12. CASE Check \/ Push \/ Ignore \/ ReadFails \/ \E answer \in answers : Match(answer)
  <2>1. UNCHANGED <<unsent, emitted, answers, main, expired, cancelled>>
    BY <1>12 DEF Check, Push, Ignore, ReadFails, Match, link
  <2>2. AheadOfThread' < AheadOfThread
    BY <1>12 DEF Check, Push, Ignore, ReadFails, Match, AheadOfThread, Types, Sequencing
  <2>3. /\ AheadOfThread \in Nat /\ AheadOfThread' \in Nat
        /\ AheadOfMain' = AheadOfMain /\ AheadOfMain \in Nat
    BY <2>1 DEF AheadOfThread, AheadOfMain
  <2>4. AheadOfOthers' = AheadOfOthers /\ AheadOfOthers \in Nat
    BY <2>1 DEF AheadOfOthers
  <2>5. AheadOfBoth' \in Nat /\ AheadOfBoth' < AheadOfBoth
    <3>1. /\ AheadOfBoth = AheadOfMain + AheadOfThread + AheadOfOthers
          /\ AheadOfBoth' = AheadOfMain' + AheadOfThread' + AheadOfOthers'
      BY DEF AheadOfBoth
    <3> QED
      BY <2>2, <2>3, <2>4, <3>1, FewerSum
  <2> QED
    BY <1>7, <2>1, <2>5
<1>13. CASE Expire \/ Cancel
  <2>1. UNCHANGED <<unsent, emitted, answers, main, thread, held>>
    BY <1>13 DEF Expire, Cancel, link, receiver
  <2>2. /\ AheadOfThread' = AheadOfThread /\ AheadOfThread \in Nat
        /\ AheadOfMain' = AheadOfMain /\ AheadOfMain \in Nat
    BY <2>1 DEF AheadOfThread, AheadOfMain
  <2>3. AheadOfBoth' \in Nat /\ AheadOfBoth' < AheadOfBoth
    BY <1>13, <2>2 DEF Expire, Cancel, AheadOfBoth, AheadOfOthers, Types
  <2> QED
    BY <1>7, <2>1, <2>3
<1> QED
  BY <1>8, <1>9, <1>10, <1>11, <1>12, <1>13, <1>14 DEF Next, Main, OwnSteps, Reads

\* What the scan owes to no fairness, of the link or of a thread.
THEOREM DeadlineEndsIt == Spec => WindsDown
<1>1. IInv /\ [Next]_vars => [expired \/ cancelled => StepsAhead' < StepsAhead]_vars
  BY WindDownStep
<1> QED
  BY <1>1, Invariance, PTL DEF Spec, WindsDown

-----------------------------------------------------------------------------
(* Refinement. *)

\* The events about a pair, and what they tell the caller.
About(seq, t) == {k \in DOMAIN seq : seq[k][1] = t}
Told(seq, t) ==
  IF Cardinality(About(seq, t)) = 1 THEN seq[CHOOSE k \in About(seq, t) : TRUE][2] ELSE NoResult

\* Of events about different pairs, one at most is about a pair, and it says
\* what the caller is told.
LEMMA OnlyEvent ==
  ASSUME NEW seq \in Seq(Reports), Distinct(seq), NEW t \in Ipv4
  PROVE  /\ Told(seq, t) \in States \cup {NoResult}
         /\ \A s \in States : Told(seq, t) = s <=> <<t, s>> \in ToSet(seq)
<1> DEFINE at == About(seq, t)
           told == Told(seq, t)
<1>1. \A k \in DOMAIN seq : seq[k] \in Reports
  BY ElementOfSeq, LenProperties
<1>2. \A k, l \in at : k = l
  BY DEF Distinct, About
<1>3. Cardinality(at) = IF at = {} THEN 0 ELSE 1
  BY <1>2, OneAtMost
<1>4. NoResult \notin States
  BY DEF NoResult, States
<1>5. CASE at = {}
  <2>1. told = NoResult
    BY <1>3, <1>5 DEF Told
  <2>2. \A s \in States : <<t, s>> \notin ToSet(seq)
    BY <1>5 DEF ToSet, About
  <2> QED
    BY <1>4, <2>1, <2>2
<1>6. CASE at # {}
  <2>1. PICK k \in at : TRUE
    BY <1>6
  <2>2. (CHOOSE l \in at : TRUE) = k
    BY <1>2, <2>1
  <2>3. told = seq[k][2]
    BY <1>3, <1>6, <2>2 DEF Told
  <2>4. k \in DOMAIN seq /\ seq[k] \in Reports /\ seq[k] = <<t, seq[k][2]>>
    BY <1>1, <2>1, ReportIsSome DEF About
  <2>5. \A s \in States : <<t, s>> \in ToSet(seq) => seq[k][2] = s
    <3> SUFFICES ASSUME NEW s \in States, NEW l \in DOMAIN seq, seq[l] = <<t, s>>
                 PROVE  seq[k][2] = s
      BY DEF ToSet
    <3>1. l \in at
      BY DEF About
    <3>2. l = k
      BY <1>2, <2>1, <3>1
    <3> QED
      BY <3>2
  <2>6. <<t, seq[k][2]>> \in ToSet(seq)
    BY <2>4 DEF ToSet
  <2> QED
    BY <2>3, <2>4, <2>5, <2>6, ReportIsSome
<1> QED
  BY <1>5, <1>6

\* What the caller is told of a pair is in the event about it, if there is one.
LEMMA ReportedIs ==
  ASSUME Types, Once, NEW t \in Ipv4
  PROVE  /\ Reported[t] \in States \cup {NoResult}
         /\ \A s \in States : Reported[t] = s <=> <<t, s>> \in ToSet(emitted)
<1>1. Reported[t] = Told(emitted, t)
  BY DEF Reported, EmittedAt, Told, About
<1> QED
  BY <1>1, OnlyEvent DEF Types, Once

\* A step that emits nothing tells the caller nothing.
LEMMA ReportedUntouched ==
  ASSUME UNCHANGED emitted
  PROVE  Reported' = Reported
BY DEF Reported, EmittedAt

\* The raw engine keeps the contract for the IPv4 pairs among those it is given,
\* for any number of pairs of either family and of source ports: an event is a
\* publication, the Stats event the conclusion, and what the two threads do
\* before is invisible.
THEOREM Refinement == Spec => KeepsContract
<1>0. /\ Contract!States = States /\ Contract!NoResult = NoResult
      /\ \A found : Contract!Tally(found)
           = [s \in States |-> Cardinality({t \in Ipv4 : found[t] = s})]
  <2>1. \A S : Contract!Cardinality(S) = Cardinality(S)
    BY DEF Cardinality, Contract!Cardinality
  <2> QED
    BY <2>1 DEF Contract!States, States, Contract!NoResult, NoResult,
                Contract!Tally
<1>1. Init => Contract!Init
  <2> SUFFICES ASSUME Init PROVE Contract!Init
    OBVIOUS
  <2>1. \A t : EmittedAt(t) = {}
    BY DEF Init, EmittedAt
  <2>2. Reported = [t \in Ipv4 |-> NoResult]
    BY <2>1, FS_EmptySet DEF Reported
  <2>3. (main = "done") = FALSE
    BY DEF Init
  <2> QED
    BY <1>0, <2>2, <2>3 DEF Init, Contract!Init
<1>2. IInv /\ IInv' /\ [Next]_vars => [Contract!Next]_(Contract!vars)
  <2> SUFFICES ASSUME IInv, IInv', [Next]_vars
               PROVE  Contract!Next \/ UNCHANGED Contract!vars
    OBVIOUS
  <2> USE DEF IInv, Contract!Next, Contract!vars
  <2>1. CASE Emit
    <3> DEFINE r == Head(results)
    <3>1. /\ r \in ToSet(results) /\ r \in Reports
          /\ ToSet(emitted') = ToSet(emitted) \cup {r}
      BY <2>1, EmitEffect
    <3>2. main = "emitting" /\ main' = main /\ UNCHANGED <<cancelled, report>>
      BY <2>1 DEF Emit
    <3>3. r[1] \in Ipv4 /\ r[2] \in States /\ r = <<r[1], r[2]>>
      BY <3>1, ReportIsSome
    <3>4. \A e \in ToSet(emitted) : e[1] # r[1]
      BY <3>1 DEF Once
    <3>5. Reported[r[1]] = NoResult
      <4>1. \A s \in States : <<r[1], s>> \notin ToSet(emitted)
        BY <3>4
      <4> QED
        BY <3>3, <4>1, ReportedIs
    <3>6. \A u \in Ipv4 : Reported'[u] = IF u = r[1] THEN r[2] ELSE Reported[u]
      <4> SUFFICES ASSUME NEW u \in Ipv4
                   PROVE  Reported'[u] = IF u = r[1] THEN r[2] ELSE Reported[u]
        OBVIOUS
      <4>1. /\ Reported'[u] \in States \cup {NoResult}
            /\ \A s \in States : Reported'[u] = s <=> <<u, s>> \in ToSet(emitted')
        <5>1. Reported'[u] = Told(emitted', u)
          BY DEF Reported, EmittedAt, Told, About
        <5> QED
          BY <5>1, OnlyEvent DEF Types, Once
      <4>2. /\ Reported[u] \in States \cup {NoResult}
            /\ \A s \in States : Reported[u] = s <=> <<u, s>> \in ToSet(emitted)
        BY ReportedIs
      <4>3. CASE u = r[1]
        BY <3>1, <3>3, <4>1, <4>3
      <4>4. CASE u # r[1]
        <5>1. \A s \in States : <<u, s>> \in ToSet(emitted') <=> <<u, s>> \in ToSet(emitted)
          BY <3>1, <3>3, <4>4
        <5> QED
          BY <4>1, <4>2, <4>4, <5>1 DEF NoResult, States
      <4> QED
        BY <4>3, <4>4
    <3>7. Reported' = [Reported EXCEPT ![r[1]] = r[2]]
      <4>1. /\ Reported = [u \in Ipv4 |-> Reported[u]]
            /\ Reported' = [u \in Ipv4 |-> Reported'[u]]
        BY DEF Reported
      <4> QED
        BY <3>6, <4>1
    <3>8. Contract!Publish(r[1], r[2])
      BY <1>0, <3>2, <3>5, <3>7 DEF Contract!Publish
    <3> QED
      BY <1>0, <3>3, <3>8
  <2>2. CASE EmitStats
    <3>1. /\ main = "emitting" /\ main' = "done" /\ results = <<>>
          /\ report' = tally /\ UNCHANGED <<emitted, cancelled>>
      BY <2>2 DEF EmitStats
    <3>2. Reported' = Reported
      BY <3>1, ReportedUntouched
    <3>3. Found = ToSet(emitted)
      BY <3>1 DEF Found, Held, Sequencing, ToSet
    <3>4. \A s \in States : {t \in Ipv4 : Reported[t] = s} = With(s)
      BY <3>3, ReportedIs DEF With
    <3>5. report' = [s \in States |-> Cardinality({t \in Ipv4 : Reported[t] = s})]
      BY <3>1, <3>4 DEF Counted, Types
    <3>6. ASSUME NEW t \in Ipv4, ~cancelled PROVE Reported[t] # NoResult
      <4>1. t \notin unsent
        BY <3>1, <3>6 DEF Sequencing
      <4>2. PICK e \in Found : e[1] = t
        BY <3>1, <4>1 DEF Sent
      <4>3. e = <<t, e[2]>> /\ e[2] \in States
        BY <4>2, FoundType, ReportIsSome
      <4>4. Reported[t] = e[2]
        BY <3>3, <4>2, <4>3, ReportedIs
      <4> QED
        BY <4>3, <4>4 DEF NoResult, States
    <3>7. (main = "done") = FALSE /\ (main = "done")' = TRUE
      BY <3>1
    <3>8. Contract!Conclude
      BY <1>0, <3>1, <3>2, <3>5, <3>6, <3>7 DEF Contract!Conclude
    <3> QED
      BY <3>8
  <2>3. CASE Cancel
    <3>1. Reported' = Reported
      BY <2>3, ReportedUntouched DEF Cancel
    <3>2. Contract!Cancel
      BY <2>3, <3>1 DEF Cancel, Contract!Cancel
    <3> QED
      BY <3>2
  <2>4. ASSUME UNCHANGED <<emitted, cancelled, report>>, main' = "done" <=> main = "done"
        PROVE  UNCHANGED Contract!vars
    BY <2>4, ReportedUntouched
  <2>5. CASE \/ \E t \in Targets : Skip(t)
             \/ Choose
             \/ \E t \in Targets, p \in Sports : Send(t, p)
             \/ StopSending
             \/ Collect
    BY <2>4, <2>5 DEF Skip, Choose, Send, StopSending, Collect
  <2>6. CASE OwnSteps \/ Reads
    BY <2>4, <2>6 DEF OwnSteps, Reads, Check, Push, Ignore, ReadFails, Match
  <2>7. CASE (\E probe \in probes : Answer(probe)) \/ Expire \/ UNCHANGED vars
    BY <2>4, <2>7 DEF Answer, Expire, vars
  <2> QED
    BY <2>1, <2>2, <2>3, <2>5, <2>6, <2>7 DEF Next, Main
<1> QED
  BY <1>1, <1>2, Invariance, PTL DEF Spec, KeepsContract, Contract!Spec
=============================================================================
