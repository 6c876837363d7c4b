------------------------- MODULE RateLimiterProofs --------------------------
(***************************************************************************)
(* Theorems about RateLimiter, for every set of callers, every interval    *)
(* and every horizon of the clock.                                         *)
(*                                                                         *)
(* PerCallerPace needs to know where the slots are: SlotInv says that what *)
(* a caller has been granted fits before the last slot, and what a sleeper *)
(* is about to be granted before the end of its sleep.                     *)
(***************************************************************************)
EXTENDS RateLimiter, TLAPS

SlotInv ==
  /\ last <= now + Interval
  /\ \A c \in Callers : granted[c] * Interval <= last
  /\ \A c \in sleeping :
       /\ wake[c] <= last
       /\ (granted[c] + 1) * Interval <= wake[c]

IInv == TypeOK /\ WaitBounded /\ PerCallerPace /\ SlotInv

\* The next grant costs one interval.
LEMMA NextGrant ==
  ASSUME NEW n \in Nat
  PROVE  (n + 1) * Interval = n * Interval + Interval /\ n * Interval \in Nat
  BY IntervalNatural

LEMMA InitIInv == Init => IInv
  BY IntervalNatural, HorizonNatural
     DEF Init, IInv, TypeOK, WaitBounded, PerCallerPace, SlotInv

\* A new slot lies one interval after the last one or after now.
LEMMA SlotPosition ==
  ASSUME IInv
  PROVE  /\ Slot \in Nat /\ Slot <= now + Interval /\ Slot >= last /\ Slot >= now
         /\ Elapsed < Interval => /\ Slot = now + (Interval - Elapsed)
                                  /\ Slot >= last + Interval \/ Slot = now + Interval
         /\ Elapsed >= Interval => Slot = now /\ now >= last + Interval
  BY IntervalNatural, HorizonNatural DEF IInv, TypeOK, SlotInv, Slot, Elapsed

LEMMA ReserveIInv ==
  ASSUME IInv, NEW c \in Callers, Reserve(c)
  PROVE  IInv'
<1> USE DEF IInv, Reserve
<1>1. TypeOK'
  BY SlotPosition DEF TypeOK
<1>2. (granted[c] + 1) * Interval <= Slot
  BY SlotPosition, NextGrant, IntervalNatural DEF TypeOK, SlotInv, PerCallerPace
<1>3. SlotInv'
  BY <1>2, SlotPosition, NextGrant, IntervalNatural DEF SlotInv, TypeOK
<1>4. WaitBounded' /\ PerCallerPace'
  BY SlotPosition DEF WaitBounded, PerCallerPace, TypeOK
<1>5. QED
  BY <1>1, <1>3, <1>4

LEMMA PassIInv ==
  ASSUME IInv, NEW c \in Callers, Pass(c)
  PROVE  IInv'
<1> USE DEF IInv, Pass, Grant
<1>1. TypeOK'
  BY SlotPosition DEF TypeOK
<1>2. (granted[c] + 1) * Interval <= now
  BY SlotPosition, NextGrant, IntervalNatural DEF TypeOK, SlotInv
<1>3. \A d \in Callers : granted[d] * Interval <= now
  BY DEF PerCallerPace
<1>4. \A d \in Callers : granted'[d] * Interval <= now
  BY <1>2, <1>3 DEF TypeOK
<1>5. WaitBounded' /\ PerCallerPace'
  BY <1>4 DEF WaitBounded, PerCallerPace
<1>6. SlotInv'
  BY <1>4, SlotPosition, NextGrant, IntervalNatural, HorizonNatural DEF SlotInv, TypeOK
<1>7. QED
  BY <1>1, <1>5, <1>6

LEMMA AwakeIInv ==
  ASSUME IInv, NEW c \in Callers, Awake(c)
  PROVE  IInv'
<1> USE DEF IInv, Awake, Grant
<1>1. TypeOK'
  BY DEF TypeOK
<1>2. (granted[c] + 1) * Interval <= now /\ (granted[c] + 1) * Interval <= last
  BY NextGrant, IntervalNatural, HorizonNatural DEF TypeOK, SlotInv
<1>3. \A d \in Callers : granted'[d] * Interval <= now /\ granted'[d] * Interval <= last
  BY <1>2 DEF TypeOK, PerCallerPace, SlotInv
<1>4. \A d \in sleeping' : granted'[d] = granted[d]
  BY DEF TypeOK
<1>5. WaitBounded' /\ PerCallerPace' /\ SlotInv'
  BY <1>3, <1>4 DEF WaitBounded, PerCallerPace, SlotInv
<1>6. QED
  BY <1>1, <1>5

LEMMA StepIInv == IInv /\ [Next]_vars => IInv'
<1> SUFFICES ASSUME IInv, [Next]_vars PROVE IInv'
  OBVIOUS
<1>1. CASE \E c \in Callers : Reserve(c) \/ Pass(c) \/ Awake(c)
  BY <1>1, ReserveIInv, PassIInv, AwakeIInv
<1>2. CASE Tick
  <2> USE <1>2 DEF Tick, IInv
  <2>1. TypeOK'
    BY HorizonNatural DEF TypeOK
  <2>2. \A d \in Callers : granted[d] * Interval \in Nat
    BY NextGrant DEF TypeOK
  <2>3. WaitBounded' /\ PerCallerPace' /\ SlotInv'
    BY <2>2, IntervalNatural, HorizonNatural
       DEF WaitBounded, PerCallerPace, SlotInv, TypeOK
  <2>4. QED
    BY <2>1, <2>3
<1>3. CASE UNCHANGED vars
  BY <1>3 DEF vars, IInv, TypeOK, WaitBounded, PerCallerPace, SlotInv
<1>4. QED
  BY <1>1, <1>2, <1>3 DEF Next

\* IInv is an invariant of the limiter.
THEOREM Invariance == Spec => []IInv
  BY InitIInv, StepIInv, PTL DEF Spec

\* Types: in particular the clock's bound is the only bound on time.
THEOREM TypeCorrect == Spec => []TypeOK
<1>1. IInv => TypeOK
  BY DEF IInv
<1>2. QED
  BY <1>1, Invariance, PTL

\* No caller waits longer than an interval.
THEOREM BoundedWait == Spec => []WaitBounded
<1>1. IInv => WaitBounded
  BY DEF IInv
<1>2. QED
  BY <1>1, Invariance, PTL

\* Each caller keeps to the rate.
THEOREM CallerPace == Spec => []PerCallerPace
<1>1. IInv => PerCallerPace
  BY DEF IInv
<1>2. QED
  BY <1>1, Invariance, PTL

\* The slots move forward.
THEOREM MonotoneSlots == Spec => SlotsMoveForward
<1>1. IInv /\ [Next]_vars => [last' >= last]_vars
  <2> SUFFICES ASSUME IInv, [Next]_vars PROVE last' >= last \/ UNCHANGED vars
    OBVIOUS
  <2>1. last >= last
    BY DEF IInv, TypeOK
  <2>2. QED
    BY <2>1, SlotPosition DEF Next, Reserve, Pass, Awake, Tick
<1>2. QED
  BY <1>1, Invariance, PTL DEF Spec, SlotsMoveForward
=============================================================================
