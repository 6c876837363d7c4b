---------------------------- MODULE RateLimiter -----------------------------
(***************************************************************************)
(* RateLimiter of ares-net/src/rate.rs, as the futures of a scan share it. *)
(*                                                                         *)
(* until_ready reserves a slot under the lock and sleeps until it, outside *)
(* the lock; a return is a permission to send. Time is counted in ticks    *)
(* since RateLimiter::new; a sleep may overrun.                            *)
(***************************************************************************)
EXTENDS FiniteSets, Integers

CONSTANTS
  Callers,    \* the futures that share the limiter
  Interval,   \* 10^9 / pps, in ticks
  Horizon     \* bound on the clock

ASSUME CallersFinite == IsFiniteSet(Callers)
ASSUME IntervalNatural == Interval \in Nat
ASSUME HorizonNatural == Horizon \in Nat

VARIABLES
  now,        \* Instant::now()
  last,       \* the instant of the latest slot given out
  sleeping,   \* the callers in sleep(w)
  wake,       \* when each caller's latest sleep ends
  granted     \* how often each caller was let through

vars == <<now, last, sleeping, wake, granted>>

Init ==
  /\ now = 0
  /\ last = 0
  /\ sleeping = {}
  /\ wake = [c \in Callers |-> 0]
  /\ granted = [c \in Callers |-> 0]

\* A return to the caller. The counter issued, on which nothing depends, is
\* left out.
Grant(c) == granted' = [granted EXCEPT ![c] = @ + 1]

\* Faulty variant: a distance that does not saturate at 0.
ElapsedUnsaturated == now - last

\* now.saturating_duration_since(last)
Elapsed == IF now > last THEN now - last ELSE 0

\* Faulty variants: the slot given out is the present, not the end of the wait;
\* it is counted back from the present.
SlotNow == now
SlotBehind == IF Elapsed < Interval THEN now - (Interval - Elapsed) ELSE now

\* What last becomes: the end of the wait, or now if there is none.
Slot == IF Elapsed < Interval THEN now + (Interval - Elapsed) ELSE now

\* The critical section finds the interval not over.
Reserve(c) ==
  /\ c \notin sleeping
  /\ Elapsed < Interval
  /\ last' = Slot
  /\ wake' = [wake EXCEPT ![c] = now + (Interval - Elapsed)]
  /\ sleeping' = sleeping \cup {c}
  /\ UNCHANGED <<now, granted>>

\* The critical section finds the interval over.
Pass(c) ==
  /\ c \notin sleeping
  /\ Elapsed >= Interval
  /\ last' = Slot
  /\ Grant(c)
  /\ UNCHANGED <<now, sleeping, wake>>

Awake(c) ==
  /\ c \in sleeping
  /\ now >= wake[c]
  /\ sleeping' = sleeping \ {c}
  /\ Grant(c)
  /\ UNCHANGED <<now, last, wake>>

Tick ==
  /\ now < Horizon
  /\ now' = now + 1
  /\ UNCHANGED <<last, sleeping, wake, granted>>

Next ==
  \/ \E c \in Callers : Reserve(c) \/ Pass(c) \/ Awake(c)
  \/ Tick

Spec == Init /\ [][Next]_vars
-----------------------------------------------------------------------------
(* Properties *)

TypeOK ==
  /\ now \in 0 .. Horizon
  /\ last \in Nat
  /\ sleeping \subseteq Callers
  /\ wake \in [Callers -> Nat]
  /\ granted \in [Callers -> Nat]

\* No caller is told to wait longer than one interval, however many compete:
\* a caller that finds the last slot still ahead waits one interval from now
\* and does not queue behind it (until_ready, saturating_duration_since).
WaitBounded == \A c \in sleeping : wake[c] <= now + Interval

\* Each caller by itself keeps to the rate: in t ticks it is let through at
\* most t / Interval times, whatever the others do and however late it wakes.
PerCallerPace == \A c \in Callers : granted[c] * Interval <= now

\* The slot under the lock never moves back, so no caller is let through on
\* the strength of a slot that another one had already taken.
SlotsMoveForward == [][last' >= last]_vars
=============================================================================
