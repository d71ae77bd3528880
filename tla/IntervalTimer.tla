--------------------------- MODULE IntervalTimer ---------------------------
(***************************************************************************)
(* What periodic_timer.c, periodic_timer.p4.c and jitter.p4.c share: a     *)
(* timer of the kernel, set from a number of seconds and a fraction of     *)
(* one, that makes its signal pending each time it expires.                *)
(***************************************************************************)
EXTENDS Integers

CONSTANTS Second     \* fractions in a second: 10^9 nanoseconds for a timer of
                     \* POSIX.4, 10^6 microseconds for setitimer

ASSUME SecondAssumption == Second \in Nat \ {0}

VARIABLES program, pc,
          it,          \* the interval: sec and frac
          armed,       \* the timer is ticking
          pending      \* its signal is pending

timerVars == <<it, armed, pending>>

Goto(to) == pc' = to
Over == pc \in {"failed", "refused", "exited", "killed"}

Length(i) == i.sec * Second + i.frac

TimerInit == it = [sec |-> 0, frac |-> 0] /\ armed = FALSE /\ pending = FALSE

\* Mutant: it_interval is set and it_value is not, so that the timer never starts.
SetTime_NoValue(refused) ==
    /\ IF it.frac \in 0 .. Second - 1 THEN Goto("suspended") ELSE Goto(refused)
    /\ UNCHANGED timerVars

\* A fraction out of range is an error, an interval of 0 stops the timer.
SetTime(refused) ==
    /\ IF it.frac \in 0 .. Second - 1
       THEN Goto("suspended") /\ armed' = (Length(it) # 0)
       ELSE Goto(refused) /\ UNCHANGED armed
    /\ UNCHANGED <<it, pending>>

\* A signal already pending absorbs the new one: an overrun.
Expire == armed /\ ~Over /\ pending' = TRUE /\ UNCHANGED <<pc, it, armed>>
=============================================================================
