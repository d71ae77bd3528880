--------------------------- MODULE PeriodicTimer ---------------------------
(***************************************************************************)
(* periodic_timer.p4.c and periodic_timer.c, which "take timer interrupts  *)
(* forever": the one with a POSIX.4 timer, the other with a Berkeley-style *)
(* one, at an interval given by -t, in the unit of that timer: a fraction  *)
(* of a second is a nanosecond in the first and a microsecond in the other.*)
(***************************************************************************)
EXTENDS IntervalTimer

CONSTANTS Default,     \* DEFAULT_NSECS, DEFAULT_USECS
          Requests     \* the arguments of -t

ASSUME RequestsAssumption ==
    Default \in 1 .. Second - 1 /\ Requests \subseteq Int

VARIABLE requested     \* the interval asked for

PeriodicStart == it = [sec |-> 0, frac |-> Default] /\ requested = Default

\* The options, of which each -t replaces the one before, and any other than
\* -v is an error.
Options ==
    /\ pc = "options"
    /\ \/ \E n \in Requests : /\ Goto("normalise") /\ requested' = n
                              /\ it' = [sec |-> 0, frac |-> n]
       \/ (Goto("sigaction") \/ Goto("failed")) /\ UNCHANGED <<it, requested>>
    /\ UNCHANGED <<armed, pending>>

\* Mutant: the seconds are not counted.
Normalise_NoSeconds ==
    /\ pc = "normalise"
    /\ IF it.frac > Second
       THEN it' = [it EXCEPT !.frac = @ - Second] /\ UNCHANGED pc
       ELSE Goto("options") /\ UNCHANGED it
    /\ UNCHANGED <<armed, pending, requested>>

\* while (tv_nsec > 1000000000): a whole number of seconds stays one short.
Normalise ==
    /\ pc = "normalise"
    /\ IF it.frac > Second
       THEN /\ it' = [sec |-> it.sec + 1, frac |-> it.frac - Second]
            /\ UNCHANGED pc
       ELSE Goto("options") /\ UNCHANGED it
    /\ UNCHANGED <<armed, pending, requested>>

\* sigaction; timer_create in periodic_timer.p4.c; and setting the timer.
Install ==
    \/ /\ pc = "sigaction"
       /\ \/ Goto("failed")
          \/ Goto(IF program = "periodic_timer.p4" THEN "timer_create"
                                                   ELSE "settime")
       /\ UNCHANGED <<timerVars, requested>>
    \/ /\ pc = "timer_create" /\ (Goto("failed") \/ Goto("settime"))
       /\ UNCHANGED <<timerVars, requested>>
    \/ pc = "settime" /\ SetTime("refused") /\ UNCHANGED requested

\* The handler, within which its signal is blocked, and the return to the loop.
timer_intr ==
    \/ /\ pc = "suspended" /\ pending /\ Goto("handler")
       /\ pending' = FALSE /\ UNCHANGED <<it, armed, requested>>
    \/ pc = "handler" /\ Goto("suspended") /\ UNCHANGED <<timerVars, requested>>

periodic == Options \/ Normalise \/ Install \/ timer_intr
=============================================================================
