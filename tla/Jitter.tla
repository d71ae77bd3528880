------------------------------- MODULE Jitter -------------------------------
(***************************************************************************)
(* jitter.p4.c: take a time stamp at every signal of an interval timer,    *)
(* note those that are not one interval after their predecessor, and print *)
(* a report on Control-C.  The two handlers block each other's signal, the *)
(* mainline blocks the timer's, so a handler is one step; Control-C may    *)
(* come anywhere else.                                                     *)
(***************************************************************************)
EXTENDS IntervalTimer, Sequences

CONSTANTS Hz,            \* HZ
          TimebufMax, JitterbufMax,
          MaxTime        \* bound: when the model's clock stops

ASSUME JitterAssumption ==
    /\ Hz \in 1 .. Second
    /\ TimebufMax \in Nat \ {0} /\ JitterbufMax \in Nat \ {0}
    /\ MaxTime \in Nat

VARIABLES now,           \* CLOCK_REALTIME in fractions of a second
          start_time,    \* -1 before it has been taken
          left,          \* time until the timer expires next
          nsig, this, prev,
          ta,            \* ring of time stamps
          jbuf           \* jitter noted

jitterVars == <<now, start_time, left, nsig, this, prev, ta, jbuf>>

Timespec(t) == [sec |-> t \div Second, nsec |-> t % Second]
nsecs == LET n == Second \div Hz IN n - (n % Hz)

JitterInit == /\ now \in 0 .. Second - 1 /\ start_time = -1 /\ left = 0
              /\ nsig = 0 /\ this = 0 /\ prev = -1
              /\ ta = [i \in 0 .. TimebufMax - 1 |-> 0]
              /\ jbuf = <<>>

\* Locking, blocking and handlers, each of which may fail; the start time; the
\* timer, where a refusal goes unnoticed.
JitterMain ==
    \/ /\ pc = "mlockall" /\ (Goto("sigaction_INT") \/ Goto("failed"))
       /\ UNCHANGED <<timerVars, jitterVars>>
    \/ /\ pc = "sigaction_INT" /\ (Goto("gettime") \/ Goto("failed"))
       /\ UNCHANGED <<timerVars, jitterVars>>
    \/ /\ pc = "gettime" /\ (Goto("create") \/ Goto("failed"))
       /\ start_time' = now /\ it' = [sec |-> 0, frac |-> nsecs]
       /\ UNCHANGED <<armed, pending, now, left, nsig, this, prev, ta, jbuf>>
    \/ /\ pc = "create" /\ (Goto("jitter_settime") \/ Goto("failed"))
       /\ UNCHANGED <<timerVars, jitterVars>>
    \/ /\ pc = "jitter_settime" /\ SetTime("suspended") /\ left' = Length(it)
       /\ UNCHANGED <<now, start_time, nsig, this, prev, ta, jbuf>>

\* It prints a report and exits; nothing depends on what it prints.
ctrlc == Goto("exited") /\ UNCHANGED <<timerVars, jitterVars>>

\* Whether the time stamp is one interval after the one before, or the first
\* of a second.
OnTime(t) == LET new == Timespec(t)   old == Timespec(ta[prev]) IN
    \/ new.sec = old.sec + it.sec /\ new.nsec = old.nsec + nsecs
    \/ new.sec = old.sec + 1 /\ new.nsec = 0

\* Mutant: it is counted twice.
timer_expiration_Twice ==
    /\ pc = "suspended" /\ pending /\ pending' = FALSE
    /\ nsig' = nsig + 2 /\ ta' = [ta EXCEPT ![this] = now]
    /\ UNCHANGED <<pc, it, armed, now, start_time, left, this, prev, jbuf>>

timer_expiration ==
    /\ pc = "suspended" /\ pending /\ pending' = FALSE
    /\ nsig' = nsig + 1
    /\ ta' = [ta EXCEPT ![this] = now]
    /\ IF prev >= 0
       THEN /\ jbuf' = IF OnTime(now) THEN jbuf ELSE Append(jbuf, now - ta[prev])
            /\ IF Len(jbuf') = JitterbufMax THEN Goto("exited")
                                            ELSE UNCHANGED pc
            /\ prev' = this /\ this' = (this + 1) % TimebufMax
       ELSE UNCHANGED <<pc, this, prev, jbuf>>
    /\ UNCHANGED <<it, armed, now, start_time, left>>

\* SIGINT before its handler is there ends the program.
Interrupt == IF pc \in {"mlockall", "sigaction_INT"}
             THEN Goto("killed") /\ UNCHANGED <<timerVars, jitterVars>>
             ELSE ~Over /\ ctrlc

\* Time goes by, and the timer expires at every interval.
Clock ==
    /\ now < MaxTime /\ ~Over
    /\ now' = now + 1
    /\ IF armed /\ left = 1
       THEN Expire /\ left' = Length(it)
       ELSE /\ left' = IF armed THEN left - 1 ELSE left
            /\ UNCHANGED <<pc, timerVars>>
    /\ UNCHANGED <<start_time, nsig, this, prev, ta, jbuf>>

jitter == JitterMain \/ timer_expiration
=============================================================================
