--------------------------- MODULE TimerPrograms ---------------------------
(***************************************************************************)
(* The three programs around an interval timer; a behaviour is a run of    *)
(* one of them.                                                            *)
(***************************************************************************)
EXTENDS PeriodicTimer, Jitter

vars == <<program, pc, timerVars, requested, jitterVars>>

Init == /\ \/ /\ program \in {"periodic_timer", "periodic_timer.p4"}
              /\ pc = "options" /\ PeriodicStart
              /\ armed = FALSE /\ pending = FALSE
           \/ /\ program = "jitter" /\ pc = "mlockall"
              /\ TimerInit /\ requested = Default
        /\ JitterInit

Periodic == program # "jitter" /\ periodic /\ UNCHANGED jitterVars
Tick == program # "jitter" /\ Expire /\ UNCHANGED <<requested, jitterVars>>
JitterRun == program = "jitter" /\ jitter /\ UNCHANGED requested
Time == program = "jitter" /\ Clock /\ UNCHANGED requested
ControlC == program = "jitter" /\ Interrupt /\ UNCHANGED requested
Ended == Over /\ UNCHANGED vars
Asleep == pc = "suspended" /\ ~pending /\ UNCHANGED vars

Next == /\ \/ Periodic \/ Tick \/ JitterRun \/ Time \/ ControlC
           \/ Ended \/ Asleep
        /\ UNCHANGED program

\* Programs run and an armed timer keeps expiring; Control-C need not come.
Spec == /\ Init /\ [][Next]_vars
        /\ WF_vars(Periodic /\ UNCHANGED program)
        /\ WF_vars(JitterRun /\ UNCHANGED program)
        /\ WF_vars(Tick /\ UNCHANGED program)

-----------------------------------------------------------------------------
(* Properties.                                                             *)

JitterTypeOK ==
    /\ now \in Nat /\ left \in Nat /\ start_time \in Nat \cup {-1}
    /\ nsig \in Nat /\ this \in 0 .. TimebufMax - 1
    /\ prev \in -1 .. TimebufMax - 1
    /\ ta \in [0 .. TimebufMax - 1 -> Nat] /\ jbuf \in Seq(Nat)

TypeOK ==
    /\ program \in {"periodic_timer", "periodic_timer.p4", "jitter"}
    /\ pc \in {"options", "normalise", "sigaction", "timer_create", "settime",
              "suspended", "handler", "mlockall", "sigaction_INT", "gettime",
              "create", "jitter_settime", "failed", "refused", "exited",
              "killed"}
    /\ it \in [sec : Nat, frac : Int] /\ requested \in Requests \cup {Default}
    /\ armed \in BOOLEAN /\ pending \in BOOLEAN
    /\ JitterTypeOK

\* What the timers do not take of what -t may be.
Refused(n) == n < 0 \/ (n > 0 /\ n % Second = 0)

\* The usage line of periodic_timer.p4.c is "{-t nsecs}", that of
\* periodic_timer.c "{-t usecs}": the timer is set to the interval last asked
\* for, in that unit.  Negative intervals and whole numbers of seconds are
\* refused, always, and no others; with 0 the timer never starts.  The comment on
\* -t, "specify time interval in usec" in both, is wrong in periodic_timer.p4.c:
\* its line 12 is denied by the code and by the usage line.
PeriodAsAsked ==
    /\ program # "jitter" /\ pc \in {"suspended", "handler"} =>
          /\ Length(it) = requested /\ ~Refused(requested)
          /\ armed = (requested # 0)
    /\ pc = "refused" => Refused(requested)

\* "This program takes timer interrupts forever", if asked for any interval.
TicksForever ==
    program # "jitter" /\ requested # 0 /\ pc = "suspended" ~> pc = "handler"

\* jitter.p4.c reports "1 signal every ..." from nsig and the time elapsed:
\* signals may be missed but none is counted before its interval has passed.
SignalsFit ==
    start_time # -1 => nsig * Length(it) <= now - start_time

\* "Jitter wasn't measured on the first signal", but it is on the later ones:
\* they have a time stamp to compare their own with.
Measures == nsig > 1 => prev >= 0

-----------------------------------------------------------------------------
(* The inductive invariant behind the safety properties.                   *)

\* periodic_timer: normalising moves whole seconds about and keeps at least a
\* part of one back.
Normalised ==
    program # "jitter" =>
        /\ pc \in {"options", "normalise", "sigaction", "timer_create", "settime",
                   "suspended", "handler", "failed", "refused"}
        /\ start_time = -1 /\ Length(it) = requested
        /\ it.sec > 0 => it.frac > 0
        /\ pc # "normalise" => it.frac <= Second

\* jitter: what has been set up before the timer starts.
Started ==
    program = "jitter" =>
        /\ IF start_time = -1
           THEN ~armed /\ pc \in {"mlockall", "sigaction_INT", "gettime",
                                  "exited", "failed", "killed"}
           ELSE start_time <= now /\ it = [sec |-> 0, frac |-> nsecs]
                /\ pc \in {"create", "jitter_settime", "suspended", "exited", "failed"}
        /\ pc \in {"create", "jitter_settime"} => ~armed
        /\ \A i \in 0 .. TimebufMax - 1 : ta[i] <= now

\* jitter: the intervals counted, the one whose signal is pending and what has
\* passed of the current one fit into the time since the start.
Ticking ==
    program = "jitter" =>
        IF armed
        THEN /\ left \in 1 .. Length(it)
             /\ (nsig + (IF pending THEN 2 ELSE 1)) * Length(it) - left <= now - start_time
        ELSE nsig = 0 /\ ~pending

IInv == /\ TypeOK /\ PeriodAsAsked /\ Normalised
        /\ Started /\ Ticking
=============================================================================
