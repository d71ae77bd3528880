----------------------------- MODULE ForkedPair -----------------------------
(***************************************************************************)
(* The skeleton that the two-process benchmarks share: a parent installs   *)
(* its signal handlers, forks a child, arms a 60-second alarm and loops;   *)
(* alarm_handler prints the parent's counters, signals the child and       *)
(* exits; the child prints its own counters and exits.                     *)
(*                                                                         *)
(* A process is in its mainline code (pc: the next call) and possibly in a *)
(* signal handler on top of it (hnd).  The counters are per process: the   *)
(* two share no memory.  Signals in pend are standard signals: pending or  *)
(* not, never twice.                                                       *)
(***************************************************************************)
EXTENDS Naturals

VARIABLES
    status,   \* is the process there, running, or how has it exited
    pc,       \* next system call (or counter update) of the mainline
    hnd,      \* handler on top of the mainline
    mask,     \* signals blocked with sigprocmask
    pend,     \* standard signals pending
    alarm,    \* the parent's alarm clock is ticking
    reaped,   \* the parent's exit status has been collected by its shell
    count,    \* the global counters of each process
    report    \* what each process has printed at the end

procVars == <<status, pc, hnd, mask>>
sigVars  == <<pend, alarm, reaped>>
cntVars  == <<count, report>>
pairVars == <<procVars, sigVars, cntVars>>

Procs == {"parent", "child"}
Exits == {"exit0", "exit1", "exit2"}

\* Two counts differ by at most one.
Close(m, n) == m <= n + 1 /\ n <= m + 1

Peer(p) == IF p = "parent" THEN "child" ELSE "parent"

\* points, handlers, sigs, counters: the values these components take.
PairTypeOK(points, handlers, sigs, counters) ==
    /\ status \in [Procs -> {"unborn", "running"} \cup Exits]
    /\ pc \in [Procs -> {"main", "fork", "alarm"} \cup points]
    /\ hnd \in [Procs -> {"none"} \cup handlers]
    /\ mask \in [Procs -> SUBSET sigs]
    /\ pend \in [Procs -> SUBSET sigs]
    /\ alarm \in BOOLEAN
    /\ reaped \in BOOLEAN
    /\ count \in [Procs -> counters]
    /\ report \in [Procs -> [printed : BOOLEAN, count : counters]]

\* start: where the child begins.  zero: the initial counters.
PairInit(start, zero) ==
    /\ status = [p \in Procs |-> IF p = "parent" THEN "running" ELSE "unborn"]
    /\ pc = [p \in Procs |-> IF p = "parent" THEN "main" ELSE start]
    /\ hnd = [p \in Procs |-> "none"]
    /\ mask = [p \in Procs |-> {}]
    /\ pend = [p \in Procs |-> {}]
    /\ alarm = FALSE
    /\ reaped = FALSE
    /\ count = [p \in Procs |-> zero]
    /\ report = [p \in Procs |-> [printed |-> FALSE, count |-> zero]]

InMain(p, at) == status[p] = "running" /\ hnd[p] = "none" /\ pc[p] = at
InHandler(p, h) == status[p] = "running" /\ hnd[p] = h

Goto(p, to) == pc' = [pc EXCEPT ![p] = to]
Exit(p, how) == status' = [status EXCEPT ![p] = how]

\* kill(2): a signal to a process that has exited but not been reaped is
\* dropped, and the call succeeds.
Exists(p) == status[p] # "unborn" /\ ~(p = "parent" /\ reaped)
Raise(p, s) == pend' = IF status[p] = "running"
                       THEN [pend EXCEPT ![p] = @ \cup {s}] ELSE pend

\* sigprocmask and the sigactions, one of which may fail.
StartUp(blocked) ==
    /\ InMain("parent", "main")
    /\ mask' = [mask EXCEPT !["parent"] = blocked]
    /\ \/ Goto("parent", "fork") /\ UNCHANGED status
       \/ Exit("parent", "exit1") /\ UNCHANGED pc
    /\ UNCHANGED <<hnd, sigVars, cntVars>>

\* The child inherits the mask, the handlers and the counters, not the alarm.
ForkChild ==
    /\ InMain("parent", "fork")
    /\ \/ /\ Exit("child", "running")
          /\ Goto("parent", "alarm")
          /\ mask' = [mask EXCEPT !["child"] = mask["parent"]]
       \/ /\ Exit("parent", "exit2")
          /\ UNCHANGED <<pc, mask>>
    /\ UNCHANGED <<hnd, sigVars, cntVars>>

ArmAlarm(first) ==
    /\ InMain("parent", "alarm")
    /\ alarm' = TRUE
    /\ Goto("parent", first)
    /\ UNCHANGED <<status, hnd, mask, pend, reaped, cntVars>>

\* kill(peer, s) in the loop of p.  When it fails the loop function returns
\* and main exits with 0.
KillPeer(p, s, next) ==
    /\ InMain(p, "kill")
    /\ IF Exists(Peer(p))
       THEN Raise(Peer(p), s) /\ Goto(p, next) /\ UNCHANGED status
       ELSE Exit(p, "exit0") /\ UNCHANGED <<pc, pend>>
    /\ UNCHANGED <<hnd, mask, alarm, reaped, cntVars>>

\* counter++ in the mainline, after the call it counts.
Increment(p, at, c, next) ==
    /\ InMain(p, at)
    /\ count' = [count EXCEPT ![p][c] = @ + 1]
    /\ Goto(p, next)
    /\ UNCHANGED <<status, hnd, mask, sigVars, report>>

Step(p, at, next) ==
    /\ InMain(p, at)
    /\ Goto(p, next)
    /\ UNCHANGED <<status, hnd, mask, sigVars, cntVars>>

\* A pending signal s that is not in blocked starts handler h.
EnterHandler(p, s, blocked, h) ==
    /\ status[p] = "running" /\ s \in pend[p] /\ s \notin blocked
    /\ pend' = [pend EXCEPT ![p] = @ \ {s}]
    /\ hnd' = [hnd EXCEPT ![p] = h]
    /\ UNCHANGED <<status, pc, mask, alarm, reaped, cntVars>>

Report(p) == report' = [report EXCEPT ![p] = [printed |-> TRUE,
                                              count   |-> count[p]]]

\* The parent's handler: print, signal the child, exit.
AlarmHandler(s) ==
    \/ /\ InHandler("parent", "alarm_handler")
       /\ Report("parent")
       /\ Raise("child", s)
       /\ hnd' = [hnd EXCEPT !["parent"] = "alarm_exit"]
       /\ UNCHANGED <<status, pc, mask, alarm, reaped, count>>
    \/ /\ InHandler("parent", "alarm_exit")
       /\ Exit("parent", "exit0")
       /\ UNCHANGED <<pc, hnd, mask, sigVars, cntVars>>

\* The child's handler: print and exit.
TerminateChild ==
    /\ InHandler("child", "child_terminate")
    /\ Report("child")
    /\ Exit("child", "exit0")
    /\ UNCHANGED <<pc, hnd, mask, sigVars, count>>

\* The environment: the alarm clock, and the shell waiting for the parent.
AlarmExpires ==
    /\ alarm /\ alarm' = FALSE
    /\ Raise("parent", "SIGALRM")
    /\ UNCHANGED <<procVars, reaped, cntVars>>

Reap ==
    /\ status["parent"] \in Exits /\ ~reaped /\ reaped' = TRUE
    /\ UNCHANGED <<procVars, pend, alarm, cntVars>>

AllOver == /\ status["parent"] \in Exits /\ reaped
           /\ status["child"] # "running"

Terminated == AllOver /\ UNCHANGED pairVars
=============================================================================
