------------------------------ MODULE MCAtprio ------------------------------
(* Instances of Atprio for model checking: two policies with different      *)
(* minima.                                                                   *)
EXTENDS Atprio

Mins == [p \in RealTime |-> IF p = "SCHED_FIFO" THEN 1 ELSE 3]
Maxs == [p \in RealTime |-> IF p = "SCHED_FIFO" THEN 4 ELSE 6]

Job(program, self, delta, n) ==
    [program |-> program, self |-> self, delta |-> delta, n |-> n]

SomeJobs == {Job("atprio.1", TRUE, FALSE, 2), Job("atprio.2", TRUE, TRUE, -1),
             Job("atprio.3", FALSE, TRUE, 1), Job("atprio.3", FALSE, TRUE, 2),
             Job("atprio.3", FALSE, FALSE, 3), Job("atprio.3", TRUE, TRUE, 1),
             Job("vsched_setprio", FALSE, FALSE, 0)}

SomeSettings == {[policy |-> "SCHED_FIFO", prio |-> 1],
                 [policy |-> "SCHED_RR", prio |-> 4],
                 [policy |-> "SCHED_OTHER", prio |-> 0]}
=============================================================================
