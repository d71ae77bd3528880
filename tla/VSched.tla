------------------------------- MODULE VSched -------------------------------
(***************************************************************************)
(* vsched.c: scheduling priorities that start at 0 under every policy,     *)
(* whatever range the system gives that policy.  sched_get_priority_min    *)
(* is asked anew in each call (vsched_initialized is never set), so that   *)
(* the library keeps no state.                                             *)
(***************************************************************************)
EXTENDS Integers

CONSTANTS PrioMin, PrioMax     \* of SCHED_FIFO and of SCHED_RR

RealTime == {"SCHED_FIFO", "SCHED_RR"}
Policies == RealTime \cup {"SCHED_OTHER"}

ASSUME PrioAssumption == /\ PrioMin \in [RealTime -> Nat]
                         /\ PrioMax \in [RealTime -> Nat]

VARIABLE sched     \* policy and priority of each process

Scheds == [policy : Policies, prio : Nat]

\* What sched_setscheduler(2) takes: under SCHED_OTHER priority 0 alone.
Valid(s) == IF s.policy \in RealTime
            THEN s.prio \in PrioMin[s.policy] .. PrioMax[s.policy]
            ELSE s.prio = 0

SetScheduler(t, s) == sched' = [sched EXCEPT ![t] = s]

\* Mutant: the other policy's minimum.
Real_Swapped(policy, vprio) ==
    vprio + (IF policy \in RealTime THEN PrioMin["SCHED_FIFO"] ELSE 0)

\* The switch in vsched_setscheduler and vsched_setprio.
Real(policy, vprio) ==
    vprio + (IF policy \in RealTime THEN PrioMin[policy] ELSE 0)

\* The switch in vsched_getprio; -1 is its error value.
Virtual(policy, prio) ==
    IF policy \in RealTime THEN prio - PrioMin[policy] ELSE -1

\* One system call, here where it succeeds.
vsched_setscheduler(t, policy, vprio) ==
    LET s == [policy |-> policy, prio |-> Real(policy, vprio)]
    IN  Valid(s) /\ SetScheduler(t, s)
=============================================================================
