------------------------------- MODULE Atprio -------------------------------
(***************************************************************************)
(* atprio.1.c, atprio.2.c and atprio.3.c, and programs that call           *)
(* vsched_setprio, run from one shell in any number and in parallel.  A    *)
(* run adjusts either itself, before it runs a command, or (version 3      *)
(* without a command) the shell.  Each system call is a step of its own.   *)
(***************************************************************************)
EXTENDS VSched, FiniteSets, FiniteSetsExt

CONSTANTS Runs, Shell,
          Jobs,           \* what a run may be asked to do
          Settings        \* policies and priorities others give the shell

Programs == {"atprio.1", "atprio.2", "atprio.3", "vsched_setprio"}
JobType == [program : Programs,
            self    : BOOLEAN,     \* it affects itself and not the shell
            delta   : BOOLEAN,     \* +n or -n, not a priority n
            n       : Int]

ASSUME RunAssumption ==
    /\ Shell \notin Runs
    /\ Settings \subseteq {s \in Scheds : Valid(s)}
    /\ Jobs \subseteq JobType
    /\ \A j \in Jobs : /\ j.program \in {"atprio.1", "atprio.2"} => j.self
                       /\ j.program \in {"atprio.1", "vsched_setprio"} => ~j.delta

VARIABLES job,       \* of each run, from its argv
          call,      \* its next system call
          policy,    \* local variable policy of main (sched_policy of setprio)
          looked,    \* local variable sched_policy of vsched_getprio
          vprio,     \* cmd_sched_params.sched_priority
          changed,   \* somebody else has changed the shell's scheduling
          began,     \* scheduling of the shell at first
          base,      \* scheduling of each run's target when the run started
          touched    \* runs whose target has been changed by others since

locals == <<policy, looked, vprio>>
history == <<began, base, touched>>
atprioVars == <<sched, job, call, locals, changed, history>>

Target(a) == IF job[a].self THEN a ELSE Shell
HasCommand(a) == job[a].self /\ job[a].program # "vsched_setprio"

AtprioTypeOK ==
    /\ sched \in [Runs \cup {Shell} -> {s \in Scheds : Valid(s)}]
    /\ job \in [Runs -> Jobs]
    /\ call \in [Runs -> {"start", "policy", "getscheduler", "getparam", "set",
                          "exec", "command", "exit0", "exit2", "exit3"}]
    /\ policy \in [Runs -> Policies] /\ looked \in [Runs -> Policies]
    /\ vprio \in [Runs -> Int]
    /\ changed \in BOOLEAN
    /\ began \in Settings
    /\ base \in [Runs -> Scheds] /\ touched \in SUBSET Runs

AtprioInit == \E s \in Settings :
    /\ sched = [p \in Runs \cup {Shell} |-> s]
    /\ job \in [Runs -> Jobs]
    /\ call = [a \in Runs |-> "start"]
    /\ policy = [a \in Runs |-> "SCHED_FIFO"]
    /\ looked = [a \in Runs |-> "SCHED_OTHER"]
    /\ vprio = [a \in Runs |-> 0]
    /\ changed = FALSE
    /\ began = s /\ base = [a \in Runs |-> s] /\ touched = {}

GoOn(a, to) == call' = [call EXCEPT ![a] = to]

\* The shell forks a process for the run, which inherits its scheduling.
Start(a) ==
    /\ call[a] = "start"
    /\ GoOn(a, IF job[a].program = "atprio.1" THEN "set" ELSE "policy")
    /\ sched' = [sched EXCEPT ![a] = sched[Shell]]
    /\ base' = [base EXCEPT ![a] = sched[Shell]]
    /\ vprio' = [vprio EXCEPT ![a] = job[a].n]
    /\ UNCHANGED <<job, policy, looked, changed, began, touched>>

\* atprio.2 and atprio.3 give up under SCHED_OTHER.
GetPolicy(a) ==
    /\ call[a] = "policy" /\ job[a].program # "vsched_setprio"
    /\ policy' = [policy EXCEPT ![a] = sched[Target(a)].policy]
    /\ GoOn(a, IF policy'[a] \notin RealTime THEN "exit2"
               ELSE IF job[a].delta THEN "getscheduler" ELSE "set")
    /\ UNCHANGED <<sched, job, looked, vprio, changed, history>>

\* vsched_setprio reads the policy, whatever it is, and will put it back.
vsched_setprio(a) ==
    /\ call[a] = "policy" /\ job[a].program = "vsched_setprio"
    /\ policy' = [policy EXCEPT ![a] = sched[Target(a)].policy]
    /\ GoOn(a, "set")
    /\ UNCHANGED <<sched, job, looked, vprio, changed, history>>

\* Mutant: the policy main has found is not looked up again.
vsched_getprio_OneLook(a) ==
    \/ /\ call[a] = "getscheduler" /\ GoOn(a, "getparam")
       /\ UNCHANGED <<sched, job, policy, looked, vprio, changed, history>>
    \/ /\ call[a] = "getparam" /\ GoOn(a, "set")
       /\ vprio' = [vprio EXCEPT ![a] =
                       Virtual(looked[a], sched[Target(a)].prio) + job[a].n]
       /\ UNCHANGED <<sched, job, policy, looked, changed, history>>

\* vsched_getprio: two system calls, then the sum with the delta.  A failing one
\* gives -1, and the call on the same process then fails as well: Set covers it.
vsched_getprio(a) ==
    \/ /\ call[a] = "getscheduler" /\ GoOn(a, "getparam")
       /\ looked' = [looked EXCEPT ![a] = sched[Target(a)].policy]
       /\ UNCHANGED <<sched, job, policy, vprio, changed, history>>
    \/ /\ call[a] = "getparam" /\ GoOn(a, "set")
       /\ vprio' = [vprio EXCEPT ![a] =
                       Virtual(looked[a], sched[Target(a)].prio) + job[a].n]
       /\ UNCHANGED <<sched, job, policy, looked, changed, history>>

\* Runs other than a that have started on target t are told apart from now on.
Touch(t, a) == touched' = touched \cup
    {b \in Runs \ {a} : call[b] # "start" /\ Target(b) = t}

\* The call may be refused for a priority out of range or for want of privilege.
\* policy[a] is SCHED_FIFO in atprio.1, which does not ask.
Set(a) ==
    /\ call[a] = "set"
    /\ \/ /\ vsched_setscheduler(Target(a), policy[a], vprio[a])
          /\ Touch(Target(a), a)
          /\ GoOn(a, IF HasCommand(a) THEN "exec" ELSE "exit0")
       \/ GoOn(a, "exit2") /\ UNCHANGED <<sched, touched>>
    /\ UNCHANGED <<job, locals, changed, began, base>>

Exec(a) ==
    /\ call[a] = "exec"
    /\ GoOn(a, "command") \/ GoOn(a, "exit3")
    /\ UNCHANGED <<sched, job, locals, changed, history>>

main(a) == Start(a) \/ GetPolicy(a) \/ vsched_setprio(a) \/ vsched_getprio(a)
           \/ Set(a) \/ Exec(a)

\* Another program gives the shell a new policy and priority, once.
Reschedule ==
    /\ ~changed /\ changed' = TRUE
    /\ \E s \in Settings : SetScheduler(Shell, s) /\ s # sched[Shell]
    /\ touched' = touched \cup
          {b \in Runs : call[b] # "start" /\ Target(b) = Shell}
    /\ UNCHANGED <<job, call, locals, began, base>>

Finished(a) == call[a] \in {"command", "exit0", "exit2", "exit3"}
Terminated == (\A a \in Runs : Finished(a)) /\ changed /\ UNCHANGED atprioVars

AtprioNext == (\E a \in Runs : main(a)) \/ Reschedule \/ Terminated

AtprioSpec == AtprioInit /\ [][AtprioNext]_atprioVars

-----------------------------------------------------------------------------
(* Properties.                                                             *)

VPrio(s) == Virtual(s.policy, s.prio)

\* The scheduling a run is meant to give its target.
WantedPolicy(a) == IF job[a].program = "atprio.1" THEN "SCHED_FIFO"
                   ELSE base[a].policy
WantedVPrio(a) == IF job[a].delta THEN VPrio(base[a]) + job[a].n ELSE job[a].n
Wanted(a) == [policy |-> WantedPolicy(a),
              prio |-> Real(WantedPolicy(a), WantedVPrio(a))]

\* "Priority delta from current priority": as long as nobody else changes its
\* target after it started, a run sets exactly what it was asked to, under the
\* policy it found, whatever the minimum of that policy is.
AdjustsExactly ==
    [][\A a \in Runs \ touched :
          call[a] = "set" /\ call'[a] # "set" /\ call'[a] # "exit2"
              => sched'[Target(a)] = Wanted(a)]_atprioVars

\* A command runs at the priority that was asked for, counted from the one its
\* atprio inherited from the shell in whatever moment of others' adjustments.
CommandPriority ==
    \A a \in Runs : call[a] = "command" => sched[a] = Wanted(a)

Adjusters == {a \in Runs : ~job[a].self /\ job[a].delta}
Done == {a \in Adjusters : call[a] = "exit0"}
Total(S) == MapThenSumSet(LAMBDA a : job[a].n, S)
OnlyAdjusted == ~changed /\ \A a \in Runs : job[a].self \/ job[a].delta

\* Adjustments that overlap may get lost but never add up to something nobody
\* asked for: the shell's priority is off by the sum of some of the successful
\* ones, and when there was one, of at least one.
NothingInvented ==
    OnlyAdjusted =>
        \E S \in SUBSET Done :
            /\ Done # {} => S # {}
            /\ sched[Shell].policy = began.policy
            /\ sched[Shell].prio = began.prio + Total(S)

-----------------------------------------------------------------------------
(* The inductive invariant.                                                *)

\* What a run that nobody disturbs knows of its target, call by call.
AsFound ==
    \A a \in Runs \ touched :
        /\ call[a] \in {"policy", "getscheduler", "getparam", "set"} =>
                sched[Target(a)] = base[a]
        /\ call[a] \in {"policy", "getscheduler", "getparam"} =>
                job[a].program # "atprio.1"
        /\ call[a] \in {"getscheduler", "getparam", "set"} => policy[a] = WantedPolicy(a)
        /\ call[a] \in {"getscheduler", "getparam"} => job[a].delta
        /\ call[a] = "getparam" => looked[a] = base[a].policy
        /\ call[a] = "set" => vprio[a] = WantedVPrio(a)
        /\ call[a] # "start" /\ ~job[a].delta => vprio[a] = job[a].n
        /\ call[a] \in {"start", "set"} /\ job[a].program = "atprio.1" =>
                policy[a] = "SCHED_FIFO"

\* A run that affects itself is never disturbed, and has a command only if it
\* has set the priority it wanted.
Undisturbed ==
    \A a \in Runs :
        /\ a \in touched => ~job[a].self
        /\ call[a] \in {"exec", "command"} => job[a].self /\ sched[a] = Wanted(a)

\* Each run for itself.
Single == AtprioTypeOK /\ AsFound /\ Undisturbed

\* What an adjustment under way has read is the sum of some that had come to
\* their end.
Reading(a) ==
    /\ call[a] \in {"getscheduler", "getparam", "set"} =>
          began.policy \in RealTime /\ policy[a] = began.policy
    /\ call[a] = "getparam" => looked[a] = began.policy
    /\ call[a] = "set" =>
          \E S \in SUBSET Done :
             Real(policy[a], vprio[a]) = began.prio + Total(S) + job[a].n

Accounted == /\ IsFiniteSet(Done)
             /\ OnlyAdjusted => \A a \in Adjusters : Reading(a)

AtprioInv == Single /\ NothingInvented /\ Accounted
=============================================================================
