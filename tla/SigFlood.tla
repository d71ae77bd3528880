------------------------------ MODULE SigFlood ------------------------------
(***************************************************************************)
(* The benchmarks that repeat one call as fast as they can and count how   *)
(* often it was made until the alarm goes off:                             *)
(*   sigs_sent_noswtch.c  signals to a child, which counts what it receives *)
(*   sending_sigs.c       signals to a child that has them blocked         *)
(*   sending_sigs_self.c, sending_recving_sigs_self.c                      *)
(*                        the same, sent by a process to itself            *)
(*   switch.c, noswitch.c sched_yield, with and without a second process   *)
(*   cpubench.c           nothing at all: it counts its iterations         *)
(***************************************************************************)
EXTENDS ForkedPair

CONSTANT MaxCalls      \* bound on the calls each process makes

ASSUME FloodAssumption == MaxCalls \in Nat

VARIABLE program

vars == <<pairVars, program>>

Forking == {"sigs_sent_noswtch", "sending_sigs", "switch"}
SelfSending == {"sending_sigs_self", "sending_recving_sigs_self"}
Alone == SelfSending \cup {"noswitch", "cpubench"}
Blocking == {"sending_sigs", "sending_sigs_self"}
Yielding == {"switch", "noswitch"}

Sigs == {"SIGALRM", "SIGUSR1", "SIGUSR2"}
Counters == [sent : Nat, recv : Nat]     \* nsigs, nswitch, nyield, niter
Zero == [sent |-> 0, recv |-> 0]         \* of the loop and of null_handler

TypeOK == /\ PairTypeOK({"kill", "yield", "count", "ready", "suspended"},
                        {"usr1_handler", "alarm_handler", "alarm_exit",
                         "child_terminate"}, Sigs, Counters)
          /\ program \in Forking \cup Alone

Init == /\ program \in Forking \cup Alone
        /\ PairInit(IF program = "switch" THEN "yield" ELSE "ready", Zero)

\* Mutant: nothing is blocked.
main_Unblocked ==
    program \in Forking \ Yielding /\ (StartUp({}) \/ ForkChild)

StartMask == IF program \in Blocking THEN {"SIGUSR1"} ELSE {}

main == program \in Forking \ Yielding /\ (StartUp(StartMask) \/ ForkChild)

main_switch == program = "switch" /\ (StartUp({}) \/ ForkChild)

main_alone == /\ program \in Alone
              /\ StartUp(StartMask) \/ Step("parent", "fork", "alarm")

InLoop(p) == count[p].sent < MaxCalls
Count(p, next) == Increment(p, "count", "sent", next)

be_the_parent ==
    /\ program \in Forking \ Yielding
    /\ \/ ArmAlarm("kill")
       \/ InLoop("parent") /\ KillPeer("parent", "SIGUSR1", "count")
       \/ Count("parent", "kill")

be_a_child == program \in Forking \ Yielding
              /\ Step("child", "ready", "suspended")

\* kill(2): a signal to oneself is taken before the call returns, unless it is
\* blocked.
send_sigs_self ==
    /\ program \in SelfSending
    /\ \/ ArmAlarm("kill")
       \/ /\ InMain("parent", "kill") /\ InLoop("parent")
          /\ Raise("parent", "SIGUSR1") /\ Goto("parent", "count")
          /\ UNCHANGED <<status, hnd, mask, alarm, reaped, cntVars>>
       \/ /\ "SIGUSR1" \in pend["parent"] => "SIGUSR1" \in mask["parent"]
          /\ Count("parent", "kill")

\* In switch.c both processes run it, and main sets the parent's alarm.
switcher(p) ==
    /\ program \in Yielding
    /\ \/ p = "parent" /\ ArmAlarm("yield")
       \/ InLoop(p) /\ Step(p, "yield", "count")
       \/ Count(p, "yield")

\* cpubench.c has nothing but the counting in its loop.
iterate == /\ program = "cpubench"
           /\ \/ ArmAlarm("count")
              \/ InLoop("parent") /\ Count("parent", "count")

\* The mask while the child sleeps: all but SIGUSR2, or nothing.
SuspendMask == IF program \in Blocking THEN Sigs \ {"SIGUSR2"} ELSE {}

\* Only child_terminate fills its sa_mask; the other handlers keep out their
\* own signal alone.  A SIGUSR1 and a SIGALRM pending together start their
\* handlers in either order, and null_handler on top of alarm_handler comes to
\* the same as before it.
Blocked(p) ==
    LET mainline == IF pc[p] = "suspended" THEN SuspendMask ELSE mask[p]
    IN  IF hnd[p] = "none" THEN mainline
        ELSE IF hnd[p] = "usr1_handler" THEN mainline \cup {"SIGUSR1"}
        ELSE IF hnd[p] = "child_terminate" THEN Sigs
        ELSE mainline \cup {"SIGALRM", "SIGUSR1"}

EnterUsr1(p) == EnterHandler(p, "SIGUSR1", Blocked(p), "usr1_handler")

\* Mutant: each signal counted twice.
null_handler_Twice(p) == count' = [count EXCEPT ![p].recv = @ + 2]

null_handler(p) == count' = [count EXCEPT ![p].recv = @ + 1]

\* ERROR: received signal.  The child of sending_sigs.c ends the experiment.
panic_handler(p) ==
    /\ IF p = "child" THEN Raise("parent", "SIGALRM") ELSE UNCHANGED pend
    /\ Exit(p, "exit1")
    /\ UNCHANGED <<pc, hnd, count>>

usr1_handler(p) ==
    /\ InHandler(p, "usr1_handler")
    /\ IF program \in Blocking THEN panic_handler(p)
       ELSE /\ null_handler(p)
            /\ hnd' = [hnd EXCEPT ![p] = "none"]
            /\ IF pc[p] = "suspended" THEN Goto(p, "ready") ELSE UNCHANGED pc
            /\ UNCHANGED <<status, pend>>
    /\ UNCHANGED <<mask, alarm, reaped, report>>

EnterAlarm == EnterHandler("parent", "SIGALRM", Blocked("parent"),
                           "alarm_handler")
EnterTerminate == EnterHandler("child", "SIGUSR2", Blocked("child"),
                               "child_terminate")

\* Mutant: the wrong signal for the child.
alarm_handler_WrongSignal == AlarmHandler("SIGALRM")

\* Where there is no child there is none to signal.
alarm_handler == AlarmHandler("SIGUSR2")

\* The child of sending_sigs.c has nothing to print.
child_terminate ==
    IF program # "sending_sigs" THEN TerminateChild
    ELSE /\ InHandler("child", "child_terminate")
         /\ Exit("child", "exit0")
         /\ UNCHANGED <<pc, hnd, mask, sigVars, cntVars>>

ParentStep == \/ main \/ main_switch \/ main_alone
              \/ be_the_parent \/ send_sigs_self
              \/ switcher("parent") \/ iterate
              \/ EnterUsr1("parent") \/ usr1_handler("parent")
              \/ EnterAlarm \/ alarm_handler
ChildStep == \/ be_a_child \/ switcher("child")
             \/ EnterUsr1("child") \/ usr1_handler("child")
             \/ EnterTerminate \/ child_terminate

Next == /\ ParentStep \/ ChildStep \/ AlarmExpires \/ Reap \/ Terminated
        /\ UNCHANGED program

Spec == /\ Init /\ [][Next]_vars
        /\ WF_pairVars(ParentStep) /\ WF_pairVars(ChildStep)
        /\ WF_pairVars(EnterAlarm) /\ WF_pairVars(EnterTerminate)
        /\ WF_pairVars(AlarmExpires) /\ WF_pairVars(Reap)

-----------------------------------------------------------------------------
(* Properties.                                                             *)

\* Signals sent: the parent's count, and the one not yet counted.
Sends == count["parent"].sent + (IF pc["parent"] = "count" THEN 1 ELSE 0)

\* Signals that are pending or being handled by p but not counted.
Underway(p) == (IF "SIGUSR1" \in pend[p] THEN 1 ELSE 0)
               + (IF hnd[p] = "usr1_handler" THEN 1 ELSE 0)

\* A flood never silences the child: as long as something has been sent, at
\* least one signal is pending, being handled or has been counted.
SomeArrive ==
    (program = "sigs_sent_noswtch" /\ Sends > 0 /\ status["child"] = "running"
        /\ hnd["child"] # "child_terminate") =>
        count["child"].recv + Underway("child") > 0

\* The numbers that are printed fit together, wherever the alarm strikes: a
\* child has never received more than was sent, and a process that sends
\* signals to itself has received all of them, but for one sent or received
\* and not yet counted.
ReportsFit ==
    /\ (report["parent"].printed /\ report["child"].printed) =>
          report["child"].count.recv <= report["parent"].count.sent + 1
    /\ (program = "sending_recving_sigs_self" /\ report["parent"].printed) =>
          LET c == report["parent"].count IN c.recv \in {c.sent, c.sent + 1}

\* "Should never _receive_ SIGUSR1--it's blocked."
NobodyReceives ==
    program \in Blocking => \A p \in Procs : hnd[p] # "usr1_handler"

\* The experiment ends, for both processes, however fast the signals come.
Ends == <>[]AllOver

-----------------------------------------------------------------------------
(* The inductive invariant behind the safety properties.                   *)

\* A program that forks has a child from the fork on, and until then nothing
\* has happened to the child and nothing has been sent.
Lifecycle ==
    /\ status["child"] = "unborn" <=>
          program \in Alone \/ pc["parent"] \in {"main", "fork"}
    /\ status["child"] = "unborn" => hnd["child"] = "none" /\ pend["child"] = {}
    /\ pc["parent"] \in {"main", "fork", "alarm"} => count["parent"].sent = 0

\* SIGUSR1 is blocked for both processes before it can come, and for ever.
Masked ==
    /\ "SIGUSR1" \in pend["parent"] => pc["parent"] # "main"
    /\ program \in Blocking =>
          /\ pc["parent"] # "main" => "SIGUSR1" \in mask["parent"]
          /\ status["child"] # "unborn" => "SIGUSR1" \in mask["child"]

\* A child has not received more than was sent.
NoneInvented == count["child"].recv + Underway("child") <= Sends

\* A process that signals itself has at most the last signal yet to receive.
SelfCounted ==
    program = "sending_recving_sigs_self" =>
        /\ "SIGUSR1" \notin mask["parent"]
        /\ pc["parent"] # "count" =>
              /\ Underway("parent") = 0
              /\ count["parent"].recv = count["parent"].sent
        /\ pc["parent"] = "count" =>
              count["parent"].recv \in {count["parent"].sent, Sends}
        /\ (pc["parent"] = "count" /\ hnd["parent"] \in {"none", "usr1_handler"})
              => count["parent"].recv + Underway("parent") = Sends

\* A printed report still shows the counters: nobody counts after printing.
ReportsCurrent ==
    \A p \in Procs : report[p].printed =>
        /\ report[p].count = count[p]
        /\ IF p = "parent" THEN hnd[p] = "alarm_exit" ELSE status[p] \in Exits

IInv == /\ TypeOK /\ Lifecycle /\ Masked /\ NobodyReceives /\ NoneInvented
        /\ SomeArrive /\ SelfCounted /\ ReportsCurrent
=============================================================================
