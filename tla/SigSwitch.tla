----------------------------- MODULE SigSwitch -----------------------------
(***************************************************************************)
(* sigs_sent_swtch.c: parent and child bounce a SIGUSR1 to and fro with    *)
(* kill and sigsuspend until the parent's 60-second alarm goes off.        *)
(* SIGUSR1 is blocked everywhere but inside sigsuspend.                    *)
(***************************************************************************)
EXTENDS ForkedPair

CONSTANT MaxSends    \* bound on the signals the parent sends

ASSUME MaxSendsAssumption == MaxSends \in Nat

Sigs == {"SIGALRM", "SIGUSR1", "SIGUSR2"}
Counters == [sent : Nat, recv : Nat]     \* nsigs_sent, nsigs_recv
Zero == [sent |-> 0, recv |-> 0]

TypeOK == PairTypeOK({"kill", "count", "ready", "suspended"},
                     {"alarm_handler", "alarm_exit", "child_terminate"},
                     Sigs, Counters)

Init == PairInit("ready", Zero)

\* Mutant: nothing is blocked.
main_Unblocked == StartUp({}) \/ ForkChild

\* Block SIGUSR1 before anything else, so that the child inherits the mask.
main == StartUp({"SIGUSR1"}) \/ ForkChild

\* Every handler is installed with a full sa_mask; sigsuspend blocks nothing.
Blocked(p) == IF hnd[p] # "none" THEN Sigs
              ELSE IF pc[p] = "suspended" THEN {} ELSE mask[p]

\* Mutant: the parent does not wait for the answer.
be_the_parent_NoWait ==
    \/ ArmAlarm("kill")
    \/ count["parent"].sent < MaxSends /\ KillPeer("parent", "SIGUSR1", "count")
    \/ Increment("parent", "count", "sent", "kill")

be_the_parent ==
    \/ ArmAlarm("kill")
    \/ count["parent"].sent < MaxSends /\ KillPeer("parent", "SIGUSR1", "count")
    \/ Increment("parent", "count", "sent", "ready")
    \/ Step("parent", "ready", "suspended")

be_a_child ==
    \/ Step("child", "ready", "suspended")
    \/ KillPeer("child", "SIGUSR1", "count")
    \/ Increment("child", "count", "sent", "ready")

\* Runs with everything blocked, so it is one step; a sigsuspend under it
\* returns when it does.
null_handler(p) ==
    /\ status[p] = "running"
    /\ "SIGUSR1" \in pend[p] /\ "SIGUSR1" \notin Blocked(p)
    /\ pend' = [pend EXCEPT ![p] = @ \ {"SIGUSR1"}]
    /\ count' = [count EXCEPT ![p].recv = @ + 1]
    /\ pc' = IF pc[p] = "suspended" THEN [pc EXCEPT ![p] = "kill"] ELSE pc
    /\ UNCHANGED <<status, hnd, mask, alarm, reaped, report>>

EnterAlarm == EnterHandler("parent", "SIGALRM", Blocked("parent"),
                           "alarm_handler")
EnterTerminate == EnterHandler("child", "SIGUSR2", Blocked("child"),
                               "child_terminate")

\* Mutant: the wrong signal for the child.
alarm_handler_WrongSignal == AlarmHandler("SIGUSR1")

alarm_handler == AlarmHandler("SIGUSR2")
child_terminate == TerminateChild

ParentStep == main \/ be_the_parent \/ null_handler("parent")
              \/ EnterAlarm \/ alarm_handler
ChildStep == be_a_child \/ null_handler("child")
             \/ EnterTerminate \/ child_terminate

Next == ParentStep \/ ChildStep \/ AlarmExpires \/ Reap \/ Terminated

\* Both processes get the processor, and a pending unblocked signal is
\* delivered whatever the mainline code does meanwhile.
Fairness == WF_pairVars(ParentStep) /\ WF_pairVars(ChildStep)
            /\ WF_pairVars(EnterAlarm) /\ WF_pairVars(EnterTerminate)

\* Whether the 60 seconds ever pass is left open.
Spec == Init /\ [][Next]_pairVars /\ Fairness /\ WF_pairVars(Reap)

-----------------------------------------------------------------------------
(* Properties.                                                             *)

In(p) == IF "SIGUSR1" \in pend[p] THEN 1 ELSE 0
Held(p) == IF pc[p] = "kill" THEN 1 ELSE 0

\* Signals p has sent: nsigs_sent, and the one sent but not yet counted.
Sends(p) == count[p].sent + (IF pc[p] = "count" THEN 1 ELSE 0)

InLoop == pc["parent"] \in {"kill", "count", "ready", "suspended"}

\* No SIGUSR1 is ever merged with another or handled outside sigsuspend: as
\* long as both loops run, exactly one is pending or about to be sent.
OneToken ==
    (InLoop /\ \A p \in Procs : status[p] = "running") =>
        In("parent") + In("child") + Held("parent") + Held("child") = 1

\* Every signal sent has been counted by the receiver's null_handler or is
\* still pending, for as long as the receiver is there to take it.
NoSignalLost ==
    \A p \in Procs : status[p] = "running" =>
        Sends(Peer(p)) = count[p].recv + In(p)

\* The four numbers the two processes print agree up to the one signal that
\* was under way, or sent and not yet counted, when the alarm struck.
ReportsAgree ==
    (report["parent"].printed /\ report["child"].printed) =>
        /\ Close(report["parent"].count.sent, report["child"].count.recv)
        /\ Close(report["child"].count.sent, report["parent"].count.recv)

\* The child leaves its loop only because the parent's alarm_handler told it
\* to, or because the parent is gone.
ChildStaysToTheEnd ==
    status["child"] \in Exits =>
        status["parent"] \in Exits \/ hnd["parent"] = "alarm_exit"

\* While the alarm has not struck, the parent's turn always comes again: no
\* process sleeps in sigsuspend for ever with its wake-up call already spent.
KeepsGoing ==
    \A n \in 0 .. MaxSends - 1 :
        (alarm /\ count["parent"].sent = n)
            ~> (~alarm \/ count["parent"].sent > n)

\* The experiment ends once the alarm has gone off: alarm_handler stops the
\* parent and SIGUSR2 the child, wherever they are.
Ends == <>[](AllOver \/ alarm)

-----------------------------------------------------------------------------
(* The inductive invariant behind the safety properties.                   *)

\* Who is where: the child is born at the end of start-up, in the state it
\* inherits; the parent leaves its loop only through alarm_handler.
Lifecycle ==
    /\ status["parent"] # "unborn"
    /\ status["child"] = "unborn" <=> pc["parent"] \in {"main", "fork"}
    /\ status["child"] = "unborn" =>
          /\ ~alarm /\ pc["child"] = "ready"
          /\ \A p \in Procs : /\ hnd[p] = "none" /\ pend[p] = {}
                              /\ count[p] = Zero /\ ~report[p].printed
    /\ pc["child"] \in {"ready", "suspended", "kill", "count"}
    /\ hnd["parent"] # "child_terminate"
    /\ hnd["child"] \in {"none", "child_terminate"}
    /\ pc["parent"] = "alarm" =>
          /\ hnd["parent"] = "none" /\ status["parent"] = "running"
          /\ "SIGALRM" \notin pend["parent"] /\ ~alarm
    /\ hnd["parent"] = "alarm_exit" <=> report["parent"].printed
    /\ "SIGUSR2" \in pend["child"] => hnd["parent"] = "alarm_exit"
    /\ hnd["child"] = "child_terminate" => hnd["parent"] = "alarm_exit"
    /\ reaped => status["parent"] \in Exits
    /\ (status["child"] # "unborn" /\ status["parent"] \in Exits) =>
          hnd["parent"] = "alarm_exit"
    /\ status["child"] \in Exits => hnd["parent"] = "alarm_exit"

\* SIGUSR1 is blocked in both mainlines before either can receive it.
Masked == /\ pc["parent"] # "main" => mask["parent"] = {"SIGUSR1"}
          /\ status["child"] # "unborn" => mask["child"] = {"SIGUSR1"}

\* Before the first kill nothing is under way.
Quiet == pc["parent"] = "alarm" =>
             /\ \A p \in Procs : count[p] = Zero /\ "SIGUSR1" \notin pend[p]
             /\ pc["child"] \in {"ready", "suspended"}

\* Conservation of signals, also after one side has stopped.
Conserved ==
    status["child"] # "unborn" =>
        /\ Sends("parent") = count["child"].recv + In("child")
        /\ status["parent"] = "running" =>
              /\ Sends("child") = count["parent"].recv + In("parent")
              /\ InLoop => In("parent") + In("child")
                              + Held("parent") + Held("child") = 1
        /\ status["parent"] \in Exits =>
              /\ count["parent"].recv + In("parent") <= Sends("child")
              /\ Sends("child") + Held("child") + In("child")
                    <= count["parent"].recv + 1

\* A printed report still shows the counters: nobody counts after printing.
ReportsCurrent ==
    \A p \in Procs : report[p].printed =>
        report[p].count = count[p] /\ (p = "child" => status["child"] \in Exits)

IInv == TypeOK /\ Lifecycle /\ Masked /\ Quiet /\ Conserved /\ ReportsCurrent

-----------------------------------------------------------------------------
(* Refinement.                                                             *)

\* Where the baton is, as a function of pending signals and program counters.
Ball ==
    IF status["parent"] # "running" \/ hnd["parent"] # "none" THEN "down"
    ELSE CASE ~InLoop                       -> "idle"
           [] InLoop /\ Held("parent") = 1  -> "parent"
           [] InLoop /\ In("child") = 1     -> "toChild"
           [] InLoop /\ Held("child") = 1   -> "child"
           [] InLoop /\ In("parent") = 1    -> "toParent"
           [] OTHER                         -> "lost"

B == INSTANCE Baton WITH ball <- Ball, rallies <- count["parent"].recv

\* The two loops implement the abstract exchange of Baton.
ImplementsBaton == B!BatonSpec
=============================================================================
