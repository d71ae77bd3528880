--------------------------- MODULE SigQueueSwitch ---------------------------
(***************************************************************************)
(* sigs_sent_swtch.p4.c: the exchange of sigs_sent_swtch.c with queued     *)
(* real-time signals.  Three things differ: each signal carries a value,   *)
(* sigqueue may find no room (EAGAIN), and handler() masks nothing but its *)
(* own signal, so that the end of the experiment can strike inside it.     *)
(***************************************************************************)
EXTENDS ForkedPair, Sequences

CONSTANT MaxSends    \* bound on the signals the parent sends

ASSUME MaxSendsAssumption == MaxSends \in Nat

VARIABLES queue,   \* values of the SIGRTMIN signals queued to each process
          val      \* val.sival_int of each loop

vars == <<pairVars, queue, val>>

Sigs == {"SIGALRM", "SIGRTMIN", "SIGUSR2"}
Counters == [sent : Nat, recv : Nat]     \* nsigs_sent, nsigs_recv
Zero == [sent |-> 0, recv |-> 0]

TypeOK ==
    /\ PairTypeOK({"queue", "count", "val", "ready", "suspended"},
                  {"handler", "alarm_handler", "alarm_exit", "child_terminate"},
                  Sigs, Counters)
    /\ queue \in [Procs -> Seq(Nat)]
    /\ val \in [Procs -> Nat]

Init == /\ PairInit("ready", Zero)
        /\ queue = [p \in Procs |-> <<>>]
        /\ val = [p \in Procs |-> 0]

\* Mutant: nothing is blocked.
main_Unblocked == (StartUp({}) \/ ForkChild) /\ UNCHANGED <<queue, val>>

main == (StartUp({"SIGRTMIN"}) \/ ForkChild) /\ UNCHANGED <<queue, val>>

\* sigsuspend blocks nothing; handler() adds its own signal to the mask under
\* it, the two terminating handlers block everything.
Blocked(p) ==
    LET mainline == IF pc[p] = "suspended" THEN {} ELSE mask[p]
    IN  IF hnd[p] = "none" THEN mainline
        ELSE IF hnd[p] = "handler" THEN mainline \cup {"SIGRTMIN"} ELSE Sigs

\* sigqueue: the value joins the peer's queue, or the call fails, the loop
\* function returns and main exits with 0.
SigQueue(p) ==
    /\ InMain(p, "queue")
    /\ \/ /\ Exists(Peer(p))
          /\ queue' = IF status[Peer(p)] = "running"
                      THEN [queue EXCEPT ![Peer(p)] = Append(@, val[p])]
                      ELSE queue
          /\ Goto(p, "count") /\ UNCHANGED status
       \/ Exit(p, "exit0") /\ UNCHANGED <<pc, queue>>
    /\ UNCHANGED <<hnd, mask, sigVars, cntVars, val>>

\* val.sival_int++
NextValue(p, next) ==
    /\ InMain(p, "val")
    /\ val' = [val EXCEPT ![p] = @ + 1]
    /\ Goto(p, next)
    /\ UNCHANGED <<status, hnd, mask, sigVars, cntVars, queue>>

\* Mutant: the parent does not wait for the answer.
be_the_parent_NoWait ==
    \/ ArmAlarm("queue") /\ UNCHANGED <<queue, val>>
    \/ count["parent"].sent < MaxSends /\ SigQueue("parent")
    \/ Increment("parent", "count", "sent", "val") /\ UNCHANGED <<queue, val>>
    \/ NextValue("parent", "queue")

be_the_parent ==
    \/ ArmAlarm("queue") /\ UNCHANGED <<queue, val>>
    \/ count["parent"].sent < MaxSends /\ SigQueue("parent")
    \/ Increment("parent", "count", "sent", "ready") /\ UNCHANGED <<queue, val>>
    \/ Step("parent", "ready", "suspended") /\ UNCHANGED <<queue, val>>
    \/ NextValue("parent", "queue")

be_a_child ==
    \/ Step("child", "ready", "suspended") /\ UNCHANGED <<queue, val>>
    \/ SigQueue("child")
    \/ Increment("child", "count", "sent", "val") /\ UNCHANGED <<queue, val>>
    \/ NextValue("child", "ready")

\* The oldest queued signal is delivered.
EnterRT(p) ==
    /\ status[p] = "running" /\ queue[p] # <<>> /\ "SIGRTMIN" \notin Blocked(p)
    /\ queue' = [queue EXCEPT ![p] = Tail(@)]
    /\ hnd' = [hnd EXCEPT ![p] = "handler"]
    /\ UNCHANGED <<status, pc, mask, sigVars, cntVars, val>>

\* Mutant: the parent forgets to step its value.
Resume_SameValue(p) == "queue"

\* Where p goes on when sigsuspend returns.
Resume(p) == IF p = "parent" THEN "val" ELSE "queue"

\* Count the signal, discard its value; a sigsuspend under it returns.
handler(p) ==
    /\ InHandler(p, "handler")
    /\ count' = [count EXCEPT ![p].recv = @ + 1]
    /\ hnd' = [hnd EXCEPT ![p] = "none"]
    /\ pc' = IF pc[p] = "suspended" THEN [pc EXCEPT ![p] = Resume(p)] ELSE pc
    /\ UNCHANGED <<status, mask, sigVars, report, queue, val>>

EnterAlarm == EnterHandler("parent", "SIGALRM", Blocked("parent"),
                           "alarm_handler") /\ UNCHANGED <<queue, val>>
EnterTerminate == EnterHandler("child", "SIGUSR2", Blocked("child"),
                               "child_terminate") /\ UNCHANGED <<queue, val>>

\* Mutant: the parent's own signal, which does not tell the child to end.
alarm_handler_WrongSignal ==
    AlarmHandler("SIGALRM") /\ UNCHANGED <<queue, val>>

alarm_handler == AlarmHandler("SIGUSR2") /\ UNCHANGED <<queue, val>>
child_terminate == TerminateChild /\ UNCHANGED <<queue, val>>

ParentStep == main \/ be_the_parent \/ EnterRT("parent") \/ handler("parent")
              \/ EnterAlarm \/ alarm_handler
ChildStep == be_a_child \/ EnterRT("child") \/ handler("child")
             \/ EnterTerminate \/ child_terminate
Environment == (AlarmExpires \/ Reap \/ Terminated) /\ UNCHANGED <<queue, val>>

\* The parent's loop returned on a failed sigqueue: nobody will stop the child.
ChildAbandoned ==
    /\ status["parent"] \in Exits /\ reaped /\ ~report["parent"].printed
    /\ status["child"] = "running" /\ pc["child"] = "suspended"

Abandoned == ChildAbandoned /\ UNCHANGED vars

Next == ParentStep \/ ChildStep \/ Environment \/ Abandoned

\* As in SigSwitch: both processes run, and the terminating signals, once
\* pending and unblocked, are delivered.
Spec == /\ Init /\ [][Next]_vars
        /\ WF_vars(ParentStep) /\ WF_vars(ChildStep) /\ WF_vars(Environment)
        /\ WF_vars(EnterAlarm) /\ WF_vars(EnterTerminate)

-----------------------------------------------------------------------------
(* Properties.                                                             *)

Queued(p) == Len(queue[p])
Handling(p) == IF hnd[p] = "handler" THEN 1 ELSE 0
Held(p) == IF pc[p] \in {"val", "queue"} /\ (p = "parent" \/ pc[p] = "queue")
           THEN 1 ELSE 0

\* Signals p has queued: nsigs_sent, and the one sent but not yet counted.
Sends(p) == count[p].sent + (IF pc[p] = "count" THEN 1 ELSE 0)

InLoop == pc["parent"] \notin {"main", "fork", "alarm"}
NotOver(p) == status[p] = "running" /\ hnd[p] \in {"none", "handler"}

\* Signals queued, being handled or about to be sent.
Tokens == Queued("parent") + Queued("child")
            + Handling("parent") + Handling("child")
            + Held("parent") + Held("child")

\* The values arrive in the order sent, none missing, none twice: the n-th
\* signal p takes carries n - 1, although handler() never looks at it.
ValuesInOrder ==
    \A p \in Procs : NotOver(p) =>
        \A i \in 1 .. Queued(p) :
            queue[p][i] = count[p].recv + Handling(p) + i - 1

\* The numbers the two processes print agree up to the one signal under way
\* when the alarm struck, even if it struck in handler() before the count.
ReportsAgree ==
    (report["parent"].printed /\ report["child"].printed) =>
        /\ Close(report["parent"].count.sent, report["child"].count.recv)
        /\ Close(report["child"].count.sent, report["parent"].count.recv)

\* Once the parent has printed its line, its SIGUSR2 stops the child, whatever
\* the child is doing; only a failed sigqueue leaves the child behind.
ChildStopped == report["parent"].printed ~> (status["child"] # "running")

-----------------------------------------------------------------------------
(* Refinement: handler() passes the baton on when it has counted it.       *)

Ball ==
    IF ~NotOver("parent") THEN "down"
    ELSE IF ~InLoop THEN "idle"
    ELSE IF Tokens # 1 THEN "lost"
    ELSE CASE Held("parent") = 1 -> "parent"
           [] Queued("child") + Handling("child") = 1 -> "toChild"
           [] Held("child") = 1 -> "child"
           [] Queued("parent") + Handling("parent") = 1 -> "toParent"

B == INSTANCE Baton WITH ball <- Ball, rallies <- count["parent"].recv

\* The two loops implement the abstract exchange of Baton.
ImplementsBaton == B!BatonSpec

-----------------------------------------------------------------------------
(* The inductive invariant behind the safety properties.                   *)

In(p) == Queued(p) + Handling(p)

\* Who is where.  Only a failed sigqueue or SIGUSR2 stops the child.
Lifecycle ==
    /\ status["parent"] # "unborn"
    /\ status["child"] = "unborn" <=> pc["parent"] \in {"main", "fork"}
    /\ pc["child"] \notin {"main", "fork", "alarm"}
    /\ hnd["parent"] # "child_terminate"
    /\ hnd["child"] \in {"none", "handler", "child_terminate"}
    /\ \A p \in Procs : hnd[p] = "handler" => pc[p] = "suspended"
    /\ ("SIGUSR2" \in pend["child"] \/ hnd["child"] = "child_terminate")
          => hnd["parent"] = "alarm_exit"
    /\ status["child"] \in Exits =>
          pc["child"] = "queue" \/ hnd["child"] = "child_terminate"

\* SIGRTMIN is blocked in both mainlines before either can receive it.
Masked == /\ pc["parent"] # "main" => "SIGRTMIN" \in mask["parent"]
          /\ status["child"] # "unborn" => "SIGRTMIN" \in mask["child"]

\* Before the parent enters its loop nothing has happened.
Quiet == ~InLoop =>
    /\ ~alarm /\ pc["child"] \in {"ready", "suspended"}
    /\ \A p \in Procs : /\ count[p] = Zero /\ queue[p] = <<>>
                        /\ hnd[p] = "none" /\ pend[p] = {}

\* Conservation of signals, also after one side has stopped.
Conserved ==
    /\ NotOver("parent") => Sends("child") = count["parent"].recv + In("parent")
    /\ NotOver("child") => Sends("parent") = count["child"].recv + In("child")
    /\ (NotOver("parent") /\ InLoop) => Tokens = 1
    /\ ~NotOver("parent") =>
          /\ count["parent"].recv <= Sends("child")
          /\ Sends("child") + Held("child") + In("child")
                <= count["parent"].recv + 1
    /\ hnd["child"] = "child_terminate" =>
          Sends("parent") \in {count["child"].recv, count["child"].recv + 1}

\* The value is one ahead of the signals sent only while it is in use.
ValuesCount ==
    \A p \in Procs :
        Sends(p) = IF \/ pc[p] \in {"count", "val"}
                      \/ p = "parent" /\ pc[p] \in {"ready", "suspended"}
                   THEN val[p] + 1 ELSE val[p]

\* A printed report still shows the counters: nobody counts after printing.
ReportsCurrent ==
    \A p \in Procs : report[p].printed =>
        /\ report[p].count = count[p]
        /\ hnd[p] = IF p = "parent" THEN "alarm_exit" ELSE "child_terminate"

\* Types; the values in their order; and what keeps them there.
IInv == /\ TypeOK /\ Lifecycle /\ Masked /\ Quiet /\ Conserved
        /\ ValuesInOrder /\ ValuesCount /\ ReportsCurrent
=============================================================================
