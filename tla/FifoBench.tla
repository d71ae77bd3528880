----------------------------- MODULE FifoBench -----------------------------
(***************************************************************************)
(* fifo.c: parent and child pass a message of nbytes to and fro through    *)
(* two pipes until the alarm goes off.  Both run the same alarm_handler.   *)
(* Neither closes the pipe ends it does not use, so that no read ever sees *)
(* an end of file and no write a SIGPIPE.                                  *)
(***************************************************************************)
EXTENDS ForkedPair

CONSTANTS Sizes,      \* what the command-line argument may be, 4 by default
          PipeBuf,    \* PIPE_BUF: larger writes are not atomic
          Capacity,   \* bytes a pipe holds
          MaxWrites   \* bound on the messages the parent writes

ASSUME PipeAssumption == /\ Sizes \subseteq Nat \ {0} /\ MaxWrites \in Nat
                         /\ PipeBuf \in Nat \ {0}
                         /\ Capacity \in Nat /\ PipeBuf <= Capacity

VARIABLES nbytes,     \* size of a message
          pipe,       \* bytes in the pipe each process reads from
          left,       \* bytes the write call in progress has yet to put there
          bystander   \* another process of the same process group

benchVars == <<pairVars, pipe, left, bystander>>
vars == <<benchVars, nbytes>>
pipeVars == <<pipe, left>>

Counters == [writes : Nat, reads : Nat]      \* nwrites, nreads
Zero == [writes |-> 0, reads |-> 0]

TypeOK ==
    /\ PairTypeOK({"write", "nwrites", "read", "nreads"},
                  {"alarm_handler", "alarm_exit"}, {"SIGALRM"}, Counters)
    /\ nbytes \in Sizes
    /\ pipe \in [Procs -> 0 .. Capacity]
    /\ left \in [Procs -> 0 .. nbytes]
    /\ bystander \in {"running", "killed"}

Init == /\ PairInit("read", Zero)
        /\ nbytes \in Sizes
        /\ pipe = [p \in Procs |-> 0]
        /\ left = [p \in Procs |-> nbytes]
        /\ bystander = "running"

\* malloc, sigaction or pipe may fail; no signal is ever blocked.
main == (StartUp({}) \/ ForkChild) /\ UNCHANGED <<pipeVars, bystander>>

\* A write of at most PIPE_BUF bytes waits for room for all of them; a larger
\* one puts them there in pieces.
Pieces(p) == IF nbytes <= PipeBuf THEN {nbytes} ELSE 1 .. left[p]

\* Mutant: the last byte of the message is not written.
Write_OneShort(p) ==
    /\ InMain(p, "write")
    /\ \E n \in Pieces(p) :
          /\ pipe[Peer(p)] + n <= Capacity
          /\ IF n = left[p]
             THEN /\ pipe' = [pipe EXCEPT ![Peer(p)] = @ + n - 1]
                  /\ Goto(p, "nwrites") /\ left' = [left EXCEPT ![p] = nbytes]
             ELSE /\ pipe' = [pipe EXCEPT ![Peer(p)] = @ + n]
                  /\ left' = [left EXCEPT ![p] = @ - n] /\ UNCHANGED pc
    /\ UNCHANGED <<status, hnd, mask, sigVars, cntVars, bystander>>

Write(p) ==
    /\ InMain(p, "write")
    /\ \E n \in Pieces(p) :
          /\ pipe[Peer(p)] + n <= Capacity
          /\ pipe' = [pipe EXCEPT ![Peer(p)] = @ + n]
          /\ IF n = left[p]
             THEN Goto(p, "nwrites") /\ left' = [left EXCEPT ![p] = nbytes]
             ELSE left' = [left EXCEPT ![p] = @ - n] /\ UNCHANGED pc
    /\ UNCHANGED <<status, hnd, mask, sigVars, cntVars, bystander>>

\* A read waits for the first byte and takes what is there; anything short of
\* nbytes ends the process.
Read(p) ==
    /\ InMain(p, "read")
    /\ pipe[p] > 0
    /\ IF pipe[p] >= nbytes
       THEN /\ pipe' = [pipe EXCEPT ![p] = @ - nbytes]
            /\ Goto(p, "nreads") /\ UNCHANGED status
       ELSE /\ pipe' = [pipe EXCEPT ![p] = 0]
            /\ Exit(p, "exit1") /\ UNCHANGED pc
    /\ UNCHANGED <<hnd, mask, sigVars, cntVars, left, bystander>>

Count(p, at, c, next) == Increment(p, at, c, next)
                         /\ UNCHANGED <<pipeVars, bystander>>

\* Mutant: the parent does not wait for the message to come back.
be_the_parent_NoRead ==
    \/ ArmAlarm("write") /\ UNCHANGED <<pipeVars, bystander>>
    \/ count["parent"].writes < MaxWrites /\ Write("parent")
    \/ Count("parent", "nwrites", "writes", "write")

be_the_parent ==
    \/ ArmAlarm("write") /\ UNCHANGED <<pipeVars, bystander>>
    \/ count["parent"].writes < MaxWrites /\ Write("parent")
    \/ Count("parent", "nwrites", "writes", "read")
    \/ Read("parent")
    \/ Count("parent", "nreads", "reads", "write")

be_a_child ==
    \/ Read("child")
    \/ Count("child", "nreads", "reads", "write")
    \/ Write("child")
    \/ Count("child", "nwrites", "writes", "read")

EnterAlarm(p) == /\ EnterHandler(p, "SIGALRM",
                        IF hnd[p] = "none" THEN mask[p] ELSE {"SIGALRM"},
                        "alarm_handler")
                 /\ UNCHANGED <<pipeVars, bystander>>

\* Mutant: nobody signals the other process.
alarm_handler_NoKill(p) ==
    /\ InHandler(p, "alarm_handler")
    /\ Report(p) /\ Exit(p, "exit0")
    /\ UNCHANGED <<pc, hnd, mask, sigVars, count, pipeVars, bystander>>

\* getpid() != chpid holds in the child too, where chpid is 0: its kill(0,
\* SIGALRM) reaches every process of the group, itself included.
alarm_handler(p) ==
    \/ /\ InHandler(p, "alarm_handler")
       /\ Report(p)
       /\ hnd' = [hnd EXCEPT ![p] = "alarm_exit"]
       /\ IF p = "parent"
          THEN Raise("child", "SIGALRM") /\ UNCHANGED bystander
          ELSE /\ pend' = [q \in Procs |-> IF status[q] = "running"
                                           THEN pend[q] \cup {"SIGALRM"}
                                           ELSE pend[q]]
               /\ bystander' = "killed"
       /\ UNCHANGED <<status, pc, mask, alarm, reaped, count, pipeVars>>
    \/ /\ InHandler(p, "alarm_exit")
       /\ Exit(p, "exit0")
       /\ UNCHANGED <<pc, hnd, mask, sigVars, cntVars, pipeVars, bystander>>

ParentStep == main \/ be_the_parent \/ EnterAlarm("parent")
              \/ alarm_handler("parent")
ChildStep == be_a_child \/ EnterAlarm("child") \/ alarm_handler("child")
Environment == (AlarmExpires \/ Reap \/ Terminated)
               /\ UNCHANGED <<pipeVars, bystander>>

\* The parent has exited on a short read or write: the child waits for bytes
\* that nobody will write (or for room in a pipe nobody reads) for ever.
ChildAbandoned ==
    /\ status["parent"] = "exit1" /\ reaped /\ status["child"] = "running"
    /\ hnd["child"] = "none"
    /\ \/ pc["child"] = "read" /\ pipe["child"] = 0
       \/ /\ pc["child"] = "write"
          /\ \A n \in Pieces("child") : pipe["parent"] + n > Capacity

Abandoned == ChildAbandoned /\ UNCHANGED benchVars

Next == /\ ParentStep \/ ChildStep \/ Environment \/ Abandoned
        /\ UNCHANGED nbytes

Spec == /\ Init /\ [][Next]_vars
        /\ WF_benchVars(ParentStep) /\ WF_benchVars(ChildStep) /\ WF_benchVars(Environment)
        /\ \A p \in Procs : WF_benchVars(EnterAlarm(p))

-----------------------------------------------------------------------------
(* Properties.                                                             *)

InLoop == pc["parent"] \in {"write", "nwrites", "read", "nreads"}
Holds(p) == pc[p] \in {"nreads", "write"}

\* main announces "%d-byte reads/writes", whatever the size: every read finds
\* a whole message, and no process fails in its loop.
AnySize == \A p \in Procs : status[p] = "exit1" => p = "parent" /\ ~InLoop

Atomic == nbytes <= PipeBuf

\* Every read finds the whole message if a pipe carries it atomically.
WholeMessages == Atomic => AnySize

\* What the two processes print about the same messages agrees up to the one
\* that was under way.
ReportsAgree ==
    (report["parent"].printed /\ report["child"].printed) =>
        /\ Close(report["parent"].count.writes, report["child"].count.reads)
        /\ Close(report["child"].count.writes, report["parent"].count.reads)

\* Only the parent's alarm ends the experiment, and it ends both processes.
AlarmEndsBoth ==
    /\ Atomic /\ status["child"] \in Exits => report["parent"].printed
    /\ report["child"].printed => report["parent"].printed

\* The experiment ends for both processes or, with large messages, may leave
\* the child behind for good.
ComesToRest == <>[](AllOver \/ (~Atomic /\ ChildAbandoned))

\* alarm_handler says: "Parent--kill child too".  Nobody else is signalled.
OnlyTheChildIsKilled == bystander = "running"

-----------------------------------------------------------------------------
(* Refinement.                                                             *)

Ball ==
    IF status["parent"] # "running" \/ hnd["parent"] # "none" THEN "down"
    ELSE IF ~InLoop THEN "idle"
    ELSE IF Holds("parent") THEN "parent"
    ELSE IF Holds("child") THEN "child"
    ELSE IF pipe["child"] > 0 THEN "toChild"
    ELSE IF pipe["parent"] > 0 THEN "toParent" ELSE "lost"

Rallies == count["parent"].reads + (IF pc["parent"] = "nreads" THEN 1 ELSE 0)

B == INSTANCE Baton WITH ball <- Ball, rallies <- Rallies

\* The two loops implement the abstract exchange of Baton.
ImplementsBaton == B!BatonSpec

-----------------------------------------------------------------------------
(* The inductive invariant behind the safety properties.                   *)

\* The child is there from the fork on; what stops it is the parent's signal
\* or a message that came in pieces.
Lifecycle ==
    /\ status["child"] = "unborn" <=> pc["parent"] \in {"main", "fork"}
    /\ status["child"] = "unborn" => hnd["child"] = "none" /\ pend["child"] = {}
    /\ (hnd["child"] # "none" \/ "SIGALRM" \in pend["child"])
          => report["parent"].printed
    /\ status["child"] \in Exits =>
          status["child"] = "exit1" \/ hnd["child"] = "alarm_exit"

\* A write in progress has something left, and an atomic one all of it.
Unfinished == \A p \in Procs : /\ left[p] \in 1 .. nbytes
                               /\ pc[p] # "write" \/ Atomic => left[p] = nbytes

\* Messages written and read, with the one that is not yet counted.
Sent(p) == count[p].writes + (IF pc[p] = "nwrites" THEN 1 ELSE 0)
Got(p) == count[p].reads + (IF pc[p] = "nreads" THEN 1 ELSE 0)

\* Where the one message is, and with it what is in the pipes and how the
\* counts compare.  A process that gave up on half a message leaves a pipe
\* in disorder.
AtParent ==
    /\ pc["parent"] \notin {"nwrites", "read"} /\ pc["child"] \in {"nwrites", "read"}
    /\ Sent("parent") = Got("child") /\ Got("child") = Sent("child")
    /\ Sent("child") = Got("parent")
    /\ pipe["parent"] = 0
    /\ status["child"] # "exit1" => pipe["child"] = nbytes - left["parent"]

ToChild ==
    /\ pc["parent"] \in {"nwrites", "read"} /\ pc["child"] \in {"nwrites", "read"}
    /\ Sent("parent") = Got("child") + 1 /\ Got("child") = Sent("child")
    /\ Sent("child") = Got("parent")
    /\ pipe["parent"] = 0 /\ pipe["child"] > 0
    /\ status["child"] # "exit1" => pipe["child"] = nbytes

AtChild ==
    /\ pc["parent"] \in {"nwrites", "read"} /\ pc["child"] \in {"nreads", "write"}
    /\ Sent("parent") = Got("child") /\ Got("child") = Sent("child") + 1
    /\ Sent("child") = Got("parent")
    /\ pipe["child"] = 0 /\ status["child"] # "exit1"
    /\ status["parent"] # "exit1" => pipe["parent"] = nbytes - left["child"]

ToParent ==
    /\ pc["parent"] \in {"nwrites", "read"} /\ pc["child"] \in {"nwrites", "read"}
    /\ Sent("parent") = Got("child") /\ Got("child") = Sent("child")
    /\ Sent("child") = Got("parent") + 1
    /\ pipe["child"] = 0 /\ status["child"] # "exit1"
    /\ status["parent"] # "exit1" => pipe["parent"] = nbytes

OneMessage == AtParent \/ ToChild \/ AtChild \/ ToParent

\* A printed report still shows the counters: nobody counts after printing.
ReportsCurrent ==
    \A p \in Procs : report[p].printed =>
        report[p].count = count[p] /\ hnd[p] = "alarm_exit"

IInv == /\ TypeOK /\ Lifecycle /\ Unfinished /\ OneMessage
        /\ WholeMessages /\ ReportsCurrent

\* One message and where it is; whole messages; an end that comes from the
\* alarm.
Inv == IInv /\ AlarmEndsBoth
=============================================================================
