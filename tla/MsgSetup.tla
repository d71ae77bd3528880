------------------------------ MODULE MsgSetup ------------------------------
(***************************************************************************)
(* msg.c up to its fork: a run removes the message queue that an earlier   *)
(* run may have left behind, makes one of its own and no other's, and      *)
(* never removes it.                                                       *)
(***************************************************************************)
EXTENDS RegionContents

CONSTANT Leftover      \* the queue of an earlier run

ASSUME LeftoverAssumption == Leftover \notin Users \cup {None}

VARIABLE mqOne         \* queue the name /mq_one is bound to

MsgInit == mqOne = Leftover

\* Mutant: it only looks for leftovers.
mq_unlink_Not(p) == /\ pc[p] = "mq_unlink"
                    /\ \/ mqOne = None /\ Goto(p, "mq_open")
                       \/ mqOne # None /\ (Goto(p, "mq_open") \/ Goto(p, "failed"))
                    /\ UNCHANGED mqOne

\* No queue of that name is no error; any other error is the end, also one with
\* /mq_two, which goes next and which nobody ever creates.
mq_unlink(p) ==
    /\ pc[p] = "mq_unlink"
    /\ \/ mqOne' = None /\ (Goto(p, "mq_open") \/ Goto(p, "failed"))
       \/ mqOne # None /\ Goto(p, "failed") /\ UNCHANGED mqOne

mq_open(p) ==
    /\ pc[p] = "mq_open"
    /\ \/ mqOne = None /\ mqOne' = p /\ Goto(p, "pipe")
       \/ Goto(p, "failed") /\ UNCHANGED mqOne

\* pipe and fork; what follows uses pipes that the program does not declare.
PipeAndFork(p) == /\ pc[p] = "pipe" /\ (Goto(p, "exited") \/ Goto(p, "failed"))
                  /\ UNCHANGED mqOne

msg(p) == /\ mq_unlink(p) \/ mq_open(p) \/ PipeAndFork(p)
          /\ UNCHANGED <<armed, regionVars, head>>
=============================================================================
