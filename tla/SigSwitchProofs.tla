-------------------------- MODULE SigSwitchProofs --------------------------
(***************************************************************************)
(* Theorems about SigSwitch (sigs_sent_swtch.c), for every value of        *)
(* MaxSends, hence for a run of the program of any length.                 *)
(***************************************************************************)
EXTENDS SigSwitch, TLAPS

\* One step of the program preserves the types of its variables.
LEMMA TypeStep == TypeOK /\ [Next]_pairVars => TypeOK'
<1> SUFFICES ASSUME TypeOK, [Next]_pairVars PROVE TypeOK'
  OBVIOUS
<1> USE DEF TypeOK, PairTypeOK, Counters, Procs, Sigs, Exits, InMain, procVars, sigVars,
            cntVars
<1>1. CASE StartUp({"SIGUSR1"})
  BY <1>1 DEF StartUp, Goto, Exit
<1>2. CASE ForkChild
  BY <1>2 DEF ForkChild, Goto, Exit
<1>3. CASE ArmAlarm("kill")
  BY <1>3 DEF ArmAlarm, Goto
<1>4. ASSUME NEW p \in Procs, KillPeer(p, "SIGUSR1", "count") PROVE TypeOK'
  BY <1>4 DEF KillPeer, Goto, Exit, Peer, Exists, Raise
<1>5. ASSUME NEW p \in Procs, Increment(p, "count", "sent", "ready") PROVE TypeOK'
  BY <1>5 DEF Increment, Goto
<1>6. ASSUME NEW p \in Procs, Step(p, "ready", "suspended") PROVE TypeOK'
  BY <1>6 DEF Step, Goto
<1>7. ASSUME NEW p \in Procs, null_handler(p) PROVE TypeOK'
  BY <1>7 DEF null_handler
<1>8. CASE EnterAlarm
  BY <1>8 DEF EnterAlarm, EnterHandler
<1>9. CASE EnterTerminate
  BY <1>9 DEF EnterTerminate, EnterHandler
<1>10. CASE alarm_handler
  <2>0. [printed |-> TRUE, count |-> count["parent"]]
          \in [printed : BOOLEAN, count : Counters]
    OBVIOUS
  <2>1. report' \in [Procs -> [printed : BOOLEAN, count : Counters]]
    BY <1>10, <2>0 DEF alarm_handler, AlarmHandler, Report
  <2>2. pend' \in [Procs -> SUBSET Sigs]
    BY <1>10 DEF alarm_handler, AlarmHandler, Raise
  <2>3. QED
    BY <1>10, <2>1, <2>2 DEF alarm_handler, AlarmHandler, InHandler, Exit
<1>11. CASE child_terminate
  BY <1>11 DEF child_terminate, TerminateChild, InHandler, Report, Exit
<1>12. CASE AlarmExpires
  BY <1>12 DEF AlarmExpires, Raise
<1>13. CASE Reap
  BY <1>13 DEF Reap
<1>14. CASE UNCHANGED pairVars
  BY <1>14 DEF pairVars
<1>15. QED
  BY <1>1, <1>2, <1>3, <1>4, <1>5, <1>6, <1>7, <1>8, <1>9, <1>10, <1>11, <1>12,
     <1>13, <1>14
     DEF Next, ParentStep, ChildStep, main, be_the_parent, be_a_child,
         Terminated

\* The variables start with values of their types.
LEMMA InitType == Init => TypeOK
<1> SUFFICES ASSUME Init PROVE TypeOK
  OBVIOUS
<1>1. Zero \in Counters /\ [printed |-> FALSE, count |-> Zero]
                             \in [printed : BOOLEAN, count : Counters]
  BY DEF Zero, Counters
<1>2. report \in [Procs -> [printed : BOOLEAN, count : Counters]]
  BY <1>1 DEF Init, PairInit
<1>3. count \in [Procs -> Counters]
  BY <1>1 DEF Init, PairInit
<1>4. mask \in [Procs -> SUBSET Sigs] /\ pend \in [Procs -> SUBSET Sigs]
  BY DEF Init, PairInit
<1>5. QED
  BY <1>2, <1>3, <1>4 DEF Init, PairInit, TypeOK, PairTypeOK, Procs, Exits

\* Every variable of the model of sigs_sent_swtch.c keeps its type.
THEOREM TypeCorrect == Spec => []TypeOK
BY InitType, TypeStep, PTL DEF Spec

-----------------------------------------------------------------------------

\* Nothing has been sent when the program starts.
LEMMA InitInv == Init => IInv
<1> SUFFICES ASSUME Init PROVE IInv
  OBVIOUS
<1>1. TypeOK
  BY InitType
<1>2. /\ status["parent"] = "running" /\ status["child"] = "unborn"
      /\ pc["parent"] = "main" /\ pc["child"] = "ready"
      /\ \A p \in Procs : /\ hnd[p] = "none" /\ pend[p] = {}
                          /\ count[p] = Zero /\ ~report[p].printed
      /\ ~alarm /\ ~reaped
  BY DEF Init, PairInit, Procs
<1>3. QED
  BY <1>1, <1>2 DEF IInv, Lifecycle, Masked, Quiet, Conserved,
     ReportsCurrent, Procs, Exits

\* A signal is delivered only outside handlers, and SIGUSR1 only inside
\* sigsuspend.
LEMMA Delivery ==
    ASSUME IInv, NEW p \in Procs, NEW s \in Sigs,
           status[p] = "running", s \in pend[p], s \notin Blocked(p)
    PROVE  hnd[p] = "none" /\ (s = "SIGUSR1" => pc[p] = "suspended")
<1>1. hnd[p] = "none"
  BY DEF Blocked
<1>2. mask[p] = {"SIGUSR1"}
  <2>1. status["child"] # "unborn"
    BY DEF IInv, Lifecycle, Procs
  <2>2. QED
    BY <2>1 DEF IInv, Lifecycle, Masked, Procs
<1>3. QED
  BY <1>1, <1>2 DEF Blocked

\* One step of the program preserves the inductive invariant.
LEMMA InvStep == IInv /\ [Next]_pairVars => IInv'
<1> SUFFICES ASSUME IInv, [Next]_pairVars PROVE IInv'
  OBVIOUS
<1>0. TypeOK'
  BY TypeStep DEF IInv
<1> USE DEF IInv, Procs, Exits, Sigs, Counters, Zero, InLoop, Sends, In, Held,
            InMain, procVars, sigVars, cntVars
<1>1. CASE StartUp({"SIGUSR1"})
  <2>1. Lifecycle'
    BY <1>1 DEF StartUp, Goto, Exit, TypeOK, PairTypeOK, Lifecycle
  <2>2. Masked' /\ Quiet'
    BY <1>1 DEF StartUp, Goto, Exit, TypeOK, PairTypeOK, Lifecycle, Masked,
       Quiet
  <2>3. Conserved'
    BY <1>1 DEF StartUp, Goto, Exit, TypeOK, PairTypeOK, Lifecycle, Masked,
       Quiet, Conserved
  <2>4. ReportsCurrent'
    BY <1>1 DEF StartUp, Goto, Exit, TypeOK, PairTypeOK, Lifecycle,
       ReportsCurrent
  <2>5. QED
    BY <1>0, <2>1, <2>2, <2>3, <2>4
<1>2. CASE ForkChild
  <2>1. Lifecycle'
    BY <1>2 DEF ForkChild, Goto, Exit, TypeOK, PairTypeOK, Lifecycle
  <2>2. Masked' /\ Quiet'
    BY <1>2 DEF ForkChild, Goto, Exit, TypeOK, PairTypeOK, Lifecycle, Masked,
       Quiet
  <2>3. Conserved'
    BY <1>2 DEF ForkChild, Goto, Exit, TypeOK, PairTypeOK, Lifecycle, Masked,
       Quiet, Conserved
  <2>4. ReportsCurrent'
    BY <1>2 DEF ForkChild, Goto, Exit, TypeOK, PairTypeOK, Lifecycle,
       ReportsCurrent
  <2>5. QED
    BY <1>0, <2>1, <2>2, <2>3, <2>4
<1>3. CASE ArmAlarm("kill")
  <2>1. Lifecycle'
    BY <1>3 DEF ArmAlarm, Goto, TypeOK, PairTypeOK, Lifecycle
  <2>2. Masked' /\ Quiet'
    BY <1>3 DEF ArmAlarm, Goto, TypeOK, PairTypeOK, Lifecycle, Masked,
       Quiet
  <2>3. Conserved'
    BY <1>3 DEF ArmAlarm, Goto, TypeOK, PairTypeOK, Lifecycle, Masked,
       Quiet, Conserved
  <2>4. ReportsCurrent'
    BY <1>3 DEF ArmAlarm, Goto, TypeOK, PairTypeOK, Lifecycle,
       ReportsCurrent
  <2>5. QED
    BY <1>0, <2>1, <2>2, <2>3, <2>4
<1>4. ASSUME NEW p \in Procs, KillPeer(p, "SIGUSR1", "count") PROVE IInv'
  <2>1. Lifecycle'
    BY <1>4 DEF KillPeer, Goto, Exit, Peer, Exists, Raise, TypeOK, PairTypeOK,
      Lifecycle
  <2>2. Masked' /\ Quiet'
    BY <1>4
       DEF KillPeer, Goto, Exit, Peer, Exists, Raise, TypeOK, PairTypeOK,
           Lifecycle, Masked, Quiet
  <2>3. Conserved'
    BY <1>4
       DEF KillPeer, Goto, Exit, Peer, Exists, Raise, TypeOK, PairTypeOK,
           Lifecycle, Masked, Quiet, Conserved
  <2>4. ReportsCurrent'
    BY <1>4
       DEF KillPeer, Goto, Exit, Peer, Exists, Raise, TypeOK, PairTypeOK,
           Lifecycle, ReportsCurrent
  <2>5. QED
    BY <1>0, <2>1, <2>2, <2>3, <2>4
<1>5. ASSUME NEW p \in Procs, Increment(p, "count", "sent", "ready") PROVE IInv'
  <2>1. Lifecycle'
    BY <1>5 DEF Increment, Goto, TypeOK, PairTypeOK, Lifecycle
  <2>2. Masked' /\ Quiet'
    BY <1>5 DEF Increment, Goto, TypeOK, PairTypeOK, Lifecycle, Masked,
       Quiet
  <2>3. Conserved'
    BY <1>5 DEF Increment, Goto, TypeOK, PairTypeOK, Lifecycle, Masked,
       Quiet, Conserved
  <2>4. ReportsCurrent'
    BY <1>5 DEF Increment, Goto, TypeOK, PairTypeOK, Lifecycle,
       ReportsCurrent
  <2>5. QED
    BY <1>0, <2>1, <2>2, <2>3, <2>4
<1>6. ASSUME NEW p \in Procs, Step(p, "ready", "suspended") PROVE IInv'
  <2>1. Lifecycle'
    BY <1>6 DEF Step, Goto, TypeOK, PairTypeOK, Lifecycle
  <2>2. Masked' /\ Quiet'
    BY <1>6 DEF Step, Goto, TypeOK, PairTypeOK, Lifecycle, Masked,
       Quiet
  <2>3. Conserved'
    BY <1>6 DEF Step, Goto, TypeOK, PairTypeOK, Lifecycle, Masked,
       Quiet, Conserved
  <2>4. ReportsCurrent'
    BY <1>6 DEF Step, Goto, TypeOK, PairTypeOK, Lifecycle,
       ReportsCurrent
  <2>5. QED
    BY <1>0, <2>1, <2>2, <2>3, <2>4
<1>7. ASSUME NEW p \in Procs, null_handler(p) PROVE IInv'
  <2>0. status[p] = "running" /\ hnd[p] = "none" /\ pc[p] = "suspended"
    BY <1>7, Delivery DEF null_handler
  <2>1. Lifecycle'
    BY <1>7, <2>0 DEF null_handler, TypeOK, PairTypeOK, Lifecycle
  <2>2. Masked' /\ Quiet'
    BY <1>7, <2>0 DEF null_handler, TypeOK, PairTypeOK, Lifecycle, Masked,
       Quiet
  <2>3. Conserved'
    BY <1>7, <2>0 DEF null_handler, TypeOK, PairTypeOK, Lifecycle, Masked,
       Quiet, Conserved
  <2>4. ReportsCurrent'
    BY <1>7, <2>0 DEF null_handler, TypeOK, PairTypeOK, Lifecycle,
       ReportsCurrent
  <2>5. QED
    BY <1>0, <2>1, <2>2, <2>3, <2>4
<1>8. CASE EnterAlarm
  <2>0. status["parent"] = "running" /\ hnd["parent"] = "none"
    BY <1>8, Delivery DEF EnterAlarm, EnterHandler
  <2>1. Lifecycle'
    BY <1>8, <2>0 DEF EnterAlarm, EnterHandler, TypeOK, PairTypeOK, Lifecycle
  <2>2. Masked' /\ Quiet'
    BY <1>8, <2>0
       DEF EnterAlarm, EnterHandler, TypeOK, PairTypeOK, Lifecycle, Masked,
           Quiet
  <2>3. Conserved'
    BY <1>8, <2>0
       DEF EnterAlarm, EnterHandler, TypeOK, PairTypeOK, Lifecycle, Masked,
           Quiet, Conserved
  <2>4. ReportsCurrent'
    BY <1>8, <2>0 DEF EnterAlarm, EnterHandler, TypeOK, PairTypeOK, Lifecycle,
       ReportsCurrent
  <2>5. QED
    BY <1>0, <2>1, <2>2, <2>3, <2>4
<1>9. CASE EnterTerminate
  <2>0. status["child"] = "running" /\ hnd["child"] = "none"
    BY <1>9, Delivery DEF EnterTerminate, EnterHandler
  <2>1. Lifecycle'
    BY <1>9, <2>0 DEF EnterTerminate, EnterHandler, TypeOK, PairTypeOK,
      Lifecycle
  <2>2. Masked' /\ Quiet'
    BY <1>9, <2>0
       DEF EnterTerminate, EnterHandler, TypeOK, PairTypeOK, Lifecycle, Masked,
           Quiet
  <2>3. Conserved'
    BY <1>9, <2>0
       DEF EnterTerminate, EnterHandler, TypeOK, PairTypeOK, Lifecycle, Masked,
           Quiet, Conserved
  <2>4. ReportsCurrent'
    BY <1>9, <2>0
       DEF EnterTerminate, EnterHandler, TypeOK, PairTypeOK, Lifecycle,
           ReportsCurrent
  <2>5. QED
    BY <1>0, <2>1, <2>2, <2>3, <2>4
<1>10. CASE alarm_handler
  <2>1. Lifecycle'
    BY <1>10 DEF alarm_handler, AlarmHandler, InHandler, Report, Raise, Exit,
      TypeOK, PairTypeOK, Lifecycle
  <2>2. Masked' /\ Quiet'
    BY <1>10
       DEF alarm_handler, AlarmHandler, InHandler, Report, Raise, Exit, TypeOK,
           PairTypeOK, Lifecycle, Masked, Quiet
  <2>3. Conserved'
    BY <1>10
       DEF alarm_handler, AlarmHandler, InHandler, Report, Raise, Exit, TypeOK,
           PairTypeOK, Lifecycle, Masked, Quiet, Conserved
  <2>4. ReportsCurrent'
    BY <1>10
       DEF alarm_handler, AlarmHandler, InHandler, Report, Raise, Exit, TypeOK,
           PairTypeOK, Lifecycle, ReportsCurrent
  <2>5. QED
    BY <1>0, <2>1, <2>2, <2>3, <2>4
<1>11. CASE child_terminate
  <2>1. Lifecycle'
    BY <1>11 DEF child_terminate, TerminateChild, InHandler, Report, Exit,
      TypeOK, PairTypeOK, Lifecycle
  <2>2. Masked' /\ Quiet'
    BY <1>11
       DEF child_terminate, TerminateChild, InHandler, Report, Exit, TypeOK,
           PairTypeOK, Lifecycle, Masked, Quiet
  <2>3. Conserved'
    BY <1>11
       DEF child_terminate, TerminateChild, InHandler, Report, Exit, TypeOK,
           PairTypeOK, Lifecycle, Masked, Quiet, Conserved
  <2>4. ReportsCurrent'
    BY <1>11
       DEF child_terminate, TerminateChild, InHandler, Report, Exit, TypeOK,
           PairTypeOK, Lifecycle, ReportsCurrent
  <2>5. QED
    BY <1>0, <2>1, <2>2, <2>3, <2>4
<1>12. CASE AlarmExpires
  <2>1. Lifecycle'
    BY <1>12 DEF AlarmExpires, Raise, TypeOK, PairTypeOK, Lifecycle
  <2>2. Masked' /\ Quiet'
    BY <1>12 DEF AlarmExpires, Raise, TypeOK, PairTypeOK, Lifecycle, Masked,
       Quiet
  <2>3. Conserved'
    BY <1>12 DEF AlarmExpires, Raise, TypeOK, PairTypeOK, Lifecycle, Masked,
       Quiet, Conserved
  <2>4. ReportsCurrent'
    BY <1>12 DEF AlarmExpires, Raise, TypeOK, PairTypeOK, Lifecycle,
       ReportsCurrent
  <2>5. QED
    BY <1>0, <2>1, <2>2, <2>3, <2>4
<1>13. CASE Reap
  <2>1. Lifecycle'
    BY <1>13 DEF Reap, TypeOK, PairTypeOK, Lifecycle
  <2>2. Masked' /\ Quiet'
    BY <1>13 DEF Reap, TypeOK, PairTypeOK, Lifecycle, Masked,
       Quiet
  <2>3. Conserved'
    BY <1>13 DEF Reap, TypeOK, PairTypeOK, Lifecycle, Masked,
       Quiet, Conserved
  <2>4. ReportsCurrent'
    BY <1>13 DEF Reap, TypeOK, PairTypeOK, Lifecycle,
       ReportsCurrent
  <2>5. QED
    BY <1>0, <2>1, <2>2, <2>3, <2>4
<1>14. CASE UNCHANGED pairVars
  <2>1. Lifecycle'
    BY <1>14 DEF pairVars, TypeOK, PairTypeOK, Lifecycle
  <2>2. Masked' /\ Quiet'
    BY <1>14 DEF pairVars, TypeOK, PairTypeOK, Lifecycle, Masked,
       Quiet
  <2>3. Conserved'
    BY <1>14 DEF pairVars, TypeOK, PairTypeOK, Lifecycle, Masked,
       Quiet, Conserved
  <2>4. ReportsCurrent'
    BY <1>14 DEF pairVars, TypeOK, PairTypeOK, Lifecycle,
       ReportsCurrent
  <2>5. QED
    BY <1>0, <2>1, <2>2, <2>3, <2>4
<1>15. QED
  BY <1>1, <1>2, <1>3, <1>4, <1>5, <1>6, <1>7, <1>8, <1>9, <1>10, <1>11, <1>12,
     <1>13, <1>14
     DEF Next, ParentStep, ChildStep, main, be_the_parent, be_a_child,
         Terminated

\* The inductive invariant of sigs_sent_swtch.c holds in every reachable state.
THEOREM Invariance == Spec => []IInv
BY InitInv, InvStep, PTL DEF Spec

-----------------------------------------------------------------------------
(* What the invariant buys.                                                *)

\* The conservation of signals says that one signal is under way.
LEMMA OneTokenFollows == IInv => OneToken
BY DEF IInv, OneToken, Conserved, InLoop, Lifecycle, Procs

\* However long the two loops of sigs_sent_swtch.c run, there is exactly one
\* SIGUSR1 under way or about to be sent: none is merged, none is missed.
THEOREM NeverTwoNeverNone == Spec => []OneToken
BY Invariance, OneTokenFollows, PTL

\* The conservation of signals covers each process while it runs.
LEMMA NoSignalLostFollows == IInv => NoSignalLost
<1> SUFFICES ASSUME IInv, NEW p \in Procs, status[p] = "running"
             PROVE  Sends(Peer(p)) = count[p].recv + In(p)
  BY DEF NoSignalLost
<1>1. CASE status["child"] = "unborn"
  <2>1. p = "parent" /\ Peer(p) = "child"
    BY <1>1 DEF Procs, Peer
  <2>2. /\ count["child"].sent = 0 /\ count["parent"].recv = 0
        /\ pend["parent"] = {} /\ pc["child"] = "ready"
    BY <1>1 DEF IInv, Lifecycle, Procs, Zero
  <2>3. QED
    BY <2>1, <2>2 DEF Sends, In
<1>2. CASE status["child"] # "unborn"
  BY <1>2 DEF IInv, Conserved, Procs, Peer
<1>3. QED
  BY <1>1, <1>2

\* Every kill of a SIGUSR1 is matched by one run of the peer's null_handler.
THEOREM SignalsConserved == Spec => []NoSignalLost
BY Invariance, NoSignalLostFollows, PTL

\* Reports show the final counters, which conservation keeps close.
LEMMA ReportsAgreeFollows == IInv => ReportsAgree
<1> SUFFICES ASSUME IInv, report["parent"].printed, report["child"].printed
             PROVE  /\ Close(report["parent"].count.sent,
                             report["child"].count.recv)
                    /\ Close(report["child"].count.sent,
                             report["parent"].count.recv)
  BY DEF ReportsAgree
<1>1. \A p \in Procs : report[p].count = count[p]
  BY DEF IInv, ReportsCurrent, Procs
<1>2. status["child"] # "unborn"
  BY DEF IInv, ReportsCurrent, Procs, Exits
<1>3. count["parent"] \in Counters /\ count["child"] \in Counters
  BY DEF IInv, TypeOK, PairTypeOK, Procs
<1>4. Close(count["parent"].sent, count["child"].recv)
  BY <1>2, <1>3 DEF IInv, Conserved, Sends, In, Close, Procs, Counters
<1>5. Close(count["child"].sent, count["parent"].recv)
  <2>1. status["parent"] = "running" \/ status["parent"] \in Exits
    BY DEF IInv, TypeOK, PairTypeOK, Lifecycle, Procs
  <2>2. QED
    BY <1>2, <1>3, <2>1 DEF IInv, Conserved, Sends, In, Held, Close, Procs,
       Counters
<1>6. QED
  BY <1>1, <1>4, <1>5 DEF Procs

\* The two lines the experiment prints never contradict each other by more
\* than the one signal under way when the alarm struck.
THEOREM ReportsConsistent == Spec => []ReportsAgree
BY Invariance, ReportsAgreeFollows, PTL

\* The life cycle of the two processes fixes the order of their exits.
LEMMA ChildStaysFollows == IInv => ChildStaysToTheEnd
BY DEF IInv, Lifecycle, ChildStaysToTheEnd

\* The child is never the one that ends the experiment.
THEOREM ChildNeverEndsIt == Spec => []ChildStaysToTheEnd
BY Invariance, ChildStaysFollows, PTL

-----------------------------------------------------------------------------
(* Refinement of Baton.                                                    *)

\* At the start of the program the baton has not been served.
LEMMA InitRefines == Init => B!BatonInit
<1> SUFFICES ASSUME Init PROVE Ball = "idle" /\ count["parent"].recv = 0
  BY DEF B!BatonInit
<1>1. QED
  BY DEF Init, PairInit, Zero, Ball, InLoop, Procs

\* Every step of the program is a step of the baton or leaves it alone.
LEMMA StepRefines ==
    IInv /\ IInv' /\ [Next]_pairVars => [B!BatonNext]_(B!batonVars)
<1> DEFINE Stutter == Ball' = Ball /\ count'["parent"].recv = count["parent"].recv
<1> SUFFICES ASSUME IInv, IInv', [Next]_pairVars PROVE B!BatonNext \/ Stutter
  BY DEF B!batonVars
<1> USE DEF B!BatonNext, B!Serve, B!Pass, B!Return, B!Drop, IInv, TypeOK, PairTypeOK,
            Counters, InLoop, In, Held, InMain, Procs, procVars, sigVars,
            cntVars

<1>1. CASE StartUp({"SIGUSR1"})
  BY <1>1 DEF StartUp, Goto, Exit, Ball, Lifecycle, Exits
<1>2. CASE ForkChild
  BY <1>2 DEF ForkChild, Goto, Exit, Ball, Lifecycle, Exits
<1>3. CASE ArmAlarm("kill")
  BY <1>3 DEF ArmAlarm, Goto, Ball, Lifecycle, Conserved
<1>4. ASSUME KillPeer("parent", "SIGUSR1", "count") PROVE B!BatonNext
  <2>1. /\ status["child"] = "running" /\ Peer("parent") = "child"
        /\ status["parent"] = "running" /\ hnd["parent"] = "none"
        /\ pc["parent"] = "kill"
    BY <1>4 DEF KillPeer, Lifecycle, Peer, Exits
  <2>2. /\ pc' = [pc EXCEPT !["parent"] = "count"]
        /\ UNCHANGED <<status, hnd, count>>
        /\ pend' = [pend EXCEPT !["child"] = @ \cup {"SIGUSR1"}]
    BY <1>4, <2>1 DEF KillPeer, Goto, Exists, Raise
  <2>3. Ball = "parent"
    BY <2>1 DEF Ball, Conserved
  <2>4. Ball' = "toChild"
    BY <2>1, <2>2 DEF Ball, Conserved
  <2>5. QED
    BY <2>2, <2>3, <2>4
<1>4a. ASSUME KillPeer("child", "SIGUSR1", "count")
       PROVE  B!BatonNext \/ Stutter
  BY <1>4a DEF Ball, KillPeer, Goto, Exit, Lifecycle, Conserved, Peer, Exists,
     Raise, Exits
<1>5. ASSUME NEW p \in Procs, Increment(p, "count", "sent", "ready")
      PROVE  B!BatonNext \/ Stutter
  BY <1>5 DEF Increment, Goto, Ball
<1>6. ASSUME NEW p \in Procs, Step(p, "ready", "suspended")
      PROVE  B!BatonNext \/ Stutter
  BY <1>6 DEF Step, Goto, Ball
<1>7. ASSUME NEW p \in Procs, null_handler(p)
      PROVE  B!BatonNext \/ Stutter
  <2>0. status[p] = "running" /\ hnd[p] = "none" /\ pc[p] = "suspended"
    BY <1>7, Delivery DEF null_handler, Sigs
  <2>1. QED
    BY <1>7, <2>0 DEF null_handler, Ball, Lifecycle, Conserved
<1>8. CASE EnterAlarm
  <2>0. status["parent"] = "running" /\ hnd["parent"] = "none"
    BY <1>8, Delivery DEF EnterAlarm, EnterHandler, Sigs
  <2>1. QED
    BY <1>8, <2>0 DEF EnterAlarm, EnterHandler, Ball
<1>9. CASE EnterTerminate
  <2>0. status["child"] = "running" /\ hnd["child"] = "none"
    BY <1>9, Delivery DEF EnterTerminate, EnterHandler, Sigs
  <2>1. QED
    BY <1>9, <2>0 DEF EnterTerminate, EnterHandler, Ball
<1>10. CASE alarm_handler
  BY <1>10 DEF alarm_handler, AlarmHandler, InHandler, Report, Raise, Exit, Ball
<1>11. CASE child_terminate
  BY <1>11 DEF child_terminate, TerminateChild, InHandler, Report, Exit, Ball
<1>12. CASE AlarmExpires
  BY <1>12 DEF AlarmExpires, Raise, Ball
<1>13. CASE Reap
  BY <1>13 DEF Reap, Ball
<1>14. CASE UNCHANGED pairVars
  BY <1>14 DEF pairVars, Ball
<1>15. QED
  BY <1>1, <1>2, <1>3, <1>4, <1>4a, <1>5, <1>6, <1>7, <1>8,
     <1>9, <1>10, <1>11, <1>12, <1>13, <1>14
     DEF Next, ParentStep, ChildStep, main, be_the_parent, be_a_child,
       Terminated

\* sigs_sent_swtch.c implements the strict alternation of Baton, for ever.
THEOREM Refinement == Spec => ImplementsBaton
<1>1. Init /\ [][Next]_pairVars => []IInv
  BY InitInv, InvStep, PTL
<1>2. QED
  BY <1>1, InitRefines, StepRefines, PTL
     DEF Spec, ImplementsBaton, B!BatonSpec
=============================================================================
