--------------------------- MODULE SigFloodProofs ---------------------------
(***************************************************************************)
(* Theorems about SigFlood (sigs_sent_noswtch.c, sending_sigs.c,           *)
(* sending_sigs_self.c, sending_recving_sigs_self.c, switch.c, noswitch.c  *)
(* and cpubench.c), for every value of MaxCalls, hence for runs of any     *)
(* length.                                                                 *)
(***************************************************************************)
EXTENDS SigFlood, TLAPS

USE DEF Procs, Forking, SelfSending, Alone, Blocking, Yielding

-----------------------------------------------------------------------------
(* Types.                                                                  *)

\* What a process prints are counters.
LEMMA ReportType ==
    ASSUME TypeOK, NEW p \in Procs, Report(p)
    PROVE  report' \in [Procs -> [printed : BOOLEAN, count : Counters]]
<1>1. [printed |-> TRUE, count |-> count[p]]
          \in [printed : BOOLEAN, count : Counters]
  BY DEF TypeOK, PairTypeOK
<1> DEFINE r == [printed |-> TRUE, count |-> count[p]]
<1>2. r \in [printed : BOOLEAN, count : Counters]
  BY <1>1
<1> HIDE DEF r
<1>3. report' = [report EXCEPT ![p] = r]
  BY DEF Report, r
<1>4. QED
  BY <1>2, <1>3 DEF TypeOK, PairTypeOK

\* One step of a program preserves the types of its variables.
LEMMA TypeStep == TypeOK /\ [Next]_vars => TypeOK'
<1> SUFFICES ASSUME TypeOK, [Next]_vars PROVE TypeOK'
  OBVIOUS
<1>0. program' = program
  BY DEF Next, vars
<1> USE DEF TypeOK, PairTypeOK, Counters, Sigs, Exits, InMain, procVars,
            sigVars, cntVars
<1>1. ASSUME NEW m \in SUBSET {"SIGUSR1"}, StartUp(m),
             m = StartMask \/ program \in Yielding
      PROVE  TypeOK'
  BY <1>0, <1>1 DEF StartUp, Goto, Exit
<1>2. CASE program \in Forking /\ ForkChild
  BY <1>0, <1>2 DEF ForkChild, Goto, Exit
<1>3. CASE program \in Alone /\ Step("parent", "fork", "alarm")
  BY <1>0, <1>3 DEF Step, Goto
<1>4. ASSUME NEW first \in {"kill", "yield", "count"}, ArmAlarm(first),
             first = "count" => program = "cpubench"
      PROVE  TypeOK'
  BY <1>0, <1>4 DEF ArmAlarm, Goto
<1>5. CASE /\ program \in Forking \ Yielding
           /\ KillPeer("parent", "SIGUSR1", "count")
  BY <1>0, <1>5 DEF KillPeer, Goto, Exit, Peer, Exists, Raise
<1>6. ASSUME NEW p \in Procs, NEW next \in {"kill", "yield", "count"},
             Increment(p, "count", "sent", next),
             next = "count" => program = "cpubench",
             program \in SelfSending /\ "SIGUSR1" \in pend["parent"]
                => "SIGUSR1" \in mask["parent"]
      PROVE  TypeOK'
  BY <1>0, <1>6 DEF Increment, Goto
<1>7. CASE Step("child", "ready", "suspended")
  BY <1>0, <1>7 DEF Step, Goto
<1>8. CASE /\ program \in SelfSending /\ InMain("parent", "kill")
           /\ Raise("parent", "SIGUSR1") /\ Goto("parent", "count")
           /\ UNCHANGED <<status, hnd, mask, alarm, reaped, cntVars>>
  BY <1>0, <1>8 DEF Raise, Goto
<1>9. ASSUME NEW p \in Procs, program \in Yielding, Step(p, "yield", "count")
      PROVE  TypeOK'
  BY <1>0, <1>9 DEF Step, Goto
<1>10. ASSUME NEW p \in Procs, EnterUsr1(p)
      PROVE  TypeOK'
  BY <1>0, <1>10 DEF EnterUsr1, EnterHandler
<1>11. ASSUME NEW p \in Procs, usr1_handler(p)
      PROVE  TypeOK'
  <2>1. CASE program \in Blocking
    BY <1>0, <1>11, <2>1
    DEF usr1_handler, InHandler, panic_handler, Raise, Exit
  <2>2. CASE program \notin Blocking
    BY <1>0, <1>11, <2>2 DEF usr1_handler, InHandler, null_handler, Goto
  <2>3. QED
    BY <2>1, <2>2
<1>12. CASE EnterAlarm
  BY <1>0, <1>12 DEF EnterAlarm, EnterHandler
<1>13. CASE alarm_handler
  <2>1. CASE Report("parent")
    <3>1. report' \in [Procs -> [printed : BOOLEAN, count : Counters]]
      BY <2>1, ReportType
    <3>2. pend' \in [Procs -> SUBSET Sigs]
      BY <1>13 DEF alarm_handler, AlarmHandler, Raise
    <3>3. QED
      BY <1>0, <1>13, <3>1, <3>2
      DEF alarm_handler, AlarmHandler, InHandler, Exit
  <2>2. CASE UNCHANGED <<cntVars, sigVars>>
    BY <1>0, <1>13, <2>2 DEF alarm_handler, AlarmHandler, InHandler, Exit
  <2>3. QED
    BY <1>13, <2>1, <2>2 DEF alarm_handler, AlarmHandler
<1>14. CASE EnterTerminate
  BY <1>0, <1>14 DEF EnterTerminate, EnterHandler
<1>15. CASE child_terminate
  <2>1. CASE program = "sending_sigs"
    BY <1>0, <1>15, <2>1 DEF child_terminate, InHandler, Exit
  <2>2. CASE program # "sending_sigs"
    <3>1. report' \in [Procs -> [printed : BOOLEAN, count : Counters]]
      BY <1>15, <2>2, ReportType DEF child_terminate, TerminateChild
    <3>2. QED
      BY <1>0, <1>15, <2>2, <3>1
      DEF child_terminate, TerminateChild, InHandler, Exit
  <2>3. QED
    BY <2>1, <2>2
<1>16. CASE AlarmExpires
  BY <1>0, <1>16 DEF AlarmExpires, Raise
<1>17. CASE Reap
  BY <1>0, <1>17 DEF Reap
<1>18. CASE UNCHANGED pairVars
  BY <1>0, <1>18 DEF pairVars
<1>19. CASE main
  BY <1>1, <1>2, <1>19 DEF main, StartMask
<1>20. CASE main_switch
  BY <1>1, <1>2, <1>20 DEF main_switch
<1>21. CASE main_alone
  BY <1>1, <1>3, <1>21 DEF main_alone, StartMask
<1>22. CASE be_the_parent
  BY <1>4, <1>5, <1>6, <1>22 DEF be_the_parent, Count
<1>23. CASE send_sigs_self
  BY <1>4, <1>6, <1>8, <1>23 DEF send_sigs_self, Count
<1>24. ASSUME NEW p \in Procs, switcher(p) PROVE TypeOK'
  BY <1>4, <1>6, <1>9, <1>24 DEF switcher, Count
<1>25. CASE iterate
  BY <1>4, <1>6, <1>25 DEF iterate, Count
<1>26. CASE be_a_child
  BY <1>7, <1>26 DEF be_a_child
<1>27. QED
  BY <1>10, <1>11, <1>12, <1>13, <1>14, <1>15, <1>16, <1>17, <1>18, <1>19,
     <1>20, <1>21, <1>22, <1>23, <1>24, <1>25, <1>26
     DEF Next, vars, ParentStep, ChildStep, Terminated

\* The variables start with values of their types.
LEMMA InitType == Init => TypeOK
<1> SUFFICES ASSUME Init PROVE TypeOK
  OBVIOUS
<1>1. Zero \in Counters /\ [printed |-> FALSE, count |-> Zero]
                             \in [printed : BOOLEAN, count : Counters]
  BY DEF Zero, Counters
<1>2. report \in [Procs -> [printed : BOOLEAN, count : Counters]]
  BY <1>1 DEF Init, PairInit
<1>3. count \in [Procs -> Counters]
  BY <1>1 DEF Init, PairInit
<1>4. mask \in [Procs -> SUBSET Sigs] /\ pend \in [Procs -> SUBSET Sigs]
  BY DEF Init, PairInit
<1>5. QED
  BY <1>2, <1>3, <1>4 DEF Init, PairInit, TypeOK, PairTypeOK, Exits

-----------------------------------------------------------------------------
(* The inductive invariant.                                                *)

\* Nothing has been sent when a program starts.
LEMMA InitInv == Init => IInv
<1> SUFFICES ASSUME Init PROVE IInv
  OBVIOUS
<1>1. TypeOK
  BY InitType
<1>2. /\ status["parent"] = "running" /\ status["child"] = "unborn"
      /\ pc["parent"] = "main"
      /\ \A p \in Procs : /\ hnd[p] = "none" /\ pend[p] = {} /\ mask[p] = {}
                          /\ count[p].sent = 0 /\ count[p].recv = 0
                          /\ report[p].printed = FALSE
  BY DEF Init, PairInit, Zero
<1>3. QED
  BY <1>1, <1>2 DEF IInv, Lifecycle, Masked, NobodyReceives, NoneInvented,
     SomeArrive, SelfCounted, ReportsCurrent, Sends, Underway

\* A handler for SIGUSR1 starts on top of the mainline alone, and only where
\* the signal is not blocked.
LEMMA Usr1Delivery ==
    ASSUME TypeOK, NEW p \in Procs, EnterUsr1(p)
    PROVE  /\ status[p] = "running" /\ hnd[p] = "none"
           /\ program \in Blocking => "SIGUSR1" \notin mask[p]
<1>1. status[p] = "running" /\ "SIGUSR1" \notin Blocked(p)
  BY DEF EnterUsr1, EnterHandler
<1>2. hnd[p] \in {"none", "usr1_handler", "alarm_handler", "alarm_exit",
                 "child_terminate"}
  BY DEF TypeOK, PairTypeOK
<1>3. hnd[p] = "none"
  BY <1>1, <1>2 DEF Blocked, Sigs
<1>4. program \in Blocking => "SIGUSR1" \notin mask[p]
  BY <1>1, <1>3 DEF Blocked, SuspendMask, Sigs
<1>5. QED
  BY <1>1, <1>3, <1>4

\* The alarm strikes the mainline or the handler of SIGUSR1.
LEMMA AlarmDelivery ==
    ASSUME TypeOK, EnterAlarm
    PROVE  hnd["parent"] \in {"none", "usr1_handler"}
BY DEF EnterAlarm, EnterHandler, Blocked, TypeOK, PairTypeOK, Sigs

\* Where SIGUSR1 is handled it is not blocked, and null_handler counts it.
LEMMA Usr1Counted ==
    ASSUME NobodyReceives, NEW p \in Procs, usr1_handler(p)
    PROVE  /\ status[p] = "running" /\ hnd[p] = "usr1_handler"
           /\ program \notin Blocking
           /\ count' = [count EXCEPT ![p].recv = @ + 1]
           /\ hnd' = [hnd EXCEPT ![p] = "none"]
           /\ \/ pc[p] = "suspended" /\ pc' = [pc EXCEPT ![p] = "ready"]
              \/ UNCHANGED pc
           /\ UNCHANGED <<status, pend, mask, alarm, reaped, report>>
<1>1. hnd[p] = "usr1_handler"
  BY DEF usr1_handler, InHandler
<1>2. program \notin Blocking
  BY <1>1 DEF NobodyReceives
<1>3. QED
  BY <1>1, <1>2 DEF usr1_handler, InHandler, null_handler, Goto

\* One step of a program preserves the inductive invariant.
LEMMA InvStep == IInv /\ [Next]_vars => IInv'
<1> SUFFICES ASSUME IInv, [Next]_vars PROVE IInv'
  OBVIOUS
<1>0. TypeOK' /\ program' = program
  BY TypeStep DEF IInv, Next, vars
<1> USE DEF IInv, TypeOK, PairTypeOK, Exits, Sigs, Counters, Sends, Underway,
            InMain, procVars, sigVars, cntVars
<1>1. ASSUME NEW m \in SUBSET {"SIGUSR1"}, StartUp(m),
             m = StartMask \/ program \in Yielding
      PROVE  IInv'
  <2>1. Lifecycle'
    BY <1>0, <1>1 DEF StartUp, Goto, Exit, StartMask, Lifecycle
  <2>2. Masked'
    BY <1>0, <1>1 DEF StartUp, Goto, Exit, StartMask, Lifecycle, Masked
  <2>3. NobodyReceives'
    BY <1>0, <1>1
    DEF StartUp, Goto, Exit, StartMask, Lifecycle, Masked, NobodyReceives
  <2>4. NoneInvented'
    BY <1>0, <1>1
    DEF StartUp, Goto, Exit, StartMask, Lifecycle, Masked, NoneInvented
  <2>5. SomeArrive'
    BY <1>0, <1>1 DEF StartUp, Goto, Exit, StartMask, Lifecycle, SomeArrive
  <2>6. SelfCounted'
    BY <1>0, <1>1
    DEF StartUp, Goto, Exit, StartMask, Lifecycle, Masked, SelfCounted
  <2>7. ReportsCurrent'
    BY <1>0, <1>1 DEF StartUp, Goto, Exit, StartMask, Lifecycle, ReportsCurrent
  <2>8. QED
    BY <1>0, <2>1, <2>2, <2>3, <2>4, <2>5, <2>6, <2>7
<1>2. CASE program \in Forking /\ ForkChild
  <2>1. Lifecycle'
    BY <1>0, <1>2 DEF ForkChild, Goto, Exit, Lifecycle
  <2>2. Masked'
    BY <1>0, <1>2 DEF ForkChild, Goto, Exit, Lifecycle, Masked
  <2>3. NobodyReceives'
    BY <1>0, <1>2 DEF ForkChild, Goto, Exit, Lifecycle, Masked, NobodyReceives
  <2>4. NoneInvented'
    BY <1>0, <1>2 DEF ForkChild, Goto, Exit, Lifecycle, Masked, NoneInvented
  <2>5. SomeArrive'
    BY <1>0, <1>2 DEF ForkChild, Goto, Exit, Lifecycle, SomeArrive
  <2>6. SelfCounted'
    BY <1>0, <1>2 DEF ForkChild, Goto, Exit, Lifecycle, Masked, SelfCounted
  <2>7. ReportsCurrent'
    BY <1>0, <1>2 DEF ForkChild, Goto, Exit, Lifecycle, ReportsCurrent
  <2>8. QED
    BY <1>0, <2>1, <2>2, <2>3, <2>4, <2>5, <2>6, <2>7
<1>3. CASE program \in Alone /\ Step("parent", "fork", "alarm")
  <2>1. Lifecycle'
    BY <1>0, <1>3 DEF Step, Goto, Lifecycle
  <2>2. Masked'
    BY <1>0, <1>3 DEF Step, Goto, Lifecycle, Masked
  <2>3. NobodyReceives'
    BY <1>0, <1>3 DEF Step, Goto, Lifecycle, Masked, NobodyReceives
  <2>4. NoneInvented'
    BY <1>0, <1>3 DEF Step, Goto, Lifecycle, Masked, NoneInvented
  <2>5. SomeArrive'
    BY <1>0, <1>3 DEF Step, Goto, Lifecycle, SomeArrive
  <2>6. SelfCounted'
    BY <1>0, <1>3 DEF Step, Goto, Lifecycle, Masked, SelfCounted
  <2>7. ReportsCurrent'
    BY <1>0, <1>3 DEF Step, Goto, Lifecycle, ReportsCurrent
  <2>8. QED
    BY <1>0, <2>1, <2>2, <2>3, <2>4, <2>5, <2>6, <2>7
<1>4. ASSUME NEW first \in {"kill", "yield", "count"}, ArmAlarm(first),
             first = "count" => program = "cpubench"
      PROVE  IInv'
  <2>1. Lifecycle'
    BY <1>0, <1>4 DEF ArmAlarm, Goto, Lifecycle
  <2>2. Masked'
    BY <1>0, <1>4 DEF ArmAlarm, Goto, Lifecycle, Masked
  <2>3. NobodyReceives'
    BY <1>0, <1>4 DEF ArmAlarm, Goto, Lifecycle, Masked, NobodyReceives
  <2>4. NoneInvented'
    BY <1>0, <1>4 DEF ArmAlarm, Goto, Lifecycle, Masked, NoneInvented
  <2>5. SomeArrive'
    BY <1>0, <1>4 DEF ArmAlarm, Goto, Lifecycle, SomeArrive
  <2>6. SelfCounted'
    BY <1>0, <1>4 DEF ArmAlarm, Goto, Lifecycle, Masked, SelfCounted
  <2>7. ReportsCurrent'
    BY <1>0, <1>4 DEF ArmAlarm, Goto, Lifecycle, ReportsCurrent
  <2>8. QED
    BY <1>0, <2>1, <2>2, <2>3, <2>4, <2>5, <2>6, <2>7
<1>5. CASE /\ program \in Forking \ Yielding
           /\ KillPeer("parent", "SIGUSR1", "count")
  <2>1. Lifecycle'
    BY <1>0, <1>5 DEF KillPeer, Goto, Exit, Peer, Exists, Raise, Lifecycle
  <2>2. Masked'
    BY <1>0, <1>5
    DEF KillPeer, Goto, Exit, Peer, Exists, Raise, Lifecycle, Masked
  <2>3. NobodyReceives'
    BY <1>0, <1>5
    DEF KillPeer, Goto, Exit, Peer, Exists, Raise, Lifecycle, Masked,
        NobodyReceives
  <2>4. NoneInvented'
    BY <1>0, <1>5
    DEF KillPeer, Goto, Exit, Peer, Exists, Raise, Lifecycle, Masked,
        NoneInvented
  <2>5. SomeArrive'
    BY <1>0, <1>5
    DEF KillPeer, Goto, Exit, Peer, Exists, Raise, Lifecycle, SomeArrive
  <2>6. SelfCounted'
    BY <1>0, <1>5
    DEF KillPeer, Goto, Exit, Peer, Exists, Raise, Lifecycle, Masked,
        SelfCounted
  <2>7. ReportsCurrent'
    BY <1>0, <1>5
    DEF KillPeer, Goto, Exit, Peer, Exists, Raise, Lifecycle, ReportsCurrent
  <2>8. QED
    BY <1>0, <2>1, <2>2, <2>3, <2>4, <2>5, <2>6, <2>7
<1>6. ASSUME NEW p \in Procs, NEW next \in {"kill", "yield", "count"},
             Increment(p, "count", "sent", next),
             next = "count" => program = "cpubench",
             program \in SelfSending /\ "SIGUSR1" \in pend["parent"]
                => "SIGUSR1" \in mask["parent"]
      PROVE  IInv'
  <2>1. Lifecycle'
    BY <1>0, <1>6 DEF Increment, Goto, Lifecycle
  <2>2. Masked'
    BY <1>0, <1>6 DEF Increment, Goto, Lifecycle, Masked
  <2>3. NobodyReceives'
    BY <1>0, <1>6 DEF Increment, Goto, Lifecycle, Masked, NobodyReceives
  <2>4. NoneInvented'
    BY <1>0, <1>6 DEF Increment, Goto, Lifecycle, Masked, NoneInvented
  <2>5. SomeArrive'
    BY <1>0, <1>6 DEF Increment, Goto, Lifecycle, SomeArrive
  <2>6. SelfCounted'
    BY <1>0, <1>6 DEF Increment, Goto, Lifecycle, Masked, SelfCounted
  <2>7. ReportsCurrent'
    BY <1>0, <1>6 DEF Increment, Goto, Lifecycle, ReportsCurrent
  <2>8. QED
    BY <1>0, <2>1, <2>2, <2>3, <2>4, <2>5, <2>6, <2>7
<1>7. CASE Step("child", "ready", "suspended")
  <2>1. Lifecycle'
    BY <1>0, <1>7 DEF Step, Goto, Lifecycle
  <2>2. Masked'
    BY <1>0, <1>7 DEF Step, Goto, Lifecycle, Masked
  <2>3. NobodyReceives'
    BY <1>0, <1>7 DEF Step, Goto, Lifecycle, Masked, NobodyReceives
  <2>4. NoneInvented'
    BY <1>0, <1>7 DEF Step, Goto, Lifecycle, Masked, NoneInvented
  <2>5. SomeArrive'
    BY <1>0, <1>7 DEF Step, Goto, Lifecycle, SomeArrive
  <2>6. SelfCounted'
    BY <1>0, <1>7 DEF Step, Goto, Lifecycle, Masked, SelfCounted
  <2>7. ReportsCurrent'
    BY <1>0, <1>7 DEF Step, Goto, Lifecycle, ReportsCurrent
  <2>8. QED
    BY <1>0, <2>1, <2>2, <2>3, <2>4, <2>5, <2>6, <2>7
<1>8. CASE /\ program \in SelfSending /\ InMain("parent", "kill")
           /\ Raise("parent", "SIGUSR1") /\ Goto("parent", "count")
           /\ UNCHANGED <<status, hnd, mask, alarm, reaped, cntVars>>
  <2>1. Lifecycle'
    BY <1>0, <1>8 DEF Raise, Goto, Lifecycle
  <2>2. Masked'
    BY <1>0, <1>8 DEF Raise, Goto, Lifecycle, Masked
  <2>3. NobodyReceives'
    BY <1>0, <1>8 DEF Raise, Goto, Lifecycle, Masked, NobodyReceives
  <2>4. NoneInvented'
    BY <1>0, <1>8 DEF Raise, Goto, Lifecycle, Masked, NoneInvented
  <2>5. SomeArrive'
    BY <1>0, <1>8 DEF Raise, Goto, Lifecycle, SomeArrive
  <2>6. SelfCounted'
    BY <1>0, <1>8 DEF Raise, Goto, Lifecycle, Masked, SelfCounted
  <2>7. ReportsCurrent'
    BY <1>0, <1>8 DEF Raise, Goto, Lifecycle, ReportsCurrent
  <2>8. QED
    BY <1>0, <2>1, <2>2, <2>3, <2>4, <2>5, <2>6, <2>7
<1>9. ASSUME NEW p \in Procs, program \in Yielding, Step(p, "yield", "count")
      PROVE  IInv'
  <2>1. Lifecycle'
    BY <1>0, <1>9 DEF Step, Goto, Lifecycle
  <2>2. Masked'
    BY <1>0, <1>9 DEF Step, Goto, Lifecycle, Masked
  <2>3. NobodyReceives'
    BY <1>0, <1>9 DEF Step, Goto, Lifecycle, Masked, NobodyReceives
  <2>4. NoneInvented'
    BY <1>0, <1>9 DEF Step, Goto, Lifecycle, Masked, NoneInvented
  <2>5. SomeArrive'
    BY <1>0, <1>9 DEF Step, Goto, Lifecycle, SomeArrive
  <2>6. SelfCounted'
    BY <1>0, <1>9 DEF Step, Goto, Lifecycle, Masked, SelfCounted
  <2>7. ReportsCurrent'
    BY <1>0, <1>9 DEF Step, Goto, Lifecycle, ReportsCurrent
  <2>8. QED
    BY <1>0, <2>1, <2>2, <2>3, <2>4, <2>5, <2>6, <2>7
<1>10. ASSUME NEW p \in Procs, EnterUsr1(p)
      PROVE  IInv'
  <2>0. /\ status[p] = "running" /\ hnd[p] = "none"
        /\ program \in Blocking => "SIGUSR1" \notin mask[p]
    BY <1>10, Usr1Delivery
  <2>1. Lifecycle'
    BY <1>0, <1>10, <2>0 DEF EnterUsr1, EnterHandler, Lifecycle
  <2>2. Masked'
    BY <1>0, <1>10, <2>0 DEF EnterUsr1, EnterHandler, Lifecycle, Masked
  <2>3. NobodyReceives'
    BY <1>0, <1>10, <2>0
    DEF EnterUsr1, EnterHandler, Lifecycle, Masked, NobodyReceives
  <2>4. NoneInvented'
    BY <1>0, <1>10, <2>0
    DEF EnterUsr1, EnterHandler, Lifecycle, Masked, NoneInvented
  <2>5. SomeArrive'
    BY <1>0, <1>10, <2>0 DEF EnterUsr1, EnterHandler, Lifecycle, SomeArrive
  <2>6. SelfCounted'
    BY <1>0, <1>10, <2>0
    DEF EnterUsr1, EnterHandler, Lifecycle, Masked, SelfCounted
  <2>7. ReportsCurrent'
    BY <1>0, <1>10, <2>0 DEF EnterUsr1, EnterHandler, Lifecycle, ReportsCurrent
  <2>8. QED
    BY <1>0, <2>1, <2>2, <2>3, <2>4, <2>5, <2>6, <2>7
<1>11. ASSUME NEW p \in Procs, usr1_handler(p)
      PROVE  IInv'
  <2>0. /\ status[p] = "running" /\ hnd[p] = "usr1_handler"
        /\ program \notin Blocking
        /\ count' = [count EXCEPT ![p].recv = @ + 1]
        /\ hnd' = [hnd EXCEPT ![p] = "none"]
        /\ \/ pc[p] = "suspended" /\ pc' = [pc EXCEPT ![p] = "ready"]
           \/ UNCHANGED pc
        /\ UNCHANGED <<status, pend, mask, alarm, reaped, report>>
    BY <1>11, Usr1Counted
  <2>1. Lifecycle'
    BY <1>0, <2>0 DEF Lifecycle
  <2>2. Masked'
    BY <1>0, <2>0 DEF Lifecycle, Masked
  <2>3. NobodyReceives'
    BY <1>0, <2>0 DEF Lifecycle, Masked, NobodyReceives
  <2>4. NoneInvented'
    BY <1>0, <2>0 DEF Lifecycle, Masked, NoneInvented
  <2>5. SomeArrive'
    BY <1>0, <2>0 DEF Lifecycle, SomeArrive
  <2>6. SelfCounted'
    BY <1>0, <2>0 DEF Lifecycle, Masked, SelfCounted
  <2>7. ReportsCurrent'
    BY <1>0, <2>0 DEF Lifecycle, ReportsCurrent
  <2>8. QED
    BY <1>0, <2>1, <2>2, <2>3, <2>4, <2>5, <2>6, <2>7
<1>12. CASE EnterAlarm
  <2>0. hnd["parent"] \in {"none", "usr1_handler"}
    BY <1>12, AlarmDelivery
  <2>1. Lifecycle'
    BY <1>0, <1>12, <2>0 DEF EnterAlarm, EnterHandler, Lifecycle
  <2>2. Masked'
    BY <1>0, <1>12, <2>0 DEF EnterAlarm, EnterHandler, Lifecycle, Masked
  <2>3. NobodyReceives'
    BY <1>0, <1>12, <2>0
    DEF EnterAlarm, EnterHandler, Lifecycle, Masked, NobodyReceives
  <2>4. NoneInvented'
    BY <1>0, <1>12, <2>0
    DEF EnterAlarm, EnterHandler, Lifecycle, Masked, NoneInvented
  <2>5. SomeArrive'
    BY <1>0, <1>12, <2>0 DEF EnterAlarm, EnterHandler, Lifecycle, SomeArrive
  <2>6. SelfCounted'
    BY <1>0, <1>12, <2>0
    DEF EnterAlarm, EnterHandler, Lifecycle, Masked, SelfCounted
  <2>7. ReportsCurrent'
    BY <1>0, <1>12, <2>0
    DEF EnterAlarm, EnterHandler, Lifecycle, ReportsCurrent
  <2>8. QED
    BY <1>0, <2>1, <2>2, <2>3, <2>4, <2>5, <2>6, <2>7
<1>13. CASE alarm_handler
  <2>1. Lifecycle'
    BY <1>0, <1>13
    DEF alarm_handler, AlarmHandler, InHandler, Report, Raise, Exit, Lifecycle
  <2>2. Masked'
    BY <1>0, <1>13
    DEF alarm_handler, AlarmHandler, InHandler, Report, Raise, Exit, Lifecycle,
        Masked
  <2>3. NobodyReceives'
    BY <1>0, <1>13
    DEF alarm_handler, AlarmHandler, InHandler, Report, Raise, Exit, Lifecycle,
        Masked, NobodyReceives
  <2>4. NoneInvented'
    BY <1>0, <1>13
    DEF alarm_handler, AlarmHandler, InHandler, Report, Raise, Exit, Lifecycle,
        Masked, NoneInvented
  <2>5. SomeArrive'
    BY <1>0, <1>13
    DEF alarm_handler, AlarmHandler, InHandler, Report, Raise, Exit, Lifecycle,
        SomeArrive
  <2>6. SelfCounted'
    BY <1>0, <1>13
    DEF alarm_handler, AlarmHandler, InHandler, Report, Raise, Exit, Lifecycle,
        Masked, SelfCounted
  <2>7. ReportsCurrent'
    BY <1>0, <1>13
    DEF alarm_handler, AlarmHandler, InHandler, Report, Raise, Exit, Lifecycle,
        ReportsCurrent
  <2>8. QED
    BY <1>0, <2>1, <2>2, <2>3, <2>4, <2>5, <2>6, <2>7
<1>14. CASE EnterTerminate
  <2>1. Lifecycle'
    BY <1>0, <1>14 DEF EnterTerminate, EnterHandler, Lifecycle
  <2>2. Masked'
    BY <1>0, <1>14 DEF EnterTerminate, EnterHandler, Lifecycle, Masked
  <2>3. NobodyReceives'
    BY <1>0, <1>14
    DEF EnterTerminate, EnterHandler, Lifecycle, Masked, NobodyReceives
  <2>4. NoneInvented'
    BY <1>0, <1>14
    DEF EnterTerminate, EnterHandler, Lifecycle, Masked, NoneInvented
  <2>5. SomeArrive'
    BY <1>0, <1>14 DEF EnterTerminate, EnterHandler, Lifecycle, SomeArrive
  <2>6. SelfCounted'
    BY <1>0, <1>14
    DEF EnterTerminate, EnterHandler, Lifecycle, Masked, SelfCounted
  <2>7. ReportsCurrent'
    BY <1>0, <1>14 DEF EnterTerminate, EnterHandler, Lifecycle, ReportsCurrent
  <2>8. QED
    BY <1>0, <2>1, <2>2, <2>3, <2>4, <2>5, <2>6, <2>7
<1>15. CASE child_terminate
  <2>1. Lifecycle'
    BY <1>0, <1>15
    DEF child_terminate, TerminateChild, InHandler, Report, Exit, Lifecycle
  <2>2. Masked'
    BY <1>0, <1>15
    DEF child_terminate, TerminateChild, InHandler, Report, Exit, Lifecycle,
        Masked
  <2>3. NobodyReceives'
    BY <1>0, <1>15
    DEF child_terminate, TerminateChild, InHandler, Report, Exit, Lifecycle,
        Masked, NobodyReceives
  <2>4. NoneInvented'
    BY <1>0, <1>15
    DEF child_terminate, TerminateChild, InHandler, Report, Exit, Lifecycle,
        Masked, NoneInvented
  <2>5. SomeArrive'
    BY <1>0, <1>15
    DEF child_terminate, TerminateChild, InHandler, Report, Exit, Lifecycle,
        SomeArrive
  <2>6. SelfCounted'
    BY <1>0, <1>15
    DEF child_terminate, TerminateChild, InHandler, Report, Exit, Lifecycle,
        Masked, SelfCounted
  <2>7. ReportsCurrent'
    BY <1>0, <1>15
    DEF child_terminate, TerminateChild, InHandler, Report, Exit, Lifecycle,
        ReportsCurrent
  <2>8. QED
    BY <1>0, <2>1, <2>2, <2>3, <2>4, <2>5, <2>6, <2>7
<1>16. CASE AlarmExpires
  <2>1. Lifecycle'
    BY <1>0, <1>16 DEF AlarmExpires, Raise, Lifecycle
  <2>2. Masked'
    BY <1>0, <1>16 DEF AlarmExpires, Raise, Lifecycle, Masked
  <2>3. NobodyReceives'
    BY <1>0, <1>16 DEF AlarmExpires, Raise, Lifecycle, Masked, NobodyReceives
  <2>4. NoneInvented'
    BY <1>0, <1>16 DEF AlarmExpires, Raise, Lifecycle, Masked, NoneInvented
  <2>5. SomeArrive'
    BY <1>0, <1>16 DEF AlarmExpires, Raise, Lifecycle, SomeArrive
  <2>6. SelfCounted'
    BY <1>0, <1>16 DEF AlarmExpires, Raise, Lifecycle, Masked, SelfCounted
  <2>7. ReportsCurrent'
    BY <1>0, <1>16 DEF AlarmExpires, Raise, Lifecycle, ReportsCurrent
  <2>8. QED
    BY <1>0, <2>1, <2>2, <2>3, <2>4, <2>5, <2>6, <2>7
<1>17. CASE Reap
  <2>1. Lifecycle'
    BY <1>0, <1>17 DEF Reap, Lifecycle
  <2>2. Masked'
    BY <1>0, <1>17 DEF Reap, Lifecycle, Masked
  <2>3. NobodyReceives'
    BY <1>0, <1>17 DEF Reap, Lifecycle, Masked, NobodyReceives
  <2>4. NoneInvented'
    BY <1>0, <1>17 DEF Reap, Lifecycle, Masked, NoneInvented
  <2>5. SomeArrive'
    BY <1>0, <1>17 DEF Reap, Lifecycle, SomeArrive
  <2>6. SelfCounted'
    BY <1>0, <1>17 DEF Reap, Lifecycle, Masked, SelfCounted
  <2>7. ReportsCurrent'
    BY <1>0, <1>17 DEF Reap, Lifecycle, ReportsCurrent
  <2>8. QED
    BY <1>0, <2>1, <2>2, <2>3, <2>4, <2>5, <2>6, <2>7
<1>18. CASE UNCHANGED pairVars
  <2>1. Lifecycle'
    BY <1>0, <1>18 DEF pairVars, Lifecycle
  <2>2. Masked'
    BY <1>0, <1>18 DEF pairVars, Lifecycle, Masked
  <2>3. NobodyReceives'
    BY <1>0, <1>18 DEF pairVars, Lifecycle, Masked, NobodyReceives
  <2>4. NoneInvented'
    BY <1>0, <1>18 DEF pairVars, Lifecycle, Masked, NoneInvented
  <2>5. SomeArrive'
    BY <1>0, <1>18 DEF pairVars, Lifecycle, SomeArrive
  <2>6. SelfCounted'
    BY <1>0, <1>18 DEF pairVars, Lifecycle, Masked, SelfCounted
  <2>7. ReportsCurrent'
    BY <1>0, <1>18 DEF pairVars, Lifecycle, ReportsCurrent
  <2>8. QED
    BY <1>0, <2>1, <2>2, <2>3, <2>4, <2>5, <2>6, <2>7
<1>19. CASE main
  BY <1>1, <1>2, <1>19 DEF main, StartMask
<1>20. CASE main_switch
  BY <1>1, <1>2, <1>20 DEF main_switch
<1>21. CASE main_alone
  BY <1>1, <1>3, <1>21 DEF main_alone, StartMask
<1>22. CASE be_the_parent
  BY <1>4, <1>5, <1>6, <1>22 DEF be_the_parent, Count
<1>23. CASE send_sigs_self
  BY <1>4, <1>6, <1>8, <1>23 DEF send_sigs_self, Count
<1>24. ASSUME NEW p \in Procs, switcher(p) PROVE IInv'
  BY <1>4, <1>6, <1>9, <1>24 DEF switcher, Count
<1>25. CASE iterate
  BY <1>4, <1>6, <1>25 DEF iterate, Count
<1>26. CASE be_a_child
  BY <1>7, <1>26 DEF be_a_child
<1>27. QED
  BY <1>10, <1>11, <1>12, <1>13, <1>14, <1>15, <1>16, <1>17, <1>18, <1>19,
     <1>20, <1>21, <1>22, <1>23, <1>24, <1>25, <1>26
     DEF Next, vars, ParentStep, ChildStep, Terminated

\* The inductive invariant of the flooding benchmarks: who is there, where
\* SIGUSR1 is blocked, and how the counts of the two sides compare.
THEOREM Invariance == Spec => []IInv
BY InitInv, InvStep, PTL DEF Spec

-----------------------------------------------------------------------------
(* What the invariant buys.                                                *)

\* Every variable of the flooding benchmarks keeps its type.
THEOREM TypeCorrect == Spec => []TypeOK
<1>1. IInv => TypeOK
  BY DEF IInv
<1>2. QED
  BY <1>1, Invariance, PTL

\* sending_sigs.c and sending_sigs_self.c never run panic_handler: the signal
\* stays blocked however it comes.
THEOREM BlockedIsNeverReceived == Spec => []NobodyReceives
<1>1. IInv => NobodyReceives
  BY DEF IInv
<1>2. QED
  BY <1>1, Invariance, PTL

\* However many signals merge into one, a child that is flooded hears of it.
THEOREM FloodIsHeard == Spec => []SomeArrive
<1>1. IInv => SomeArrive
  BY DEF IInv
<1>2. QED
  BY <1>1, Invariance, PTL

\* Reports show the final counters, which do not contradict each other.
LEMMA ReportsFitFollows == IInv => ReportsFit
<1> SUFFICES ASSUME IInv PROVE ReportsFit
  OBVIOUS
<1>1. \A p \in Procs : report[p].printed => report[p].count = count[p]
  BY DEF IInv, ReportsCurrent
<1>2. \A p \in Procs : count[p].sent \in Nat /\ count[p].recv \in Nat
  BY DEF IInv, TypeOK, PairTypeOK, Counters
<1>3. count["child"].recv <= count["parent"].sent + 1
  BY <1>2 DEF IInv, NoneInvented, Underway, Sends
<1>4. program = "sending_recving_sigs_self" =>
         count["parent"].recv \in {count["parent"].sent,
                                  count["parent"].sent + 1}
  BY <1>2 DEF IInv, SelfCounted, Sends
<1>5. QED
  BY <1>1, <1>3, <1>4 DEF ReportsFit

\* The counts that a flooding benchmark prints fit together, wherever the
\* alarm strikes.
THEOREM ReportsConsistent == Spec => []ReportsFit
BY Invariance, ReportsFitFollows, PTL
=============================================================================
