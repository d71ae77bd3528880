----------------------------- MODULE FifoProofs -----------------------------
(***************************************************************************)
(* Theorems about FifoBench (fifo.c), for messages of any size, pipes of   *)
(* any capacity and runs of any length.                                    *)
(***************************************************************************)
EXTENDS FifoBench, TLAPS

USE PipeAssumption
USE DEF PipeAssumption, Procs, Atomic

-----------------------------------------------------------------------------
(* Types.                                                                  *)

\* What a process prints are counters.
LEMMA ReportType ==
    ASSUME TypeOK, NEW p \in Procs, Report(p)
    PROVE  report' \in [Procs -> [printed : BOOLEAN, count : Counters]]
<1> DEFINE r == [printed |-> TRUE, count |-> count[p]]
<1>1. r \in [printed : BOOLEAN, count : Counters]
  BY DEF TypeOK, PairTypeOK
<1> HIDE DEF r
<1>2. report' = [report EXCEPT ![p] = r]
  BY DEF Report, r
<1>3. QED
  BY <1>1, <1>2 DEF TypeOK, PairTypeOK

\* A write puts some bytes into the peer's pipe, and either they are the last
\* of the message or some are left.
LEMMA WriteFacts ==
    ASSUME TypeOK, Unfinished, NEW p \in Procs, Write(p)
    PROVE  \E n \in 1 .. left[p] :
              /\ InMain(p, "write") /\ pipe[Peer(p)] + n <= Capacity
              /\ pipe' = [pipe EXCEPT ![Peer(p)] = @ + n]
              /\ \/ /\ n = left[p] /\ Goto(p, "nwrites")
                    /\ left' = [left EXCEPT ![p] = nbytes]
                 \/ /\ n < left[p] /\ ~Atomic /\ UNCHANGED pc
                    /\ left' = [left EXCEPT ![p] = @ - n]
              /\ UNCHANGED <<status, hnd, mask, sigVars, cntVars, bystander>>
<1>1. PICK n \in Pieces(p) :
           /\ pipe[Peer(p)] + n <= Capacity
           /\ pipe' = [pipe EXCEPT ![Peer(p)] = @ + n]
           /\ IF n = left[p]
              THEN Goto(p, "nwrites") /\ left' = [left EXCEPT ![p] = nbytes]
              ELSE left' = [left EXCEPT ![p] = @ - n] /\ UNCHANGED pc
  BY DEF Write
<1>2. nbytes \in Nat \ {0} /\ left[p] \in 1 .. nbytes
  BY DEF TypeOK, Unfinished
<1>3. n \in 1 .. left[p] /\ (Atomic => n = left[p])
  <2>1. CASE Atomic
    BY <1>1, <1>2, <2>1 DEF Pieces, Unfinished
  <2>2. CASE ~Atomic
    BY <1>1, <1>2, <2>2 DEF Pieces
  <2>3. QED
    BY <2>1, <2>2
<1>4. n = left[p] \/ (n < left[p] /\ ~Atomic)
  BY <1>2, <1>3
<1>5. QED
  BY <1>1, <1>2, <1>3, <1>4 DEF Write

\* One step of the program preserves the types of its variables.
LEMMA TypeStep == TypeOK /\ Unfinished /\ [Next]_vars => TypeOK'
<1> SUFFICES ASSUME TypeOK, Unfinished, [Next]_vars PROVE TypeOK'
  OBVIOUS
<1>0. nbytes' = nbytes /\ nbytes \in Nat \ {0}
  BY DEF Next, vars, TypeOK
<1> USE DEF TypeOK, PairTypeOK, Counters, Exits, InMain, procVars, sigVars,
            cntVars, pipeVars
<1>1. CASE StartUp({}) /\ UNCHANGED <<pipeVars, bystander>>
  BY <1>0, <1>1 DEF StartUp, Goto, Exit
<1>2. CASE ForkChild /\ UNCHANGED <<pipeVars, bystander>>
  BY <1>0, <1>2 DEF ForkChild, Goto, Exit
<1>3. CASE ArmAlarm("write") /\ UNCHANGED <<pipeVars, bystander>>
  BY <1>0, <1>3 DEF ArmAlarm, Goto
<1>4. ASSUME NEW p \in Procs, Write(p) PROVE TypeOK'
  <2>1. PICK n \in 1 .. left[p] :
              /\ pipe[Peer(p)] + n <= Capacity
              /\ pipe' = [pipe EXCEPT ![Peer(p)] = @ + n]
              /\ \/ Goto(p, "nwrites") /\ left' = [left EXCEPT ![p] = nbytes]
                 \/ UNCHANGED pc /\ left' = [left EXCEPT ![p] = @ - n]
              /\ UNCHANGED <<status, hnd, mask, sigVars, cntVars, bystander>>
    BY <1>4, WriteFacts
  <2>2. left[p] \in 0 .. nbytes /\ left[p] - n \in 0 .. nbytes
    BY <1>0
  <2>3. left' \in [Procs -> 0 .. nbytes']
    BY <1>0, <2>1, <2>2
  <2>4. Peer(p) \in Procs /\ pipe[Peer(p)] + n \in 0 .. Capacity
    BY <2>1 DEF Peer
  <2>5. pipe' \in [Procs -> 0 .. Capacity]
    BY <2>1, <2>4
  <2>6. QED
    BY <1>0, <2>1, <2>3, <2>5 DEF Goto
<1>5. ASSUME NEW p \in Procs, Count(p, "nwrites", "writes", "read") PROVE TypeOK'
  BY <1>0, <1>5 DEF Count, Increment, Goto
<1>6. ASSUME NEW p \in Procs, Read(p) PROVE TypeOK'
  BY <1>0, <1>6 DEF Read, Goto, Exit
<1>7. ASSUME NEW p \in Procs, Count(p, "nreads", "reads", "write") PROVE TypeOK'
  BY <1>0, <1>7 DEF Count, Increment, Goto
<1>8. ASSUME NEW p \in Procs, EnterAlarm(p) PROVE TypeOK'
  BY <1>0, <1>8 DEF EnterAlarm, EnterHandler
<1>9. ASSUME NEW p \in Procs, alarm_handler(p) PROVE TypeOK'
  <2>1. CASE Report(p)
    <3>1. report' \in [Procs -> [printed : BOOLEAN, count : Counters]]
      BY <2>1, ReportType
    <3>2. pend' \in [Procs -> SUBSET {"SIGALRM"}]
      BY <1>9 DEF alarm_handler, Raise
    <3>3. QED
      BY <1>0, <1>9, <3>1, <3>2 DEF alarm_handler, InHandler, Exit
  <2>2. CASE UNCHANGED <<cntVars, sigVars>>
    BY <1>0, <1>9, <2>2 DEF alarm_handler, InHandler, Exit
  <2>3. QED
    BY <1>9, <2>1, <2>2 DEF alarm_handler
<1>10. CASE AlarmExpires /\ UNCHANGED <<pipeVars, bystander>>
  BY <1>0, <1>10 DEF AlarmExpires, Raise
<1>11. CASE Reap /\ UNCHANGED <<pipeVars, bystander>>
  BY <1>0, <1>11 DEF Reap
<1>12. CASE UNCHANGED benchVars
  BY <1>0, <1>12 DEF benchVars, pairVars
<1>13. CASE ParentStep
  BY <1>1, <1>2, <1>3, <1>4, <1>5, <1>6, <1>7, <1>8, <1>9, <1>13
  DEF ParentStep, main, be_the_parent
<1>14. CASE ChildStep
  BY <1>4, <1>5, <1>6, <1>7, <1>8, <1>9, <1>14 DEF ChildStep, be_a_child
<1>15. CASE Environment
  BY <1>10, <1>11, <1>12, <1>15
  DEF Environment, Terminated, benchVars, pipeVars
<1>16. QED
  BY <1>12, <1>13, <1>14, <1>15 DEF Next, vars, Abandoned

\* The variables start with values of their types.
LEMMA InitType == Init => TypeOK
<1> SUFFICES ASSUME Init PROVE TypeOK
  OBVIOUS
<1>1. Zero \in Counters /\ [printed |-> FALSE, count |-> Zero]
                             \in [printed : BOOLEAN, count : Counters]
  BY DEF Zero, Counters
<1>2. report \in [Procs -> [printed : BOOLEAN, count : Counters]]
  BY <1>1 DEF Init, PairInit
<1>3. count \in [Procs -> Counters]
  BY <1>1 DEF Init, PairInit
<1>4. nbytes \in Nat \ {0} /\ nbytes \in Sizes
  BY DEF Init
<1>5. /\ pipe \in [Procs -> 0 .. Capacity] /\ left \in [Procs -> 0 .. nbytes]
      /\ mask \in [Procs -> SUBSET {"SIGALRM"}]
      /\ pend \in [Procs -> SUBSET {"SIGALRM"}]
  BY <1>4 DEF Init, PairInit
<1>6. QED
  BY <1>2, <1>3, <1>4, <1>5 DEF Init, PairInit, TypeOK, PairTypeOK, Exits

-----------------------------------------------------------------------------
(* The inductive invariant.                                                *)

\* At the start the parent has the message.
LEMMA InitInv == Init => IInv
<1> SUFFICES ASSUME Init PROVE IInv
  OBVIOUS
<1>1. TypeOK
  BY InitType
<1>2. /\ status["parent"] = "running" /\ status["child"] = "unborn"
      /\ pc["parent"] = "main" /\ pc["child"] = "read"
      /\ \A p \in Procs : /\ hnd[p] = "none" /\ pend[p] = {} /\ mask[p] = {}
                          /\ count[p].writes = 0 /\ count[p].reads = 0
                          /\ report[p].printed = FALSE
                          /\ pipe[p] = 0 /\ left[p] = nbytes
      /\ nbytes \in Nat \ {0}
  BY DEF Init, PairInit, Zero
<1>3. AtParent
  BY <1>2 DEF AtParent, Sent, Got
<1>4. QED
  BY <1>1, <1>2, <1>3 DEF IInv, Lifecycle, Unfinished, OneMessage,
     WholeMessages, AnySize, ReportsCurrent, Exits

\* The alarm handler starts on top of the mainline alone.
LEMMA AlarmDelivery ==
    ASSUME TypeOK, NEW p \in Procs, EnterAlarm(p)
    PROVE  hnd[p] = "none"
BY DEF EnterAlarm, EnterHandler, TypeOK, PairTypeOK

\* One step of the program preserves the inductive invariant.
LEMMA InvStep == IInv /\ [Next]_vars => IInv'
<1> SUFFICES ASSUME IInv, [Next]_vars PROVE IInv'
  OBVIOUS
<1>0. TypeOK' /\ nbytes' = nbytes
  BY TypeStep DEF IInv, Next, vars
<1>00. nbytes \in Nat \ {0}
  BY DEF IInv, TypeOK
<1> USE DEF IInv, TypeOK, PairTypeOK, Exits, Counters, InMain, procVars,
            sigVars, cntVars, pipeVars
<1>1. CASE StartUp({}) /\ UNCHANGED <<pipeVars, bystander>>
  <2>1. Lifecycle'
    BY <1>0, <1>00, <1>1 DEF StartUp, Goto, Exit, Lifecycle
  <2>2. Unfinished'
    BY <1>0, <1>00, <1>1 DEF StartUp, Goto, Exit, Unfinished
  <2>3. OneMessage'
    BY <1>0, <1>00, <1>1
    DEF StartUp, Goto, Exit, Unfinished, OneMessage, AtParent, ToChild,
        AtChild, ToParent, Sent, Got
  <2>4. WholeMessages'
    BY <1>0, <1>00, <1>1
    DEF StartUp, Goto, Exit, WholeMessages, AnySize, InLoop
  <2>5. ReportsCurrent'
    BY <1>0, <1>00, <1>1 DEF StartUp, Goto, Exit, ReportsCurrent
  <2>6. QED
    BY <1>0, <2>1, <2>2, <2>3, <2>4, <2>5
<1>2. CASE ForkChild /\ UNCHANGED <<pipeVars, bystander>>
  <2>1. Lifecycle'
    BY <1>0, <1>00, <1>2 DEF ForkChild, Goto, Exit, Lifecycle
  <2>2. Unfinished'
    BY <1>0, <1>00, <1>2 DEF ForkChild, Goto, Exit, Unfinished
  <2>3. OneMessage'
    BY <1>0, <1>00, <1>2
    DEF ForkChild, Goto, Exit, Lifecycle, OneMessage, AtParent, ToChild,
        AtChild, ToParent, Sent, Got
  <2>4. WholeMessages'
    BY <1>0, <1>00, <1>2
    DEF ForkChild, Goto, Exit, WholeMessages, AnySize, InLoop
  <2>5. ReportsCurrent'
    BY <1>0, <1>00, <1>2 DEF ForkChild, Goto, Exit, ReportsCurrent
  <2>6. QED
    BY <1>0, <2>1, <2>2, <2>3, <2>4, <2>5
<1>3. CASE ArmAlarm("write") /\ UNCHANGED <<pipeVars, bystander>>
  <2>1. Lifecycle'
    BY <1>0, <1>00, <1>3 DEF ArmAlarm, Goto, Lifecycle
  <2>2. Unfinished'
    BY <1>0, <1>00, <1>3 DEF ArmAlarm, Goto, Unfinished
  <2>3. OneMessage'
    BY <1>0, <1>00, <1>3
    DEF ArmAlarm, Goto, Unfinished, OneMessage, AtParent, ToChild, AtChild,
        ToParent, Sent, Got
  <2>4. WholeMessages'
    BY <1>0, <1>00, <1>3 DEF ArmAlarm, Goto, WholeMessages, AnySize, InLoop
  <2>5. ReportsCurrent'
    BY <1>0, <1>00, <1>3 DEF ArmAlarm, Goto, ReportsCurrent
  <2>6. QED
    BY <1>0, <2>1, <2>2, <2>3, <2>4, <2>5
<1>4. ASSUME NEW p \in Procs, Write(p) PROVE IInv'
  <2>0. PICK n \in 1 .. left[p] :
              /\ InMain(p, "write")
              /\ pipe' = [pipe EXCEPT ![Peer(p)] = @ + n]
              /\ \/ /\ n = left[p] /\ Goto(p, "nwrites")
                    /\ left' = [left EXCEPT ![p] = nbytes]
                 \/ /\ n < left[p] /\ ~Atomic /\ UNCHANGED pc
                    /\ left' = [left EXCEPT ![p] = @ - n]
              /\ UNCHANGED <<status, hnd, mask, sigVars, cntVars, bystander>>
    BY <1>4, WriteFacts
  <2>1. Lifecycle'
    BY <1>0, <1>00, <2>0 DEF Goto, Peer, Lifecycle
  <2>2. Unfinished'
    BY <1>0, <1>00, <2>0 DEF Goto, Peer, Unfinished
  <2>3. OneMessage'
    BY <1>0, <1>00, <2>0
    DEF Goto, Peer, Unfinished, OneMessage, AtParent, ToChild, AtChild,
        ToParent, Sent, Got
  <2>4. WholeMessages'
    BY <1>0, <1>00, <2>0 DEF Goto, Peer, WholeMessages, AnySize, InLoop
  <2>5. ReportsCurrent'
    BY <1>0, <1>00, <2>0 DEF Goto, Peer, ReportsCurrent
  <2>6. QED
    BY <1>0, <2>1, <2>2, <2>3, <2>4, <2>5
<1>5. ASSUME NEW p \in Procs, Count(p, "nwrites", "writes", "read") PROVE IInv'
  <2>1. Lifecycle'
    BY <1>0, <1>00, <1>5 DEF Count, Increment, Goto, Lifecycle
  <2>2. Unfinished'
    BY <1>0, <1>00, <1>5 DEF Count, Increment, Goto, Unfinished
  <2>3. OneMessage'
    BY <1>0, <1>00, <1>5
    DEF Count, Increment, Goto, Unfinished, OneMessage, AtParent, ToChild,
        AtChild, ToParent, Sent, Got
  <2>4. WholeMessages'
    BY <1>0, <1>00, <1>5
    DEF Count, Increment, Goto, WholeMessages, AnySize, InLoop
  <2>5. ReportsCurrent'
    BY <1>0, <1>00, <1>5 DEF Count, Increment, Goto, ReportsCurrent
  <2>6. QED
    BY <1>0, <2>1, <2>2, <2>3, <2>4, <2>5
<1>6. ASSUME NEW p \in Procs, Read(p) PROVE IInv'
  <2>1. Lifecycle'
    BY <1>0, <1>00, <1>6 DEF Read, Goto, Exit, Lifecycle
  <2>2. Unfinished'
    BY <1>0, <1>00, <1>6 DEF Read, Goto, Exit, Unfinished
  <2>3. OneMessage'
    BY <1>0, <1>00, <1>6
    DEF Read, Goto, Exit, Unfinished, OneMessage, AtParent, ToChild, AtChild,
        ToParent, Sent, Got
  <2>4. WholeMessages'
    <3>1. /\ status[p] = "running" /\ pc[p] = "read"
          /\ pipe[p] >= nbytes => UNCHANGED status
      BY <1>6 DEF Read
    <3>2. Atomic => pipe[p] = 0 \/ pipe[p] = nbytes
      <4>1. Atomic => status["child"] # "exit1"
        BY DEF WholeMessages, AnySize
      <4>2. CASE p = "parent"
        BY <1>00, <3>1, <4>1, <4>2
        DEF Unfinished, OneMessage, AtParent, ToChild, AtChild, ToParent
      <4>3. CASE p = "child"
        BY <1>00, <3>1, <4>1, <4>3
        DEF Unfinished, OneMessage, AtParent, ToChild, AtChild, ToParent
      <4>4. QED
        BY <4>2, <4>3
    <3>3. Atomic => UNCHANGED status
      BY <1>0, <1>00, <1>6, <3>1, <3>2 DEF Read
    <3>4. UNCHANGED status => AnySize' \/ ~AnySize
      BY <1>6 DEF Read, Goto, AnySize, InLoop
    <3>5. QED
      BY <1>0, <3>3, <3>4 DEF WholeMessages
  <2>5. ReportsCurrent'
    BY <1>0, <1>00, <1>6 DEF Read, Goto, Exit, ReportsCurrent
  <2>6. QED
    BY <1>0, <2>1, <2>2, <2>3, <2>4, <2>5
<1>7. ASSUME NEW p \in Procs, Count(p, "nreads", "reads", "write") PROVE IInv'
  <2>1. Lifecycle'
    BY <1>0, <1>00, <1>7 DEF Count, Increment, Goto, Lifecycle
  <2>2. Unfinished'
    BY <1>0, <1>00, <1>7 DEF Count, Increment, Goto, Unfinished
  <2>3. OneMessage'
    BY <1>0, <1>00, <1>7
    DEF Count, Increment, Goto, Unfinished, OneMessage, AtParent, ToChild,
        AtChild, ToParent, Sent, Got
  <2>4. WholeMessages'
    BY <1>0, <1>00, <1>7
    DEF Count, Increment, Goto, WholeMessages, AnySize, InLoop
  <2>5. ReportsCurrent'
    BY <1>0, <1>00, <1>7 DEF Count, Increment, Goto, ReportsCurrent
  <2>6. QED
    BY <1>0, <2>1, <2>2, <2>3, <2>4, <2>5
<1>8. ASSUME NEW p \in Procs, EnterAlarm(p) PROVE IInv'
  <2>0. hnd[p] = "none"
    BY <1>8, AlarmDelivery
  <2>1. Lifecycle'
    BY <1>0, <1>00, <1>8, <2>0 DEF EnterAlarm, EnterHandler, Lifecycle
  <2>2. Unfinished'
    BY <1>0, <1>00, <1>8, <2>0 DEF EnterAlarm, EnterHandler, Unfinished
  <2>3. OneMessage'
    BY <1>0, <1>00, <1>8, <2>0
    DEF EnterAlarm, EnterHandler, Unfinished, OneMessage, AtParent, ToChild,
        AtChild, ToParent, Sent, Got
  <2>4. WholeMessages'
    BY <1>0, <1>00, <1>8, <2>0
    DEF EnterAlarm, EnterHandler, WholeMessages, AnySize, InLoop
  <2>5. ReportsCurrent'
    BY <1>0, <1>00, <1>8, <2>0 DEF EnterAlarm, EnterHandler, ReportsCurrent
  <2>6. QED
    BY <1>0, <2>1, <2>2, <2>3, <2>4, <2>5
<1>9. ASSUME NEW p \in Procs, alarm_handler(p) PROVE IInv'
  <2>1. Lifecycle'
    BY <1>0, <1>00, <1>9
    DEF alarm_handler, InHandler, Report, Raise, Exit, Lifecycle
  <2>2. Unfinished'
    BY <1>0, <1>00, <1>9
    DEF alarm_handler, InHandler, Report, Raise, Exit, Unfinished
  <2>3. OneMessage'
    BY <1>0, <1>00, <1>9
    DEF alarm_handler, InHandler, Report, Raise, Exit, Unfinished, OneMessage,
        AtParent, ToChild, AtChild, ToParent, Sent, Got
  <2>4. WholeMessages'
    BY <1>0, <1>00, <1>9
    DEF alarm_handler, InHandler, Report, Raise, Exit, WholeMessages, AnySize,
        InLoop
  <2>5. ReportsCurrent'
    BY <1>0, <1>00, <1>9
    DEF alarm_handler, InHandler, Report, Raise, Exit, ReportsCurrent
  <2>6. QED
    BY <1>0, <2>1, <2>2, <2>3, <2>4, <2>5
<1>10. CASE AlarmExpires /\ UNCHANGED <<pipeVars, bystander>>
  <2>1. Lifecycle'
    BY <1>0, <1>00, <1>10 DEF AlarmExpires, Raise, Lifecycle
  <2>2. Unfinished'
    BY <1>0, <1>00, <1>10 DEF AlarmExpires, Raise, Unfinished
  <2>3. OneMessage'
    BY <1>0, <1>00, <1>10
    DEF AlarmExpires, Raise, Unfinished, OneMessage, AtParent, ToChild,
        AtChild, ToParent, Sent, Got
  <2>4. WholeMessages'
    BY <1>0, <1>00, <1>10
    DEF AlarmExpires, Raise, WholeMessages, AnySize, InLoop
  <2>5. ReportsCurrent'
    BY <1>0, <1>00, <1>10 DEF AlarmExpires, Raise, ReportsCurrent
  <2>6. QED
    BY <1>0, <2>1, <2>2, <2>3, <2>4, <2>5
<1>11. CASE Reap /\ UNCHANGED <<pipeVars, bystander>>
  <2>1. Lifecycle'
    BY <1>0, <1>00, <1>11 DEF Reap, Lifecycle
  <2>2. Unfinished'
    BY <1>0, <1>00, <1>11 DEF Reap, Unfinished
  <2>3. OneMessage'
    BY <1>0, <1>00, <1>11
    DEF Reap, Unfinished, OneMessage, AtParent, ToChild, AtChild, ToParent,
        Sent, Got
  <2>4. WholeMessages'
    BY <1>0, <1>00, <1>11 DEF Reap, WholeMessages, AnySize, InLoop
  <2>5. ReportsCurrent'
    BY <1>0, <1>00, <1>11 DEF Reap, ReportsCurrent
  <2>6. QED
    BY <1>0, <2>1, <2>2, <2>3, <2>4, <2>5
<1>12. CASE UNCHANGED benchVars
  <2>1. Lifecycle'
    BY <1>0, <1>00, <1>12 DEF benchVars, pairVars, Lifecycle
  <2>2. Unfinished'
    BY <1>0, <1>00, <1>12 DEF benchVars, pairVars, Unfinished
  <2>3. OneMessage'
    BY <1>0, <1>00, <1>12
    DEF benchVars, pairVars, Unfinished, OneMessage, AtParent, ToChild,
        AtChild, ToParent, Sent, Got
  <2>4. WholeMessages'
    BY <1>0, <1>00, <1>12
    DEF benchVars, pairVars, WholeMessages, AnySize, InLoop
  <2>5. ReportsCurrent'
    BY <1>0, <1>00, <1>12 DEF benchVars, pairVars, ReportsCurrent
  <2>6. QED
    BY <1>0, <2>1, <2>2, <2>3, <2>4, <2>5
<1>13. CASE ParentStep
  BY <1>1, <1>2, <1>3, <1>4, <1>5, <1>6, <1>7, <1>8, <1>9, <1>13
  DEF ParentStep, main, be_the_parent
<1>14. CASE ChildStep
  BY <1>4, <1>5, <1>6, <1>7, <1>8, <1>9, <1>14 DEF ChildStep, be_a_child
<1>15. CASE Environment
  BY <1>10, <1>11, <1>12, <1>15
  DEF Environment, Terminated, benchVars, pipeVars
<1>16. QED
  BY <1>12, <1>13, <1>14, <1>15 DEF Next, vars, Abandoned

\* The inductive invariant of fifo.c: there is one message, it is where the
\* two loops expect it, and the counts say so.
THEOREM Invariance == Spec => []IInv
BY InitInv, InvStep, PTL DEF Spec

-----------------------------------------------------------------------------
(* What the invariant buys.                                                *)

\* Every variable of fifo.c keeps its type; no pipe holds more than it can.
THEOREM TypeCorrect == Spec => []TypeOK
<1>1. IInv => TypeOK
  BY DEF IInv
<1>2. QED
  BY <1>1, Invariance, PTL

\* The life cycle of the two processes fixes who ends the experiment.
LEMMA InvFollows == IInv => Inv
<1> SUFFICES ASSUME IInv PROVE AlarmEndsBoth
  BY DEF Inv
<1>1. Atomic /\ status["child"] \in Exits => report["parent"].printed
  BY DEF IInv, Lifecycle, WholeMessages, AnySize, Exits
<1>2. report["child"].printed => report["parent"].printed
  BY DEF IInv, Lifecycle, ReportsCurrent
<1>3. QED
  BY <1>1, <1>2 DEF AlarmEndsBoth

\* With messages of at most PIPE_BUF bytes every read finds a whole message,
\* and nothing but the parent's alarm ends the experiment.
THEOREM MessagesWhole == Spec => []Inv
BY Invariance, InvFollows, PTL

\* Reports show the final counters, which one message keeps close.
LEMMA ReportsAgreeFollows == IInv => ReportsAgree
<1> SUFFICES ASSUME IInv PROVE ReportsAgree
  OBVIOUS
<1>1. \A p \in Procs : report[p].printed => report[p].count = count[p]
  BY DEF IInv, ReportsCurrent
<1>2. \A p \in Procs : count[p].writes \in Nat /\ count[p].reads \in Nat
  BY DEF IInv, TypeOK, PairTypeOK, Counters
<1>3. /\ Close(count["parent"].writes, count["child"].reads)
      /\ Close(count["child"].writes, count["parent"].reads)
  BY <1>2
  DEF IInv, OneMessage, AtParent, ToChild, AtChild, ToParent, Sent, Got, Close
<1>4. QED
  BY <1>1, <1>3 DEF ReportsAgree

\* The two lines fifo.c prints never contradict each other by more than the
\* one message under way, whatever its size.
THEOREM ReportsConsistent == Spec => []ReportsAgree
BY Invariance, ReportsAgreeFollows, PTL

-----------------------------------------------------------------------------
(* Refinement of Baton.                                                    *)

\* At the start of the program the message has not been sent.
LEMMA InitRefines == Init => B!BatonInit
<1> SUFFICES ASSUME Init PROVE Ball = "idle" /\ Rallies = 0
  BY DEF B!BatonInit
<1>1. QED
  BY DEF Init, PairInit, Zero, Ball, Rallies, InLoop

\* The ball is where the message is, or is down.
BallPlaces ==
    /\ (status["parent"] # "running" \/ hnd["parent"] # "none")
          => Ball = "down"
    /\ (status["parent"] = "running" /\ hnd["parent"] = "none") =>
          /\ ~InLoop => Ball = "idle"
          /\ (InLoop /\ AtParent) => Ball = "parent"
          /\ ToChild => Ball = "toChild"
          /\ AtChild => Ball = "child"
          /\ ToParent => Ball = "toParent"
    /\ Rallies = Got("parent")

\* It follows from the pipes and program counters.
LEMMA BallFollows == IInv => BallPlaces
<1> SUFFICES ASSUME IInv PROVE BallPlaces
  OBVIOUS
<1>1. nbytes \in Nat \ {0}
  BY DEF IInv, TypeOK
<1>2. status["parent"] # "running" \/ hnd["parent"] # "none" => Ball = "down"
  BY DEF Ball
<1>3. Rallies = Got("parent")
  BY DEF Rallies, Got
<1> SUFFICES ASSUME status["parent"] = "running", hnd["parent"] = "none"
             PROVE  /\ ~InLoop => Ball = "idle"
                    /\ (InLoop /\ AtParent) => Ball = "parent"
                    /\ ToChild => Ball = "toChild"
                    /\ AtChild => Ball = "child"
                    /\ ToParent => Ball = "toParent"
  BY <1>2, <1>3 DEF BallPlaces
<1>4. ~InLoop => Ball = "idle"
  BY DEF Ball
<1>5. (InLoop /\ AtParent) => Ball = "parent"
  BY DEF Ball, InLoop, Holds, AtParent
<1>6. ToChild => Ball = "toChild"
  BY DEF Ball, InLoop, Holds, ToChild
<1>7. AtChild => Ball = "child"
  BY DEF Ball, InLoop, Holds, AtChild
<1>8. ToParent => Ball = "toParent"
  BY <1>1 DEF Ball, InLoop, Holds, ToParent
<1>9. QED
  BY <1>4, <1>5, <1>6, <1>7, <1>8

\* Every step of fifo.c is a step of the baton or leaves it alone.
LEMMA StepRefines ==
    IInv /\ IInv' /\ BallPlaces /\ BallPlaces' /\ [Next]_vars
        => [B!BatonNext]_(B!batonVars)
<1> DEFINE Stutter == Ball' = Ball /\ Rallies' = Rallies
<1> SUFFICES ASSUME IInv, IInv', BallPlaces, BallPlaces', [Next]_vars
             PROVE  B!BatonNext \/ Stutter
  BY DEF B!batonVars
<1>0. nbytes' = nbytes /\ nbytes \in Nat \ {0}
  BY DEF Next, vars, IInv, TypeOK
<1> USE DEF B!BatonNext, B!Serve, B!Pass, B!Return, B!Drop, IInv, TypeOK,
            PairTypeOK, Counters, InLoop, InMain, procVars, sigVars, cntVars,
            pipeVars, OneMessage, AtParent, ToChild, AtChild, ToParent, Sent,
            Got, BallPlaces
<1>1. CASE StartUp({}) /\ UNCHANGED <<pipeVars, bystander>>
  BY <1>0, <1>1 DEF StartUp, Goto, Exit
<1>2. CASE ForkChild /\ UNCHANGED <<pipeVars, bystander>>
  BY <1>0, <1>2 DEF ForkChild, Goto, Exit
<1>3. CASE ArmAlarm("write") /\ UNCHANGED <<pipeVars, bystander>>
  BY <1>0, <1>3 DEF ArmAlarm, Goto
<1>4. ASSUME NEW p \in Procs, Write(p)
      PROVE  B!BatonNext \/ Stutter
  <2>1. PICK n \in 1 .. left[p] :
              /\ InMain(p, "write")
              /\ \/ Goto(p, "nwrites") /\ n = left[p]
                 \/ UNCHANGED pc
              /\ UNCHANGED <<status, hnd, cntVars>>
    BY <1>4, WriteFacts
  <2>2. (p = "parent" => AtParent) /\ (p = "child" => AtChild)
    BY <2>1
  <2>3. /\ \A q \in Procs : Got(q)' = Got(q)
        /\ Rallies' = Rallies
    BY <2>1 DEF Goto
  <2>4. CASE UNCHANGED pc
    <3>1. \A q \in Procs : Sent(q)' = Sent(q)
      BY <2>1, <2>4
    <3>2. (p = "parent" => AtParent') /\ (p = "child" => AtChild')
      BY <2>1, <2>2, <2>3, <2>4, <3>1
    <3>3. Ball' = Ball
      BY <2>1, <2>2, <2>4, <3>2
    <3>4. QED
      BY <2>3, <3>3
  <2>5. CASE Goto(p, "nwrites")
    <3>1. /\ pc' = [pc EXCEPT ![p] = "nwrites"]
          /\ \A q \in Procs : Sent(q)' = IF q = p THEN Sent(q) + 1 ELSE Sent(q)
      BY <2>1, <2>5 DEF Goto
    <3>2. (p = "parent" => ToChild') /\ (p = "child" => ToParent')
      BY <2>1, <2>2, <2>3, <3>1
    <3>3. CASE p = "parent"
      BY <2>1, <2>2, <2>3, <3>1, <3>2, <3>3
    <3>4. CASE p = "child"
      BY <2>1, <2>2, <2>3, <3>1, <3>2, <3>4
    <3>5. QED
      BY <3>3, <3>4
  <2>6. QED
    BY <2>1, <2>4, <2>5
<1>5. ASSUME NEW p \in Procs, Count(p, "nwrites", "writes", "read")
      PROVE  B!BatonNext \/ Stutter
  BY <1>0, <1>5 DEF Count, Increment, Goto
<1>6. ASSUME NEW p \in Procs, Read(p)
      PROVE  B!BatonNext \/ Stutter
  <2>1. /\ InMain(p, "read") /\ UNCHANGED <<hnd, cntVars>>
        /\ \/ pipe[p] >= nbytes /\ Goto(p, "nreads") /\ UNCHANGED status
           \/ status' = [status EXCEPT ![p] = "exit1"] /\ UNCHANGED pc
        /\ pipe[p] > 0
    BY <1>6 DEF Read, Exit
  <2>2. CASE status' = [status EXCEPT ![p] = "exit1"] /\ UNCHANGED pc
    <3>1. Rallies' = Rallies
      BY <2>1, <2>2
    <3>2. CASE p = "parent"
      <4>1. Ball # "down" /\ Ball' = "down"
        BY <2>1, <2>2, <3>2
      <4>2. QED
        BY <3>1, <4>1
    <3>3. CASE p = "child"
      <4>1. /\ \A q \in Procs : Got(q)' = Got(q) /\ Sent(q)' = Sent(q)
            /\ InLoop' = InLoop
        BY <2>1, <2>2
      <4>2. (AtParent <=> AtParent') /\ (ToChild <=> ToChild')
            /\ ~AtChild /\ ~ToParent /\ ~AtChild' /\ ~ToParent'
        BY <1>0, <2>1, <2>2, <3>3, <4>1
      <4>3. Ball' = Ball
        BY <2>1, <2>2, <3>3, <4>1, <4>2
      <4>4. QED
        BY <3>1, <4>3
    <3>4. QED
      BY <3>2, <3>3
  <2>3. CASE Goto(p, "nreads") /\ UNCHANGED status
    <3>1. /\ pc' = [pc EXCEPT ![p] = "nreads"]
          /\ \A q \in Procs : /\ Sent(q)' = Sent(q)
                              /\ Got(q)' = IF q = p THEN Got(q) + 1 ELSE Got(q)
      BY <2>1, <2>3 DEF Goto
    <3>2. CASE p = "parent"
      <4>1. ToParent /\ AtParent' /\ InLoop'
        BY <1>0, <2>1, <2>3, <3>1, <3>2
      <4>2. QED
        BY <2>1, <2>3, <3>1, <3>2, <4>1
    <3>3. CASE p = "child"
      <4>1. ToChild /\ AtChild'
        BY <1>0, <2>1, <2>3, <3>1, <3>3
      <4>2. QED
        BY <2>1, <2>3, <3>1, <3>3, <4>1
    <3>4. QED
      BY <3>2, <3>3
  <2>4. QED
    BY <2>1, <2>2, <2>3
<1>7. ASSUME NEW p \in Procs, Count(p, "nreads", "reads", "write")
      PROVE  B!BatonNext \/ Stutter
  BY <1>0, <1>7 DEF Count, Increment, Goto
<1>8. ASSUME NEW p \in Procs, EnterAlarm(p)
      PROVE  B!BatonNext \/ Stutter
  BY <1>0, <1>8 DEF EnterAlarm, EnterHandler
<1>9. ASSUME NEW p \in Procs, alarm_handler(p)
      PROVE  B!BatonNext \/ Stutter
  BY <1>0, <1>9 DEF alarm_handler, InHandler, Report, Raise, Exit
<1>10. CASE AlarmExpires /\ UNCHANGED <<pipeVars, bystander>>
  BY <1>0, <1>10 DEF AlarmExpires, Raise
<1>11. CASE Reap /\ UNCHANGED <<pipeVars, bystander>>
  BY <1>0, <1>11 DEF Reap
<1>12. CASE UNCHANGED benchVars
  BY <1>0, <1>12 DEF benchVars, pairVars
<1>13. CASE ParentStep
  BY <1>1, <1>2, <1>3, <1>4, <1>5, <1>6, <1>7, <1>8, <1>9, <1>13
  DEF ParentStep, main, be_the_parent
<1>14. CASE ChildStep
  BY <1>4, <1>5, <1>6, <1>7, <1>8, <1>9, <1>14 DEF ChildStep, be_a_child
<1>15. CASE Environment
  BY <1>10, <1>11, <1>12, <1>15
  DEF Environment, Terminated, benchVars, pipeVars
<1>16. QED
  BY <1>12, <1>13, <1>14, <1>15 DEF Next, vars, Abandoned

\* fifo.c implements the strict alternation of Baton, whatever the size of its
\* messages.
THEOREM Refinement == Spec => ImplementsBaton
BY Invariance, InitRefines, BallFollows, StepRefines, PTL
DEF Spec, ImplementsBaton, B!BatonSpec
=============================================================================
