------------------------ MODULE SigQueueSwitchProofs ------------------------
(***************************************************************************)
(* Theorems about SigQueueSwitch (sigs_sent_swtch.p4.c), for every value   *)
(* of MaxSends, hence for a run of the program of any length.              *)
(***************************************************************************)
EXTENDS SigQueueSwitch, TLAPS

USE DEF Procs

-----------------------------------------------------------------------------
(* Types.                                                                  *)

\* What a process prints are counters.
LEMMA ReportType ==
    ASSUME TypeOK, NEW p \in Procs, Report(p)
    PROVE  report' \in [Procs -> [printed : BOOLEAN, count : Counters]]
<1> DEFINE r == [printed |-> TRUE, count |-> count[p]]
<1>1. r \in [printed : BOOLEAN, count : Counters]
  BY DEF TypeOK, PairTypeOK
<1> HIDE DEF r
<1>2. report' = [report EXCEPT ![p] = r]
  BY DEF Report, r
<1>3. QED
  BY <1>1, <1>2 DEF TypeOK, PairTypeOK

\* Counting keeps counters counters.
LEMMA CountOne ==
    ASSUME NEW c \in Counters
    PROVE  /\ [c EXCEPT !.sent = @ + 1] \in Counters
           /\ [c EXCEPT !.recv = @ + 1] \in Counters
BY DEF Counters

\* One step of the program preserves the types of its variables.
LEMMA TypeStep == TypeOK /\ [Next]_vars => TypeOK'
<1> SUFFICES ASSUME TypeOK, [Next]_vars PROVE TypeOK'
  OBVIOUS
<1> USE DEF TypeOK, PairTypeOK, Counters, Sigs, Exits, InMain, procVars,
            sigVars, cntVars
<1>1. CASE StartUp({"SIGRTMIN"}) /\ UNCHANGED <<queue, val>>
  BY <1>1 DEF StartUp, Goto, Exit
<1>2. CASE ForkChild /\ UNCHANGED <<queue, val>>
  BY <1>2 DEF ForkChild, Goto, Exit
<1>3. CASE ArmAlarm("queue") /\ UNCHANGED <<queue, val>>
  BY <1>3 DEF ArmAlarm, Goto
<1>4. ASSUME NEW p \in Procs, SigQueue(p)
      PROVE  TypeOK'
  <2>1. Peer(p) \in Procs /\ Append(queue[Peer(p)], val[p]) \in Seq(Nat)
    BY DEF Peer
  <2>2. queue' \in [Procs -> Seq(Nat)]
    <3>1. CASE queue' = queue
      BY <3>1
    <3>2. CASE queue' = [queue EXCEPT ![Peer(p)] = Append(@, val[p])]
      BY <2>1, <3>2
    <3>3. QED
      BY <1>4, <3>1, <3>2 DEF SigQueue
  <2>3. status' \in [Procs -> {"unborn", "running"} \cup Exits]
    BY <1>4 DEF SigQueue, Exit
  <2>4. QED
    BY <1>4, <2>2, <2>3 DEF SigQueue, Goto
<1>5. ASSUME NEW p \in Procs,
             Increment(p, "count", "sent",
                       IF p = "parent" THEN "ready" ELSE "val"),
             UNCHANGED <<queue, val>>
      PROVE  TypeOK'
  <2>1. [count[p] EXCEPT !.sent = @ + 1] \in Counters
    BY CountOne
  <2>2. count' = [count EXCEPT ![p] = [count[p] EXCEPT !.sent = @ + 1]]
    BY <1>5 DEF Increment, Goto
  <2>3. count' \in [Procs -> Counters]
    BY <2>1, <2>2
  <2>4. QED
    BY <1>5, <2>3 DEF Increment, Goto
<1>6. ASSUME NEW p \in Procs, Step(p, "ready", "suspended"),
             UNCHANGED <<queue, val>>
      PROVE  TypeOK'
  BY <1>6 DEF Step, Goto
<1>7. ASSUME NEW p \in Procs,
             NextValue(p, IF p = "parent" THEN "queue" ELSE "ready")
      PROVE  TypeOK'
  BY <1>7 DEF NextValue, Goto
<1>8. ASSUME NEW p \in Procs, EnterRT(p)
      PROVE  TypeOK'
  BY <1>8 DEF EnterRT
<1>9. ASSUME NEW p \in Procs, handler(p)
      PROVE  TypeOK'
  <2>1. [count[p] EXCEPT !.recv = @ + 1] \in Counters
    BY CountOne
  <2>2. count' = [count EXCEPT ![p] = [count[p] EXCEPT !.recv = @ + 1]]
    BY <1>9 DEF handler, InHandler, Resume
  <2>3. count' \in [Procs -> Counters]
    BY <2>1, <2>2
  <2>4. QED
    BY <1>9, <2>3 DEF handler, InHandler, Resume
<1>10. CASE EnterAlarm
  BY <1>10 DEF EnterAlarm, EnterHandler
<1>11. CASE alarm_handler
  <2>1. CASE Report("parent")
    <3>1. report' \in [Procs -> [printed : BOOLEAN, count : Counters]]
      BY <2>1, ReportType
    <3>2. pend' \in [Procs -> SUBSET Sigs]
      BY <1>11 DEF alarm_handler, AlarmHandler, Raise
    <3>3. QED
      BY <1>11, <3>1, <3>2 DEF alarm_handler, AlarmHandler, InHandler, Exit
  <2>2. CASE UNCHANGED <<cntVars, sigVars>>
    BY <1>11, <2>2 DEF alarm_handler, AlarmHandler, InHandler, Exit
  <2>3. QED
    BY <1>11, <2>1, <2>2 DEF alarm_handler, AlarmHandler
<1>12. CASE EnterTerminate
  BY <1>12 DEF EnterTerminate, EnterHandler
<1>13. CASE child_terminate
  <2>1. report' \in [Procs -> [printed : BOOLEAN, count : Counters]]
    BY <1>13, ReportType DEF child_terminate, TerminateChild
  <2>2. QED
    BY <1>13, <2>1 DEF child_terminate, TerminateChild, InHandler, Exit
<1>14. CASE AlarmExpires /\ UNCHANGED <<queue, val>>
  BY <1>14 DEF AlarmExpires, Raise
<1>15. CASE Reap /\ UNCHANGED <<queue, val>>
  BY <1>15 DEF Reap
<1>16. CASE UNCHANGED vars
  BY <1>16 DEF vars, pairVars
<1>17. CASE be_the_parent \/ main
  BY <1>1, <1>2, <1>3, <1>4, <1>5, <1>6, <1>7, <1>17 DEF be_the_parent, main
<1>18. CASE be_a_child
  BY <1>4, <1>5, <1>6, <1>7, <1>18 DEF be_a_child
<1>19. CASE Environment
  BY <1>14, <1>15, <1>16, <1>19 DEF Environment, Terminated, vars
<1>20. QED
  BY <1>8, <1>9, <1>10, <1>11, <1>12, <1>13, <1>16, <1>17, <1>18, <1>19
  DEF Next, ParentStep, ChildStep, Abandoned

\* The variables start with values of their types.
LEMMA InitType == Init => TypeOK
<1> SUFFICES ASSUME Init PROVE TypeOK
  OBVIOUS
<1>1. Zero \in Counters /\ [printed |-> FALSE, count |-> Zero]
                             \in [printed : BOOLEAN, count : Counters]
  BY DEF Zero, Counters
<1>2. report \in [Procs -> [printed : BOOLEAN, count : Counters]]
  BY <1>1 DEF Init, PairInit
<1>3. count \in [Procs -> Counters]
  BY <1>1 DEF Init, PairInit
<1>4. mask \in [Procs -> SUBSET Sigs] /\ pend \in [Procs -> SUBSET Sigs]
  BY DEF Init, PairInit
<1>5. queue \in [Procs -> Seq(Nat)] /\ val \in [Procs -> Nat]
  BY DEF Init
<1>6. QED
  BY <1>2, <1>3, <1>4, <1>5 DEF Init, PairInit, TypeOK, PairTypeOK, Exits

-----------------------------------------------------------------------------
(* The queues.                                                             *)

\* The empty queue has no entry.
LEMMA EmptyQueue == Len(<<>>) = 0
OBVIOUS

\* A value joins a queue at its end, and leaves it at its head.
LEMMA QueueFacts ==
    ASSUME NEW s \in Seq(Nat)
    PROVE  /\ Len(s) \in Nat
           /\ \A v \in Nat : /\ Len(Append(s, v)) = Len(s) + 1
                             /\ Append(s, v)[Len(s) + 1] = v
                             /\ \A i \in 1 .. Len(s) : Append(s, v)[i] = s[i]
           /\ s # <<>> => /\ Len(s) > 0 /\ Len(Tail(s)) = Len(s) - 1
                          /\ \A i \in 1 .. Len(s) - 1 : Tail(s)[i] = s[i + 1]
           /\ Len(s) > 0 => s # <<>>
OBVIOUS

-----------------------------------------------------------------------------
(* The inductive invariant.                                                *)

\* Nothing has been sent when the program starts.
LEMMA InitInv == Init => IInv
<1> SUFFICES ASSUME Init PROVE IInv
  OBVIOUS
<1>1. TypeOK
  BY InitType
<1>2. /\ status["parent"] = "running" /\ status["child"] = "unborn"
      /\ pc["parent"] = "main" /\ pc["child"] = "ready"
      /\ \A p \in Procs : /\ hnd[p] = "none" /\ pend[p] = {} /\ mask[p] = {}
                          /\ count[p] = Zero /\ report[p].printed = FALSE
                          /\ queue[p] = <<>> /\ val[p] = 0
      /\ alarm = FALSE
  BY DEF Init, PairInit
<1>7. \A p \in Procs : Queued(p) = 0
  BY <1>2, EmptyQueue DEF Queued
<1>3. /\ \A p \in Procs : /\ Queued(p) = 0 /\ Sends(p) = 0
                          /\ Handling(p) = 0 /\ Held(p) = 0
                          /\ count[p].recv = 0 /\ In(p) = 0
      /\ ~InLoop
  BY <1>2, <1>7 DEF Zero, Sends, Handling, Held, In, InLoop
<1>4. Lifecycle /\ Masked /\ Quiet /\ ReportsCurrent
  BY <1>2 DEF Lifecycle, Masked, Quiet, ReportsCurrent, Exits
<1>5. Conserved /\ ValuesCount /\ ValuesInOrder
  BY <1>2, <1>3 DEF Conserved, ValuesCount, ValuesInOrder
<1>6. QED
  BY <1>1, <1>4, <1>5 DEF IInv

\* A queued signal is taken in sigsuspend, outside handlers, only.
LEMMA Delivery ==
    ASSUME IInv, NEW p \in Procs, EnterRT(p)
    PROVE  /\ status[p] = "running" /\ hnd[p] = "none" /\ pc[p] = "suspended"
           /\ queue[p] # <<>> /\ InLoop
           /\ queue' = [queue EXCEPT ![p] = Tail(@)]
           /\ hnd' = [hnd EXCEPT ![p] = "handler"]
           /\ UNCHANGED <<status, pc, mask, sigVars, cntVars, val>>
<1>1. /\ status[p] = "running" /\ queue[p] # <<>>
      /\ "SIGRTMIN" \notin Blocked(p)
  BY DEF EnterRT
<1>2. InLoop
  BY <1>1 DEF IInv, Quiet
<1>3. "SIGRTMIN" \in mask[p]
  BY <1>1, <1>2 DEF IInv, Lifecycle, Masked, InLoop
<1>4. hnd[p] = "none" /\ pc[p] = "suspended"
  BY <1>1, <1>3 DEF Blocked, Sigs
<1>5. QED
  BY <1>1, <1>2, <1>4 DEF EnterRT

\* The terminating handlers start on top of the mainline or of handler().
LEMMA Termination ==
    ASSUME NEW p \in Procs, NEW s \in Sigs, s \notin Blocked(p)
    PROVE  hnd[p] \in {"none", "handler"}
BY DEF Blocked

\* handler() runs on top of a sigsuspend, which returns.
LEMMA Handled ==
    ASSUME IInv, NEW p \in Procs, handler(p)
    PROVE  /\ status[p] = "running" /\ hnd[p] = "handler"
           /\ pc[p] = "suspended" /\ InLoop
           /\ count' = [count EXCEPT ![p].recv = @ + 1]
           /\ hnd' = [hnd EXCEPT ![p] = "none"]
           /\ pc' = [pc EXCEPT ![p] = Resume(p)]
           /\ UNCHANGED <<status, mask, sigVars, report, queue, val>>
<1>1. status[p] = "running" /\ hnd[p] = "handler"
  BY DEF handler, InHandler
<1>2. pc[p] = "suspended"
  BY <1>1 DEF IInv, Lifecycle
<1>3. InLoop
  BY <1>1 DEF IInv, Quiet
<1>4. QED
  BY <1>1, <1>2, <1>3 DEF handler

-----------------------------------------------------------------------------
(* Conservation of signals.                                                *)

\* The tallies are numbers.
LEMMA Numbers ==
    ASSUME TypeOK, NEW p \in Procs
    PROVE  /\ Sends(p) \in Nat /\ Queued(p) \in Nat
           /\ count[p].recv \in Nat
           /\ Handling(p) \in {0, 1} /\ Held(p) \in {0, 1}
BY DEF TypeOK, PairTypeOK, Counters, Queued, Sends,
       Handling, Held

\* Before the loop nothing has been sent.
LEMMA BeforeLoop ==
    ASSUME TypeOK', Quiet', ~InLoop'
    PROVE  Conserved' /\ ValuesInOrder'
<1>0. \A p \in Procs : Queued(p)' = 0
  BY EmptyQueue DEF Quiet, Queued
<1>1. \A p \in Procs : /\ count'[p].recv = 0 /\ Queued(p)' = 0
                       /\ Sends(p)' = 0 /\ Handling(p)' = 0 /\ In(p)' = 0
  BY <1>0 DEF Quiet, InLoop, Sends, Handling, In, Zero
<1>2. Held("child")' = 0 /\ hnd'["child"] # "child_terminate"
  BY DEF Quiet, Held
<1>3. QED
  BY <1>1, <1>2 DEF Conserved, ValuesInOrder

\* Where the baton is, as a function of the tallies.
LEMMA Where ==
    ASSUME TypeOK, Conserved, NotOver("parent"), InLoop
    PROVE  /\ Held("parent") = 1 => Ball = "parent"
           /\ In("child") = 1 => Ball = "toChild"
           /\ Held("child") = 1 => Ball = "child"
           /\ In("parent") = 1 => Ball = "toParent"
<1>0. \A r \in Procs : /\ Sends(r) \in Nat /\ Queued(r) \in Nat
                       /\ count[r].recv \in Nat
                       /\ Handling(r) \in {0, 1} /\ Held(r) \in {0, 1}
  BY Numbers
<1>1. Tokens = 1
  BY DEF Conserved
<1>2. QED
  BY <1>0, <1>1 DEF Ball, Tokens, In

\* The same after a step.
LEMMA WhereNext ==
    ASSUME TypeOK', Conserved', NotOver("parent")', InLoop'
    PROVE  /\ Held("parent")' = 1 => Ball' = "parent"
           /\ In("child")' = 1 => Ball' = "toChild"
           /\ Held("child")' = 1 => Ball' = "child"
           /\ In("parent")' = 1 => Ball' = "toParent"
<1>0. \A r \in Procs : /\ Queued(r)' \in Nat
                       /\ Handling(r)' \in {0, 1} /\ Held(r)' \in {0, 1}
  BY DEF TypeOK, PairTypeOK, Queued, Handling, Held
<1>1. Tokens' = 1
  BY DEF Conserved
<1>2. QED
  BY <1>0, <1>1 DEF Ball, Tokens, In

\* What a step does to the baton of the abstract exchange.
RallyStep ==
    \/ B!BatonNext
    \/ Ball' = Ball /\ count'["parent"].recv = count["parent"].recv

\* Steps that touch no tally conserve signals.
LEMMA UntouchedConserves ==
    ASSUME IInv, TypeOK', UNCHANGED queue, InLoop' <=> InLoop,
           \A r \in Procs : /\ Sends(r)' = Sends(r) /\ Held(r)' = Held(r)
                            /\ Handling(r)' = Handling(r)
                            /\ count'[r].recv = count[r].recv
                            /\ NotOver(r)' <=> NotOver(r),
           (hnd'["child"] = "child_terminate")
              <=> (hnd["child"] = "child_terminate")
    PROVE  Conserved' /\ ValuesInOrder' /\ RallyStep
<1>0. \A r \in Procs : /\ Sends(r) \in Nat /\ Queued(r) \in Nat
                       /\ count[r].recv \in Nat
                       /\ Handling(r) \in {0, 1} /\ Held(r) \in {0, 1}
  BY Numbers DEF IInv
<1>1. \A r \in Procs : Queued(r)' = Queued(r)
  BY DEF Queued
<1>2. Conserved'
  BY <1>0, <1>1 DEF IInv, Conserved, Tokens, In
<1>3. ValuesInOrder'
  BY <1>1 DEF IInv, ValuesInOrder
<1>4. Ball' = Ball
  <2>1. /\ NotOver("parent")' <=> NotOver("parent")
        /\ Held("parent")' = Held("parent") /\ Held("child")' = Held("child")
        /\ In("parent")' = In("parent") /\ In("child")' = In("child")
    BY <1>1 DEF In
  <2>2. CASE NotOver("parent") /\ InLoop
    <3>1. \/ Held("parent") = 1 \/ Held("child") = 1
          \/ In("parent") = 1 \/ In("child") = 1
      BY <1>0, <2>2 DEF IInv, Conserved, Tokens, In
    <3>2. QED
      BY <1>2, <2>1, <2>2, <3>1, Where, WhereNext DEF IInv
  <2>3. CASE ~(NotOver("parent") /\ InLoop)
    BY <2>1, <2>3 DEF Ball
  <2>4. QED
    BY <2>2, <2>3
<1>5. QED
  BY <1>2, <1>3, <1>4 DEF RallyStep

\* Arming the alarm, the parent gets the first signal to send.
LEMMA ArmConserves ==
    ASSUME IInv, TypeOK', ArmAlarm("queue"), UNCHANGED <<queue, val>>
    PROVE  Conserved' /\ ValuesInOrder' /\ RallyStep
<1>1. pc["parent"] = "alarm" /\ pc'["parent"] = "queue" /\ ~InLoop
  BY DEF ArmAlarm, InMain, Goto, InLoop, IInv, TypeOK, PairTypeOK
<1>2. UNCHANGED <<status, hnd, count, queue, pc["child"]>>
  BY DEF ArmAlarm, Goto, cntVars, IInv, TypeOK, PairTypeOK
<1>3. /\ pc["child"] \in {"ready", "suspended"}
      /\ \A p \in Procs : count[p] = Zero /\ queue[p] = <<>> /\ hnd[p] = "none"
  BY <1>1 DEF IInv, Quiet
<1>10. \A p \in Procs : Queued(p)' = 0
  BY <1>2, <1>3, EmptyQueue DEF Queued
<1>4. \A p \in Procs : /\ count'[p].recv = 0 /\ Queued(p)' = 0
                       /\ Sends(p)' = 0 /\ Handling(p)' = 0 /\ In(p)' = 0
  BY <1>1, <1>2, <1>3, <1>10 DEF Sends, Handling, In, Zero
<1>5. /\ Held("parent")' = 1 /\ Held("child")' = 0
      /\ hnd'["child"] # "child_terminate" /\ hnd'["parent"] = "none"
  BY <1>1, <1>2, <1>3 DEF Held
<1>6. NotOver("parent")'
  BY <1>2, <1>5 DEF ArmAlarm, InMain, NotOver
<1>7. Conserved'
  BY <1>4, <1>5, <1>6 DEF Conserved, Tokens
<1>8. ValuesInOrder'
  BY <1>4 DEF ValuesInOrder
<1>9. RallyStep
  <2>1. Ball = "idle"
    BY <1>1, <1>3 DEF Ball, NotOver, ArmAlarm, InMain
  <2>2. Ball' = "parent"
    BY <1>1, <1>5, <1>6, <1>7, WhereNext DEF InLoop
  <2>3. UNCHANGED count["parent"].recv
    BY <1>2
  <2>4. QED
    BY <2>1, <2>2, <2>3 DEF RallyStep, B!BatonNext, B!Serve
<1>11. QED
  BY <1>7, <1>8, <1>9

\* A signal sent is queued, unless the peer is gone.
LEMMA SendConserves ==
    ASSUME IInv, TypeOK', NEW p \in Procs, SigQueue(p)
    PROVE  Conserved' /\ ValuesInOrder' /\ RallyStep
<1> DEFINE q == Peer(p)
<1>0. \A r \in Procs : /\ Sends(r) \in Nat /\ Queued(r) \in Nat
                       /\ count[r].recv \in Nat
                       /\ Handling(r) \in {0, 1} /\ Held(r) \in {0, 1}
  BY Numbers DEF IInv
<1>1. \/ p = "parent" /\ q = "child"
      \/ p = "child" /\ q = "parent"
  BY DEF Peer
<1> HIDE DEF q
<1>2. /\ status[p] = "running" /\ hnd[p] = "none" /\ pc[p] = "queue"
      /\ UNCHANGED <<hnd, count, status[q], pc[q], queue[p]>>
  BY <1>1
  DEF SigQueue, InMain, Goto, Exit, cntVars, IInv, TypeOK, PairTypeOK, q
<1>3. InLoop /\ InLoop'
  BY <1>1, <1>2 DEF IInv, Quiet, InLoop, SigQueue, Goto, TypeOK, PairTypeOK
<1>4. /\ UNCHANGED <<Sends(q), Held(q), Handling(q), Handling(p), hnd["child"],
                     Queued(p)>>
      /\ count'[p].recv = count[p].recv /\ count'[q].recv = count[q].recv
      /\ NotOver(q)' <=> NotOver(q)
      /\ NotOver(p) /\ Held(p) = 1 /\ Handling(p) = 0
      /\ val[p] = Sends(p)
  BY <1>1, <1>2
  DEF Queued, Sends, Held, Handling, NotOver, IInv, ValuesCount, TypeOK, PairTypeOK
<1>5. CASE Goto(p, "count") /\ UNCHANGED status
  <2>1. /\ Sends(p)' = Sends(p) + 1 /\ Held(p)' = 0
        /\ NotOver(p)'
    <3>1. pc[p] = "queue" /\ pc'[p] = "count" /\ count' = count
      BY <1>2, <1>5 DEF Goto, IInv, TypeOK, PairTypeOK
    <3>2. count[p].sent \in Nat
      BY DEF IInv, TypeOK, PairTypeOK, Counters
    <3>3. QED
      BY <1>1, <1>2, <1>5, <3>1, <3>2 DEF Sends, Held, NotOver
  <2>2. CASE status[q] = "running"
    <3>1. queue' = [queue EXCEPT ![q] = Append(@, val[p])]
      BY <1>2, <1>5, <2>2
      DEF SigQueue, q, Goto, Exit, IInv, TypeOK, PairTypeOK, Exits
    <3>2. /\ queue[q] \in Seq(Nat) /\ val[p] \in Nat
          /\ queue'[q] = Append(queue[q], val[p])
      BY <1>1, <3>1 DEF IInv, TypeOK
    <3>3. /\ Queued(q)' = Queued(q) + 1
          /\ queue'[q][Queued(q) + 1] = val[p]
          /\ \A i \in 1 .. Queued(q) : queue'[q][i] = queue[q][i]
      BY <3>2, QueueFacts DEF Queued
    <3>9. /\ Queued(p)' = Queued(p) /\ Queued(q)' = Queued(q) + 1
          /\ hnd["child"] # "child_terminate"
      BY <1>1, <1>2, <1>4, <3>3 DEF IInv, Lifecycle
    <3>4. Conserved'
      <4>1. CASE p = "parent" /\ q = "child"
        BY <1>0, <1>3, <1>4, <2>1, <3>9, <4>1 DEF IInv, Conserved, Tokens, In
      <4>2. CASE p = "child" /\ q = "parent"
        BY <1>0, <1>3, <1>4, <2>1, <3>9, <4>2 DEF IInv, Conserved, Tokens, In
      <4>3. QED
        BY <1>1, <4>1, <4>2
    <3>5. NotOver(q) => val[p] = count[q].recv + Handling(q) + Queued(q)
      BY <1>0, <1>1, <1>4 DEF IInv, Conserved, In
    <3>6. ASSUME NEW r \in Procs, NotOver(r)', NEW i \in 1 .. Queued(r)'
          PROVE  queue'[r][i] = count'[r].recv + Handling(r)' + i - 1
      <4>1. CASE r = p
        BY <1>0, <1>2, <1>4, <3>6, <4>1 DEF IInv, ValuesInOrder
      <4>2. CASE r = q /\ i <= Queued(q)
        BY <1>0, <1>4, <3>3, <3>6, <4>2 DEF IInv, ValuesInOrder
      <4>3. CASE r = q /\ i = Queued(q) + 1
        BY <1>0, <1>4, <3>3, <3>5, <3>6, <4>3
      <4>4. QED
        BY <1>0, <1>1, <3>3, <3>6, <4>1, <4>2, <4>3
    <3>7. ValuesInOrder'
      BY <3>6 DEF ValuesInOrder
    <3>8. RallyStep
      <4>1. CASE p = "parent" /\ q = "child"
        <5>1. Held("parent") = 1 /\ In("child")' = 1
          BY <1>0, <1>3, <1>4, <3>9, <4>1 DEF IInv, Conserved, Tokens, In
        <5>2. Ball = "parent" /\ Ball' = "toChild"
          BY <1>3, <1>4, <2>1, <3>4, <4>1, <5>1, Where, WhereNext DEF IInv
        <5>3. QED
          BY <1>4, <4>1, <5>2 DEF RallyStep, B!BatonNext, B!Pass
      <4>2. CASE p = "child" /\ q = "parent" /\ NotOver("parent")
        <5>1. Held("child") = 1 /\ In("parent")' = 1
          BY <1>0, <1>3, <1>4, <3>9, <4>2 DEF IInv, Conserved, Tokens, In
        <5>2. Ball = "child" /\ Ball' = "toParent"
          BY <1>3, <1>4, <3>4, <4>2, <5>1, Where, WhereNext DEF IInv
        <5>3. QED
          BY <1>4, <4>2, <5>2 DEF RallyStep, B!BatonNext, B!Pass
      <4>3. CASE p = "child" /\ q = "parent" /\ ~NotOver("parent")
        BY <1>4, <4>3 DEF RallyStep, Ball
      <4>4. QED
        BY <1>1, <4>1, <4>2, <4>3
    <3>10. QED
      BY <3>4, <3>7, <3>8
  <2>3. CASE status[q] # "running"
    <3>1. queue' = queue
      BY <1>2, <1>5, <2>3
      DEF SigQueue, q, Goto, Exit, IInv, TypeOK, PairTypeOK, Exits
    <3>2. ~NotOver(q)
      BY <2>3 DEF NotOver
    <3>3. p = "child"
      <4>1. SUFFICES ASSUME p = "parent", q = "child" PROVE FALSE
        BY <1>1
      <4>2. status["child"] \in Exits
        BY <1>2, <2>3, <4>1
        DEF IInv, Lifecycle, TypeOK, PairTypeOK
      <4>3. pc["child"] = "queue"
        BY <1>2, <4>1, <4>2 DEF IInv, Lifecycle
      <4>4. Held("child") = 1
        BY <4>3 DEF Held
      <4>5. QED
        BY <1>0, <1>3, <1>4, <4>1, <4>4 DEF IInv, Conserved, Tokens
    <3>9. Queued(p)' = Queued(p) /\ Queued(q)' = Queued(q)
      BY <3>1 DEF Queued
    <3>4. Conserved'
      BY <1>0, <1>1, <1>3, <1>4, <2>1, <3>2, <3>3, <3>9
      DEF IInv, Conserved, Tokens, In
    <3>5. ValuesInOrder'
      BY <1>1, <1>4, <3>1, <3>2 DEF IInv, ValuesInOrder
    <3>6. RallyStep
      BY <1>1, <1>4, <3>2, <3>3 DEF RallyStep, Ball
    <3>7. QED
      BY <3>4, <3>5, <3>6
  <2>4. QED
    BY <2>2, <2>3
<1>6. CASE Exit(p, "exit0") /\ UNCHANGED <<pc, queue>>
  <2>1. /\ UNCHANGED <<Sends(p), Held(p), queue, Queued(p), Queued(q)>>
        /\ ~NotOver(p)'
    BY <1>1, <1>2, <1>6
    DEF Exit, Queued, Sends, Held, NotOver, IInv, TypeOK, PairTypeOK
  <2>2. hnd["child"] = "child_terminate" => p = "parent"
    BY <1>1, <1>2
  <2>3. Conserved'
    BY <1>0, <1>1, <1>3, <1>4, <2>1, <2>2 DEF IInv, Conserved, Tokens, In
  <2>4. ValuesInOrder'
    BY <1>1, <1>4, <2>1 DEF IInv, ValuesInOrder
  <2>5. CASE p = "parent"
    <3>1. Ball = "parent" /\ Ball' = "down"
      BY <1>3, <1>4, <2>1, <2>5, Where DEF IInv, Ball
    <3>2. QED
      BY <1>4, <2>3, <2>4, <2>5, <3>1 DEF RallyStep, B!BatonNext, B!Drop
  <2>6. CASE p = "child" /\ q = "parent"
    <3>1. Ball' = Ball
      BY <1>3, <1>4, <2>1, <2>6 DEF Ball, Tokens
    <3>2. QED
      BY <1>4, <2>3, <2>4, <2>6, <3>1 DEF RallyStep
  <2>7. QED
    BY <1>1, <2>5, <2>6
<1>7. QED
  BY <1>5, <1>6 DEF SigQueue

\* Counting it changes no tally: it had been sent before.
LEMMA CountConserves ==
    ASSUME IInv, TypeOK', NEW p \in Procs, UNCHANGED <<queue, val>>,
           Increment(p, "count", "sent",
                     IF p = "parent" THEN "ready" ELSE "val")
    PROVE  Conserved' /\ ValuesInOrder' /\ RallyStep
<1>0. \A r \in Procs : /\ Sends(r) \in Nat /\ Queued(r) \in Nat
                       /\ count[r].recv \in Nat
                       /\ Handling(r) \in {0, 1} /\ Held(r) \in {0, 1}
  BY Numbers DEF IInv
<1>1. /\ pc[p] = "count"
      /\ pc'[p] = (IF p = "parent" THEN "ready" ELSE "val")
      /\ count'[p].sent = count[p].sent + 1
      /\ UNCHANGED <<status, hnd, queue>>
      /\ \A r \in Procs \ {p} : pc'[r] = pc[r] /\ count'[r] = count[r]
      /\ \A r \in Procs : count'[r].recv = count[r].recv
  BY DEF Increment, InMain, Goto, IInv, TypeOK, PairTypeOK, Counters
<1>2. Sends(p)' = Sends(p) /\ Held(p)' = Held(p)
  <2>1. count[p].sent \in Nat
    BY DEF IInv, TypeOK, PairTypeOK, Counters
  <2>2. Sends(p)' = Sends(p)
    BY <1>1, <2>1 DEF Sends
  <2>3. Held(p)' = Held(p)
    BY <1>1 DEF Held
  <2>4. QED
    BY <2>2, <2>3
<1>3. \A r \in Procs \ {p} : Sends(r)' = Sends(r) /\ Held(r)' = Held(r)
  BY <1>1 DEF Sends, Held
<1>4. \A r \in Procs : /\ Handling(r)' = Handling(r)
                       /\ NotOver(r)' <=> NotOver(r)
  BY <1>1 DEF Handling, NotOver
<1>5. InLoop' <=> InLoop
  BY <1>1 DEF InLoop
<1>6. (hnd'["child"] = "child_terminate") <=> (hnd["child"] = "child_terminate")
  BY <1>1
<1>7. QED
  BY <1>1, <1>2, <1>3, <1>4, <1>5, <1>6, UntouchedConserves

\* The handler starts with the value at the head of the queue.
LEMMA DeliveryConserves ==
    ASSUME IInv, TypeOK', NEW p \in Procs, EnterRT(p)
    PROVE  Conserved' /\ ValuesInOrder' /\ RallyStep
<1>0. \A r \in Procs : /\ Sends(r) \in Nat /\ Queued(r) \in Nat
                       /\ count[r].recv \in Nat
                       /\ Handling(r) \in {0, 1} /\ Held(r) \in {0, 1}
  BY Numbers DEF IInv
<1>1. /\ status[p] = "running" /\ hnd[p] = "none" /\ pc[p] = "suspended"
      /\ queue[p] # <<>> /\ InLoop
      /\ queue' = [queue EXCEPT ![p] = Tail(@)]
      /\ hnd' = [hnd EXCEPT ![p] = "handler"]
      /\ UNCHANGED <<status, pc, mask, sigVars, cntVars, val>>
  BY Delivery
<1>2. /\ queue[p] \in Seq(Nat) /\ queue'[p] = Tail(queue[p])
      /\ \A r \in Procs \ {p} : queue'[r] = queue[r] /\ hnd'[r] = hnd[r]
      /\ hnd'[p] = "handler"
  BY <1>1 DEF IInv, TypeOK, PairTypeOK
<1>3. /\ Queued(p) > 0 /\ Queued(p)' = Queued(p) - 1
      /\ \A i \in 1 .. Queued(p) - 1 : queue'[p][i] = queue[p][i + 1]
  <2>1. /\ Len(queue[p]) > 0 /\ Len(queue'[p]) = Len(queue[p]) - 1
        /\ \A i \in 1 .. Len(queue[p]) - 1 : queue'[p][i] = queue[p][i + 1]
    <3>1. /\ Len(queue[p]) > 0 /\ Len(Tail(queue[p])) = Len(queue[p]) - 1
          /\ \A i \in 1 .. Len(queue[p]) - 1 :
                Tail(queue[p])[i] = queue[p][i + 1]
      BY <1>1, <1>2, QueueFacts
    <3>2. QED
      BY <1>2, <3>1, Zenon
  <2>2. QED
    BY <2>1 DEF Queued
<1>4. /\ \A r \in Procs : /\ Sends(r)' = Sends(r) /\ Held(r)' = Held(r)
                          /\ count'[r].recv = count[r].recv
                          /\ NotOver(r)' <=> NotOver(r)
      /\ \A r \in Procs \ {p} : /\ Handling(r)' = Handling(r)
                                /\ Queued(r)' = Queued(r)
      /\ Handling(p) = 0 /\ Handling(p)' = 1
      /\ NotOver(p)
      /\ InLoop'
  BY <1>1, <1>2 DEF Queued, Sends, Held, NotOver, Handling, InLoop, cntVars
<1>5. /\ (hnd'["child"] = "child_terminate")
            <=> (hnd["child"] = "child_terminate")
      /\ InLoop
  BY <1>1, <1>2
<1>6. Conserved'
  <2>1. CASE p = "parent"
    BY <1>0, <1>3, <1>4, <1>5, <2>1 DEF IInv, Conserved, Tokens, In
  <2>2. CASE p = "child"
    BY <1>0, <1>3, <1>4, <1>5, <2>2 DEF IInv, Conserved, Tokens, In
  <2>3. QED
    BY <2>1, <2>2
<1>7. ASSUME NEW r \in Procs, NotOver(r)', NEW i \in 1 .. Queued(r)'
      PROVE  queue'[r][i] = count'[r].recv + Handling(r)' + i - 1
  <2>1. CASE r = p
    <3>1. i + 1 \in 1 .. Queued(p) /\ i \in 1 .. Queued(p) - 1
      BY <1>0, <1>3, <1>7, <2>1
    <3>2. queue[p][i + 1] = count[p].recv + Handling(p) + (i + 1) - 1
      BY <1>4, <3>1 DEF IInv, ValuesInOrder
    <3>3. QED
      BY <1>0, <1>3, <1>4, <2>1, <3>1, <3>2
  <2>2. CASE r # p
    BY <1>2, <1>4, <1>7, <2>2 DEF IInv, ValuesInOrder
  <2>3. QED
    BY <2>1, <2>2
<1>8. Ball' = Ball
  <2>1. CASE p = "parent"
    BY <1>0, <1>3, <1>4, <1>5, <2>1 DEF Ball, Tokens
  <2>2. CASE p = "child"
    BY <1>0, <1>3, <1>4, <1>5, <2>2 DEF Ball, Tokens
  <2>3. QED
    BY <2>1, <2>2
<1>9. QED
  BY <1>4, <1>6, <1>7, <1>8 DEF ValuesInOrder, RallyStep

\* handler() counts the signal and lets its process send the next.
LEMMA HandlerConserves ==
    ASSUME IInv, TypeOK', NEW p \in Procs, handler(p)
    PROVE  Conserved' /\ ValuesInOrder' /\ RallyStep
<1>0. \A r \in Procs : /\ Sends(r) \in Nat /\ Queued(r) \in Nat
                       /\ count[r].recv \in Nat
                       /\ Handling(r) \in {0, 1} /\ Held(r) \in {0, 1}
  BY Numbers DEF IInv
<1>1. /\ status[p] = "running" /\ hnd[p] = "handler"
      /\ pc[p] = "suspended" /\ InLoop
      /\ count' = [count EXCEPT ![p].recv = @ + 1]
      /\ hnd' = [hnd EXCEPT ![p] = "none"]
      /\ pc' = [pc EXCEPT ![p] = Resume(p)]
      /\ UNCHANGED <<status, mask, sigVars, report, queue, val>>
  BY Handled
<1>2. /\ count'[p].recv = count[p].recv + 1 /\ count'[p].sent = count[p].sent
      /\ hnd'[p] = "none" /\ pc'[p] = Resume(p)
      /\ \A r \in Procs \ {p} : /\ count'[r] = count[r] /\ hnd'[r] = hnd[r]
                                /\ pc'[r] = pc[r]
  BY <1>1 DEF IInv, TypeOK, PairTypeOK, Counters
<1>3. /\ Sends(p)' = Sends(p) /\ Held(p) = 0 /\ Held(p)' = 1
      /\ Handling(p) = 1 /\ Handling(p)' = 0
      /\ NotOver(p) /\ NotOver(p)' /\ InLoop'
      /\ \A r \in Procs : Queued(r)' = Queued(r)
  BY <1>1, <1>2 DEF Queued, Sends, Held, Handling, NotOver, Resume, InLoop
<1>4. \A r \in Procs \ {p} : /\ Sends(r)' = Sends(r) /\ Held(r)' = Held(r)
                             /\ Handling(r)' = Handling(r)
                             /\ NotOver(r)' <=> NotOver(r)
  BY <1>1, <1>2 DEF Sends, Held, Handling, NotOver
<1>5. (hnd'["child"] = "child_terminate") <=> (hnd["child"] = "child_terminate")
  BY <1>1, <1>2
<1>6. Conserved'
  BY <1>0, <1>1, <1>2, <1>3, <1>4, <1>5 DEF IInv, Conserved, Tokens, In
<1>7. \A r \in Procs : /\ count'[r].recv + Handling(r)'
                             = count[r].recv + Handling(r)
                       /\ NotOver(r)' <=> NotOver(r)
  BY <1>0, <1>2, <1>3, <1>4
<1>8. ValuesInOrder'
  BY <1>1, <1>3, <1>7 DEF IInv, ValuesInOrder
<1>9. CASE p = "parent"
  <2>1. In("parent") = 1 /\ Held("parent")' = 1
    BY <1>0, <1>1, <1>3, <1>9 DEF IInv, Conserved, Tokens, In
  <2>2. Ball = "toParent" /\ Ball' = "parent"
    BY <1>1, <1>3, <1>6, <1>9, <2>1, Where, WhereNext DEF IInv
  <2>3. QED
    BY <1>2, <1>6, <1>8, <1>9, <2>2 DEF RallyStep, B!BatonNext, B!Return
<1>10. CASE p = "child"
  <2>1. count'["parent"].recv = count["parent"].recv
    BY <1>2, <1>10
  <2>2. CASE NotOver("parent")
    <3>1. In("child") = 1 /\ Held("child")' = 1 /\ NotOver("parent")'
      BY <1>0, <1>1, <1>3, <1>4, <1>10, <2>2 DEF IInv, Conserved, Tokens, In
    <3>2. Ball = "toChild" /\ Ball' = "child"
      BY <1>1, <1>3, <1>6, <2>2, <3>1, Where, WhereNext DEF IInv
    <3>3. QED
      BY <1>6, <1>8, <2>1, <3>2 DEF RallyStep, B!BatonNext, B!Pass
  <2>3. CASE ~NotOver("parent")
    <3>1. Ball' = Ball
      BY <1>4, <1>10, <2>3 DEF Ball
    <3>2. QED
      BY <1>6, <1>8, <2>1, <3>1 DEF RallyStep
  <2>4. QED
    BY <2>2, <2>3
<1>11. QED
  BY <1>9, <1>10

\* The handler that ends the part of p.
EndHandler(p) == IF p = "parent" THEN "alarm_handler" ELSE "child_terminate"

\* A terminating handler ends what its process takes part in, no more.
LEMMA EndConserves ==
    ASSUME IInv, NEW p \in Procs, hnd[p] \in {"none", "handler"},
           hnd' = [hnd EXCEPT ![p] = EndHandler(p)],
           status[p] = "running", InLoop,
           p = "child" => ~NotOver("parent"),
           UNCHANGED <<status, pc, count, queue>>
    PROVE  Conserved' /\ ValuesInOrder' /\ RallyStep
<1>0. \A r \in Procs : /\ Sends(r) \in Nat /\ Queued(r) \in Nat
                       /\ count[r].recv \in Nat
                       /\ Handling(r) \in {0, 1} /\ Held(r) \in {0, 1}
  BY Numbers DEF IInv
<1>1. hnd'[p] = EndHandler(p) /\ \A r \in Procs \ {p} : hnd'[r] = hnd[r]
  BY DEF IInv, TypeOK, PairTypeOK
<1>2. /\ \A r \in Procs : /\ Sends(r)' = Sends(r) /\ Held(r)' = Held(r)
                          /\ count'[r].recv = count[r].recv
                          /\ Queued(r)' = Queued(r)
      /\ \A r \in Procs \ {p} : /\ Handling(r)' = Handling(r)
                                /\ NotOver(r)' <=> NotOver(r)
      /\ NotOver(p) /\ ~NotOver(p)' /\ Handling(p)' = 0
      /\ InLoop'
  BY <1>1 DEF Queued, Sends, Held, NotOver, Handling, InLoop, EndHandler
<1>3. (hnd'["child"] = "child_terminate")
         <=> (p = "child" \/ hnd["child"] = "child_terminate")
  BY <1>1 DEF EndHandler
<1>5. ValuesInOrder'
  BY <1>2 DEF IInv, ValuesInOrder
<1>4. CASE p = "parent"
  <2>1. ~NotOver("parent")' /\ NotOver("parent")
    BY <1>2, <1>4
  <2>2. Conserved'
    BY <1>0, <1>2, <1>3, <1>4, <2>1 DEF IInv, Conserved, Tokens, In
  <2>3. Ball # "down" /\ Ball' = "down"
    BY <1>0, <2>1 DEF Ball, IInv, Conserved, Tokens
  <2>4. QED
    BY <1>2, <1>5, <2>2, <2>3 DEF RallyStep, B!BatonNext, B!Drop
<1>6. CASE p = "child"
  <2>1. /\ ~NotOver("child")' /\ NotOver("child")
        /\ ~NotOver("parent")' /\ ~NotOver("parent")
    BY <1>2, <1>6
  <2>2. Sends("parent") \in {count["child"].recv, count["child"].recv + 1}
    BY <1>0, <1>6, <2>1 DEF IInv, Conserved, Tokens, In
  <2>3. Conserved'
    BY <1>0, <1>2, <1>3, <1>6, <2>1, <2>2 DEF IInv, Conserved, Tokens, In
  <2>4. Ball' = Ball
    BY <2>1 DEF Ball
  <2>5. QED
    BY <1>2, <1>5, <2>3, <2>4 DEF RallyStep
<1>7. QED
  BY <1>4, <1>6

\* One step of the program preserves the inductive invariant.
LEMMA InvStep == IInv /\ [Next]_vars => IInv' /\ RallyStep
<1> SUFFICES ASSUME IInv, [Next]_vars PROVE IInv' /\ RallyStep
  OBVIOUS
<1>0. TypeOK'
  BY TypeStep DEF IInv
<1>00. /\ TypeOK /\ Lifecycle /\ Masked /\ Quiet /\ Conserved
       /\ ValuesInOrder /\ ValuesCount /\ ReportsCurrent
  BY DEF IInv
<1> USE DEF TypeOK, PairTypeOK, Exits, Sigs, Counters, InMain, procVars, sigVars,
            cntVars
<1>1. CASE StartUp({"SIGRTMIN"}) /\ UNCHANGED <<queue, val>>
  <2>1. Lifecycle'
    BY <1>00, <1>1 DEF StartUp, Goto, Exit, Lifecycle, Quiet, InLoop
  <2>2. Masked'
    BY <1>00, <1>1 DEF StartUp, Goto, Exit, Lifecycle, Masked
  <2>3. Quiet'
    BY <1>00, <1>1 DEF StartUp, Goto, Exit, Lifecycle, Quiet, InLoop, Zero
  <2>4. ~InLoop'
    BY <1>00, <1>1 DEF StartUp, Goto, Exit, InLoop
  <2>5. Conserved' /\ ValuesInOrder'
    BY <1>0, <2>3, <2>4, BeforeLoop
  <2>6. RallyStep
    BY <1>00, <1>1
    DEF StartUp, Goto, Exit, Lifecycle, InLoop, NotOver, Ball, RallyStep,
        B!BatonNext, B!Drop
  <2>7. ValuesCount'
    BY <1>00, <1>1 DEF StartUp, Goto, Exit, Quiet, InLoop, ValuesCount, Sends
  <2>8. ReportsCurrent'
    BY <1>00, <1>1
    DEF StartUp, Goto, Exit, Lifecycle, Quiet, InLoop, ReportsCurrent
  <2>9. QED
    BY <1>0, <2>1, <2>2, <2>3, <2>4, <2>5, <2>6, <2>7, <2>8 DEF IInv
<1>2. CASE ForkChild /\ UNCHANGED <<queue, val>>
  <2>1. Lifecycle'
    BY <1>00, <1>2 DEF ForkChild, Goto, Exit, Lifecycle, Quiet, InLoop
  <2>2. Masked'
    BY <1>00, <1>2 DEF ForkChild, Goto, Exit, Lifecycle, Masked
  <2>3. Quiet'
    BY <1>00, <1>2 DEF ForkChild, Goto, Exit, Lifecycle, Quiet, InLoop, Zero
  <2>4. ~InLoop'
    BY <1>00, <1>2 DEF ForkChild, Goto, Exit, InLoop
  <2>5. Conserved' /\ ValuesInOrder'
    BY <1>0, <2>3, <2>4, BeforeLoop
  <2>6. RallyStep
    BY <1>00, <1>2
    DEF ForkChild, Goto, Exit, Lifecycle, InLoop, NotOver, Ball, RallyStep,
        B!BatonNext, B!Drop
  <2>7. ValuesCount'
    BY <1>00, <1>2 DEF ForkChild, Goto, Exit, Quiet, InLoop, ValuesCount, Sends
  <2>8. ReportsCurrent'
    BY <1>00, <1>2
    DEF ForkChild, Goto, Exit, Lifecycle, Quiet, InLoop, ReportsCurrent
  <2>9. QED
    BY <1>0, <2>1, <2>2, <2>3, <2>4, <2>5, <2>6, <2>7, <2>8 DEF IInv
<1>3. CASE ArmAlarm("queue") /\ UNCHANGED <<queue, val>>
  <2>1. Lifecycle'
    BY <1>00, <1>3 DEF ArmAlarm, Goto, Lifecycle, Quiet, InLoop
  <2>2. Masked'
    BY <1>00, <1>3 DEF ArmAlarm, Goto, Lifecycle, Masked
  <2>3. Quiet'
    BY <1>00, <1>3 DEF ArmAlarm, Goto, Lifecycle, Quiet, InLoop, Zero
  <2>4. Conserved' /\ ValuesInOrder' /\ RallyStep
    BY <1>0, <1>3, ArmConserves
  <2>5. ValuesCount'
    BY <1>00, <1>3 DEF ArmAlarm, Goto, Quiet, InLoop, ValuesCount, Sends
  <2>6. ReportsCurrent'
    BY <1>00, <1>3 DEF ArmAlarm, Goto, Lifecycle, Quiet, InLoop, ReportsCurrent
  <2>7. QED
    BY <1>0, <2>1, <2>2, <2>3, <2>4, <2>5, <2>6 DEF IInv
<1>4. ASSUME NEW p \in Procs, SigQueue(p)
      PROVE  IInv' /\ RallyStep
  <2>1. Lifecycle'
    BY <1>00, <1>4
    DEF SigQueue, Goto, Exit, Peer, Exists, Lifecycle, Quiet, InLoop
  <2>2. Masked'
    BY <1>00, <1>4 DEF SigQueue, Goto, Exit, Peer, Exists, Lifecycle, Masked
  <2>3. Quiet'
    BY <1>00, <1>4
    DEF SigQueue, Goto, Exit, Peer, Exists, Lifecycle, Quiet, InLoop, Zero
  <2>4. Conserved' /\ ValuesInOrder' /\ RallyStep
    BY <1>0, <1>4, SendConserves
  <2>5. ValuesCount'
    BY <1>00, <1>4
    DEF SigQueue, Goto, Exit, Peer, Exists, Quiet, InLoop, ValuesCount, Sends
  <2>6. ReportsCurrent'
    BY <1>00, <1>4
    DEF SigQueue, Goto, Exit, Peer, Exists, Lifecycle, Quiet, InLoop,
        ReportsCurrent
  <2>7. QED
    BY <1>0, <2>1, <2>2, <2>3, <2>4, <2>5, <2>6 DEF IInv
<1>5. ASSUME NEW p \in Procs,
             Increment(p, "count", "sent",
                       IF p = "parent" THEN "ready" ELSE "val"),
             UNCHANGED <<queue, val>>
      PROVE  IInv' /\ RallyStep
  <2>1. Lifecycle'
    BY <1>00, <1>5 DEF Increment, Goto, Lifecycle, Quiet, InLoop
  <2>2. Masked'
    BY <1>00, <1>5 DEF Increment, Goto, Lifecycle, Masked
  <2>3. Quiet'
    BY <1>00, <1>5 DEF Increment, Goto, Lifecycle, Quiet, InLoop, Zero
  <2>4. Conserved' /\ ValuesInOrder' /\ RallyStep
    BY <1>0, <1>5, CountConserves
  <2>5. ValuesCount'
    <3>1. /\ count'[p].sent = count[p].sent + 1 /\ pc[p] = "count"
          /\ pc'[p] = (IF p = "parent" THEN "ready" ELSE "val")
          /\ val' = val
          /\ \A q \in Procs \ {p} : pc'[q] = pc[q] /\ count'[q] = count[q]
      BY <1>00, <1>5 DEF Increment, Goto
    <3>2. Sends(p)' = Sends(p) /\ Sends(p) = val[p] + 1
      BY <1>00, <3>1 DEF ValuesCount, Sends
    <3>3. \A q \in Procs \ {p} : Sends(q)' = Sends(q)
      BY <3>1 DEF Sends
    <3>4. QED
      BY <1>00, <3>1, <3>2, <3>3 DEF ValuesCount
  <2>6. ReportsCurrent'
    BY <1>00, <1>5
    DEF Increment, Goto, Lifecycle, Quiet, InLoop, ReportsCurrent
  <2>7. QED
    BY <1>0, <2>1, <2>2, <2>3, <2>4, <2>5, <2>6 DEF IInv
<1>6. ASSUME NEW p \in Procs, Step(p, "ready", "suspended"),
             UNCHANGED <<queue, val>>
      PROVE  IInv' /\ RallyStep
  <2>1. Lifecycle'
    BY <1>00, <1>6 DEF Step, Goto, Lifecycle, Quiet, InLoop
  <2>2. Masked'
    BY <1>00, <1>6 DEF Step, Goto, Lifecycle, Masked
  <2>3. Quiet'
    BY <1>00, <1>6 DEF Step, Goto, Lifecycle, Quiet, InLoop, Zero
  <2>4. Conserved' /\ ValuesInOrder' /\ RallyStep
    <3>1. /\ UNCHANGED queue
          /\ InLoop' <=> InLoop
          /\ (hnd'["child"] = "child_terminate")
                <=> (hnd["child"] = "child_terminate")
      BY <1>00, <1>6 DEF Step, Goto, InLoop
    <3>2. \A r \in Procs : /\ Sends(r)' = Sends(r) /\ Held(r)' = Held(r)
                           /\ Handling(r)' = Handling(r)
                           /\ count'[r].recv = count[r].recv
                           /\ NotOver(r)' <=> NotOver(r)
      BY <1>00, <1>6 DEF Step, Goto, Sends, Held, Handling, NotOver
    <3>3. QED
      BY <1>0, <3>1, <3>2, UntouchedConserves
  <2>5. ValuesCount'
    BY <1>00, <1>6 DEF Step, Goto, Quiet, InLoop, ValuesCount, Sends
  <2>6. ReportsCurrent'
    BY <1>00, <1>6 DEF Step, Goto, Lifecycle, Quiet, InLoop, ReportsCurrent
  <2>7. QED
    BY <1>0, <2>1, <2>2, <2>3, <2>4, <2>5, <2>6 DEF IInv
<1>7. ASSUME NEW p \in Procs,
             NextValue(p, IF p = "parent" THEN "queue" ELSE "ready")
      PROVE  IInv' /\ RallyStep
  <2>1. Lifecycle'
    BY <1>00, <1>7 DEF NextValue, Goto, Lifecycle, Quiet, InLoop
  <2>2. Masked'
    BY <1>00, <1>7 DEF NextValue, Goto, Lifecycle, Masked
  <2>3. Quiet'
    BY <1>00, <1>7 DEF NextValue, Goto, Lifecycle, Quiet, InLoop, Zero
  <2>4. Conserved' /\ ValuesInOrder' /\ RallyStep
    <3>1. /\ UNCHANGED queue
          /\ InLoop' <=> InLoop
          /\ (hnd'["child"] = "child_terminate")
                <=> (hnd["child"] = "child_terminate")
      BY <1>00, <1>7 DEF NextValue, Goto, InLoop
    <3>2. \A r \in Procs : /\ Sends(r)' = Sends(r) /\ Held(r)' = Held(r)
                           /\ Handling(r)' = Handling(r)
                           /\ count'[r].recv = count[r].recv
                           /\ NotOver(r)' <=> NotOver(r)
      BY <1>00, <1>7 DEF NextValue, Goto, Sends, Held, Handling, NotOver
    <3>3. QED
      BY <1>0, <3>1, <3>2, UntouchedConserves
  <2>5. ValuesCount'
    BY <1>00, <1>7 DEF NextValue, Goto, Quiet, InLoop, ValuesCount, Sends
  <2>6. ReportsCurrent'
    BY <1>00, <1>7
    DEF NextValue, Goto, Lifecycle, Quiet, InLoop, ReportsCurrent
  <2>7. QED
    BY <1>0, <2>1, <2>2, <2>3, <2>4, <2>5, <2>6 DEF IInv
<1>8. ASSUME NEW p \in Procs, EnterRT(p)
      PROVE  IInv' /\ RallyStep
  <2>0. /\ status[p] = "running" /\ hnd[p] = "none" /\ pc[p] = "suspended"
        /\ queue[p] # <<>> /\ InLoop
        /\ queue' = [queue EXCEPT ![p] = Tail(@)]
        /\ hnd' = [hnd EXCEPT ![p] = "handler"]
        /\ UNCHANGED <<status, pc, mask, sigVars, cntVars, val>>
    BY <1>8, Delivery
  <2>1. Lifecycle'
    BY <1>00, <2>0 DEF Lifecycle, Quiet, InLoop
  <2>2. Masked'
    BY <1>00, <2>0 DEF Lifecycle, Masked
  <2>3. Quiet'
    BY <1>00, <2>0 DEF Lifecycle, Quiet, InLoop, Zero
  <2>4. Conserved' /\ ValuesInOrder' /\ RallyStep
    BY <1>0, <1>8, DeliveryConserves
  <2>5. ValuesCount'
    BY <1>00, <2>0 DEF Quiet, InLoop, ValuesCount, Sends
  <2>6. ReportsCurrent'
    BY <1>00, <2>0 DEF Lifecycle, Quiet, InLoop, ReportsCurrent
  <2>7. QED
    BY <1>0, <2>1, <2>2, <2>3, <2>4, <2>5, <2>6 DEF IInv
<1>9. ASSUME NEW p \in Procs, handler(p)
      PROVE  IInv' /\ RallyStep
  <2>0. /\ status[p] = "running" /\ hnd[p] = "handler"
        /\ pc[p] = "suspended" /\ InLoop
        /\ count' = [count EXCEPT ![p].recv = @ + 1]
        /\ hnd' = [hnd EXCEPT ![p] = "none"]
        /\ pc' = [pc EXCEPT ![p] = Resume(p)]
        /\ UNCHANGED <<status, mask, sigVars, report, queue, val>>
    BY <1>9, Handled
  <2>1. Lifecycle'
    BY <1>00, <2>0 DEF Resume, Lifecycle, Quiet, InLoop
  <2>2. Masked'
    BY <1>00, <2>0 DEF Resume, Lifecycle, Masked
  <2>3. Quiet'
    BY <1>00, <2>0 DEF Resume, Lifecycle, Quiet, InLoop, Zero
  <2>4. Conserved' /\ ValuesInOrder' /\ RallyStep
    BY <1>0, <1>9, HandlerConserves
  <2>5. ValuesCount'
    BY <1>00, <2>0 DEF Resume, Quiet, InLoop, ValuesCount, Sends
  <2>6. ReportsCurrent'
    BY <1>00, <2>0 DEF Resume, Lifecycle, Quiet, InLoop, ReportsCurrent
  <2>7. QED
    BY <1>0, <2>1, <2>2, <2>3, <2>4, <2>5, <2>6 DEF IInv
<1>10. CASE EnterAlarm
  <2>0. status["parent"] = "running" /\ hnd["parent"] \in {"none", "handler"}
    BY <1>10, Termination DEF EnterAlarm, EnterHandler
  <2>1. Lifecycle'
    BY <1>00, <1>10, <2>0
    DEF EnterAlarm, EnterHandler, Lifecycle, Quiet, InLoop
  <2>2. Masked'
    BY <1>00, <1>10, <2>0 DEF EnterAlarm, EnterHandler, Lifecycle, Masked
  <2>3. Quiet'
    BY <1>00, <1>10, <2>0
    DEF EnterAlarm, EnterHandler, Lifecycle, Quiet, InLoop, Zero
  <2>4. Conserved' /\ ValuesInOrder' /\ RallyStep
    <3>1. /\ hnd' = [hnd EXCEPT !["parent"] = EndHandler("parent")]
          /\ UNCHANGED <<status, pc, count, queue>>
          /\ InLoop
          /\ "parent" = "child" => ~NotOver("parent")
      BY <1>00, <1>10, <2>0
      DEF EnterAlarm, EnterHandler, Lifecycle, NotOver, Quiet, InLoop, EndHandler
    <3>2. QED
      BY <2>0, <3>1, EndConserves
  <2>5. ValuesCount'
    BY <1>00, <1>10, <2>0
    DEF EnterAlarm, EnterHandler, Quiet, InLoop, ValuesCount, Sends
  <2>6. ReportsCurrent'
    BY <1>00, <1>10, <2>0
    DEF EnterAlarm, EnterHandler, Lifecycle, Quiet, InLoop, ReportsCurrent
  <2>7. QED
    BY <1>0, <2>1, <2>2, <2>3, <2>4, <2>5, <2>6 DEF IInv
<1>11. CASE alarm_handler
  <2>1. Lifecycle'
    BY <1>00, <1>11
    DEF alarm_handler, AlarmHandler, InHandler, Report, Raise, Exit, Lifecycle,
        Quiet, InLoop
  <2>2. Masked'
    BY <1>00, <1>11
    DEF alarm_handler, AlarmHandler, InHandler, Report, Raise, Exit, Lifecycle,
        Masked
  <2>3. Quiet'
    BY <1>00, <1>11
    DEF alarm_handler, AlarmHandler, InHandler, Report, Raise, Exit, Lifecycle,
        Quiet, InLoop, Zero
  <2>4. Conserved' /\ ValuesInOrder' /\ RallyStep
    <3>1. /\ UNCHANGED queue
          /\ InLoop' <=> InLoop
          /\ (hnd'["child"] = "child_terminate")
                <=> (hnd["child"] = "child_terminate")
      BY <1>00, <1>11
      DEF alarm_handler, AlarmHandler, InHandler, Report, Raise, Exit, InLoop
    <3>2. \A r \in Procs : /\ Sends(r)' = Sends(r) /\ Held(r)' = Held(r)
                           /\ Handling(r)' = Handling(r)
                           /\ count'[r].recv = count[r].recv
                           /\ NotOver(r)' <=> NotOver(r)
      BY <1>00, <1>11
      DEF alarm_handler, AlarmHandler, InHandler, Report, Raise, Exit, Sends,
          Held, Handling, NotOver
    <3>3. QED
      BY <1>0, <3>1, <3>2, UntouchedConserves
  <2>5. ValuesCount'
    BY <1>00, <1>11
    DEF alarm_handler, AlarmHandler, InHandler, Report, Raise, Exit, Quiet,
        InLoop, ValuesCount, Sends
  <2>6. ReportsCurrent'
    BY <1>00, <1>11
    DEF alarm_handler, AlarmHandler, InHandler, Report, Raise, Exit, Lifecycle,
        Quiet, InLoop, ReportsCurrent
  <2>7. QED
    BY <1>0, <2>1, <2>2, <2>3, <2>4, <2>5, <2>6 DEF IInv
<1>12. CASE EnterTerminate
  <2>0. status["child"] = "running" /\ hnd["child"] \in {"none", "handler"}
    BY <1>12, Termination DEF EnterTerminate, EnterHandler
  <2>1. Lifecycle'
    BY <1>00, <1>12, <2>0
    DEF EnterTerminate, EnterHandler, Lifecycle, Quiet, InLoop
  <2>2. Masked'
    BY <1>00, <1>12, <2>0 DEF EnterTerminate, EnterHandler, Lifecycle, Masked
  <2>3. Quiet'
    BY <1>00, <1>12, <2>0
    DEF EnterTerminate, EnterHandler, Lifecycle, Quiet, InLoop, Zero
  <2>4. Conserved' /\ ValuesInOrder' /\ RallyStep
    <3>1. /\ hnd' = [hnd EXCEPT !["child"] = EndHandler("child")]
          /\ UNCHANGED <<status, pc, count, queue>>
          /\ InLoop
          /\ "child" = "child" => ~NotOver("parent")
      BY <1>00, <1>12, <2>0
      DEF EnterTerminate, EnterHandler, Lifecycle, NotOver, Quiet, InLoop, EndHandler
    <3>2. QED
      BY <2>0, <3>1, EndConserves
  <2>5. ValuesCount'
    BY <1>00, <1>12, <2>0
    DEF EnterTerminate, EnterHandler, Quiet, InLoop, ValuesCount, Sends
  <2>6. ReportsCurrent'
    BY <1>00, <1>12, <2>0
    DEF EnterTerminate, EnterHandler, Lifecycle, Quiet, InLoop, ReportsCurrent
  <2>7. QED
    BY <1>0, <2>1, <2>2, <2>3, <2>4, <2>5, <2>6 DEF IInv
<1>13. CASE child_terminate
  <2>1. Lifecycle'
    BY <1>00, <1>13
    DEF child_terminate, TerminateChild, InHandler, Report, Exit, Lifecycle,
        Quiet, InLoop
  <2>2. Masked'
    BY <1>00, <1>13
    DEF child_terminate, TerminateChild, InHandler, Report, Exit, Lifecycle,
        Masked
  <2>3. Quiet'
    BY <1>00, <1>13
    DEF child_terminate, TerminateChild, InHandler, Report, Exit, Lifecycle,
        Quiet, InLoop, Zero
  <2>4. Conserved' /\ ValuesInOrder' /\ RallyStep
    <3>1. /\ UNCHANGED queue
          /\ InLoop' <=> InLoop
          /\ (hnd'["child"] = "child_terminate")
                <=> (hnd["child"] = "child_terminate")
      BY <1>00, <1>13
      DEF child_terminate, TerminateChild, InHandler, Report, Exit, InLoop
    <3>2. \A r \in Procs : /\ Sends(r)' = Sends(r) /\ Held(r)' = Held(r)
                           /\ Handling(r)' = Handling(r)
                           /\ count'[r].recv = count[r].recv
                           /\ NotOver(r)' <=> NotOver(r)
      BY <1>00, <1>13
      DEF child_terminate, TerminateChild, InHandler, Report, Exit, Sends,
          Held, Handling, NotOver
    <3>3. QED
      BY <1>0, <3>1, <3>2, UntouchedConserves
  <2>5. ValuesCount'
    BY <1>00, <1>13
    DEF child_terminate, TerminateChild, InHandler, Report, Exit, Quiet,
        InLoop, ValuesCount, Sends
  <2>6. ReportsCurrent'
    BY <1>00, <1>13
    DEF child_terminate, TerminateChild, InHandler, Report, Exit, Lifecycle,
        Quiet, InLoop, ReportsCurrent
  <2>7. QED
    BY <1>0, <2>1, <2>2, <2>3, <2>4, <2>5, <2>6 DEF IInv
<1>14. CASE AlarmExpires /\ UNCHANGED <<queue, val>>
  <2>1. Lifecycle'
    BY <1>00, <1>14 DEF AlarmExpires, Raise, Lifecycle, Quiet, InLoop
  <2>2. Masked'
    BY <1>00, <1>14 DEF AlarmExpires, Raise, Lifecycle, Masked
  <2>3. Quiet'
    BY <1>00, <1>14 DEF AlarmExpires, Raise, Lifecycle, Quiet, InLoop, Zero
  <2>4. Conserved' /\ ValuesInOrder' /\ RallyStep
    <3>1. /\ UNCHANGED queue
          /\ InLoop' <=> InLoop
          /\ (hnd'["child"] = "child_terminate")
                <=> (hnd["child"] = "child_terminate")
      BY <1>00, <1>14 DEF AlarmExpires, Raise, InLoop
    <3>2. \A r \in Procs : /\ Sends(r)' = Sends(r) /\ Held(r)' = Held(r)
                           /\ Handling(r)' = Handling(r)
                           /\ count'[r].recv = count[r].recv
                           /\ NotOver(r)' <=> NotOver(r)
      BY <1>00, <1>14 DEF AlarmExpires, Raise, Sends, Held, Handling, NotOver
    <3>3. QED
      BY <1>0, <3>1, <3>2, UntouchedConserves
  <2>5. ValuesCount'
    BY <1>00, <1>14 DEF AlarmExpires, Raise, Quiet, InLoop, ValuesCount, Sends
  <2>6. ReportsCurrent'
    BY <1>00, <1>14
    DEF AlarmExpires, Raise, Lifecycle, Quiet, InLoop, ReportsCurrent
  <2>7. QED
    BY <1>0, <2>1, <2>2, <2>3, <2>4, <2>5, <2>6 DEF IInv
<1>15. CASE Reap /\ UNCHANGED <<queue, val>>
  <2>1. Lifecycle'
    BY <1>00, <1>15 DEF Reap, Lifecycle, Quiet, InLoop
  <2>2. Masked'
    BY <1>00, <1>15 DEF Reap, Lifecycle, Masked
  <2>3. Quiet'
    BY <1>00, <1>15 DEF Reap, Lifecycle, Quiet, InLoop, Zero
  <2>4. Conserved' /\ ValuesInOrder' /\ RallyStep
    <3>1. /\ UNCHANGED queue
          /\ InLoop' <=> InLoop
          /\ (hnd'["child"] = "child_terminate")
                <=> (hnd["child"] = "child_terminate")
      BY <1>00, <1>15 DEF Reap, InLoop
    <3>2. \A r \in Procs : /\ Sends(r)' = Sends(r) /\ Held(r)' = Held(r)
                           /\ Handling(r)' = Handling(r)
                           /\ count'[r].recv = count[r].recv
                           /\ NotOver(r)' <=> NotOver(r)
      BY <1>00, <1>15 DEF Reap, Sends, Held, Handling, NotOver
    <3>3. QED
      BY <1>0, <3>1, <3>2, UntouchedConserves
  <2>5. ValuesCount'
    BY <1>00, <1>15 DEF Reap, Quiet, InLoop, ValuesCount, Sends
  <2>6. ReportsCurrent'
    BY <1>00, <1>15 DEF Reap, Lifecycle, Quiet, InLoop, ReportsCurrent
  <2>7. QED
    BY <1>0, <2>1, <2>2, <2>3, <2>4, <2>5, <2>6 DEF IInv
<1>16. CASE UNCHANGED vars
  <2>1. Lifecycle'
    BY <1>00, <1>16 DEF vars, pairVars, Lifecycle, Quiet, InLoop
  <2>2. Masked'
    BY <1>00, <1>16 DEF vars, pairVars, Lifecycle, Masked
  <2>3. Quiet'
    BY <1>00, <1>16 DEF vars, pairVars, Lifecycle, Quiet, InLoop, Zero
  <2>4. Conserved' /\ ValuesInOrder' /\ RallyStep
    <3>1. /\ UNCHANGED queue
          /\ InLoop' <=> InLoop
          /\ (hnd'["child"] = "child_terminate")
                <=> (hnd["child"] = "child_terminate")
      BY <1>00, <1>16 DEF vars, pairVars, InLoop
    <3>2. \A r \in Procs : /\ Sends(r)' = Sends(r) /\ Held(r)' = Held(r)
                           /\ Handling(r)' = Handling(r)
                           /\ count'[r].recv = count[r].recv
                           /\ NotOver(r)' <=> NotOver(r)
      BY <1>00, <1>16 DEF vars, pairVars, Sends, Held, Handling, NotOver
    <3>3. QED
      BY <1>0, <3>1, <3>2, UntouchedConserves
  <2>5. ValuesCount'
    BY <1>00, <1>16 DEF vars, pairVars, Quiet, InLoop, ValuesCount, Sends
  <2>6. ReportsCurrent'
    BY <1>00, <1>16
    DEF vars, pairVars, Lifecycle, Quiet, InLoop, ReportsCurrent
  <2>7. QED
    BY <1>0, <2>1, <2>2, <2>3, <2>4, <2>5, <2>6 DEF IInv
<1>17. CASE be_the_parent \/ main
  BY <1>1, <1>2, <1>3, <1>4, <1>5, <1>6, <1>7, <1>17 DEF be_the_parent, main
<1>18. CASE be_a_child
  BY <1>4, <1>5, <1>6, <1>7, <1>18 DEF be_a_child
<1>19. CASE Environment
  BY <1>14, <1>15, <1>16, <1>19 DEF Environment, Terminated, vars
<1>20. QED
  BY <1>8, <1>9, <1>10, <1>11, <1>12, <1>13, <1>16, <1>17, <1>18, <1>19
  DEF Next, ParentStep, ChildStep, Abandoned

\* The baton moves by steps of Baton.
LEMMA RallyFollows == RallyStep => [B!BatonNext]_(B!batonVars)
BY DEF RallyStep, B!batonVars

\* The inductive invariant of sigs_sent_swtch.p4.c holds in every reachable
\* state: types, conservation of signals, and the values in their order, the
\* n-th signal a process takes carrying n - 1.
THEOREM Invariance == Spec => []IInv
BY InitInv, InvStep, PTL DEF Spec

\* The variables keep their types.
THEOREM TypeCorrect == Spec => []TypeOK
<1>1. IInv => TypeOK
  BY DEF IInv
<1>2. QED
  BY <1>1, Invariance, PTL

\* No signal is lost, none is taken twice, none overtakes another, however the
\* alarm interrupts the two loops.
THEOREM QueueInOrder == Spec => []ValuesInOrder
<1>1. IInv => ValuesInOrder
  BY DEF IInv
<1>2. QED
  BY <1>1, Invariance, PTL

\* Reports show the final counters, which conservation keeps close.
LEMMA ReportsAgreeFollows == IInv => ReportsAgree
<1> SUFFICES ASSUME IInv, report["parent"].printed, report["child"].printed
             PROVE  /\ Close(report["parent"].count.sent,
                             report["child"].count.recv)
                    /\ Close(report["child"].count.sent,
                             report["parent"].count.recv)
  BY DEF ReportsAgree
<1>0. \A r \in Procs : /\ Sends(r) \in Nat /\ Queued(r) \in Nat
                       /\ count[r].recv \in Nat
                       /\ Handling(r) \in {0, 1} /\ Held(r) \in {0, 1}
  BY Numbers DEF IInv
<1>1. \A p \in Procs : report[p].count = count[p]
  BY DEF IInv, ReportsCurrent
<1>2. hnd["parent"] = "alarm_exit" /\ hnd["child"] = "child_terminate"
  BY DEF IInv, ReportsCurrent
<1>3. ~NotOver("parent") /\ \A p \in Procs : Handling(p) = 0
  BY <1>2 DEF NotOver, Handling
<1>4. \A p \in Procs : /\ count[p].sent \in Nat
                       /\ Sends(p) \in {count[p].sent, count[p].sent + 1}
  BY DEF IInv, TypeOK, PairTypeOK, Counters, Sends
<1>5. Sends("child") = count["child"].sent + 1 => Held("child") = 0
  BY <1>4 DEF Sends, Held
<1>6. /\ count["parent"].recv <= Sends("child")
      /\ Sends("child") + Held("child") + In("child")
            <= count["parent"].recv + 1
      /\ Sends("parent") \in {count["child"].recv, count["child"].recv + 1}
  BY <1>2, <1>3 DEF IInv, Conserved
<1>7. Close(count["parent"].sent, count["child"].recv)
  BY <1>0, <1>4, <1>6 DEF Close
<1>8. Close(count["child"].sent, count["parent"].recv)
  BY <1>0, <1>3, <1>4, <1>6 DEF Close, In
<1>9. QED
  BY <1>1, <1>7, <1>8

\* The two lines the experiment prints never contradict each other by more
\* than the one signal under way when the alarm struck, even in handler().
THEOREM ReportsConsistent == Spec => []ReportsAgree
BY Invariance, ReportsAgreeFollows, PTL

\* At the start of the program the baton has not been served.
LEMMA InitRefines == Init => B!BatonInit
<1> SUFFICES ASSUME Init PROVE Ball = "idle" /\ count["parent"].recv = 0
  BY DEF B!BatonInit
<1>1. QED
  BY DEF Init, PairInit, Zero, Ball, InLoop, NotOver

\* sigs_sent_swtch.p4.c implements the strict alternation of Baton, for ever.
THEOREM Refinement == Spec => ImplementsBaton
<1>1. Init /\ [][Next]_vars => []IInv
  BY InitInv, InvStep, PTL
<1>2. IInv /\ [Next]_vars => [B!BatonNext]_(B!batonVars)
  BY InvStep, RallyFollows
<1>3. QED
  BY <1>1, <1>2, InitRefines, PTL DEF Spec, ImplementsBaton, B!BatonSpec
=============================================================================
