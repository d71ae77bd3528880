--------------------------- MODULE RealTimeProofs ---------------------------
(***************************************************************************)
(* Theorems about the programs that show the real-time facilities.         *)
(*                                                                         *)
(* Priorities: Atprio (atprio.1.c, atprio.2.c, atprio.3.c and vsched.c),   *)
(* for any number of runs in parallel, any jobs and any ranges that the    *)
(* system gives its two real-time policies.                                *)
(*                                                                         *)
(* Timers: TimerPrograms (periodic_timer.c, periodic_timer.p4.c and        *)
(* jitter.p4.c), for any length of a second, any intervals asked for, any  *)
(* rate and any size of the buffers.                                       *)
(***************************************************************************)
EXTENDS Atprio, TimerPrograms, FiniteSetTheorems, TLAPS

-----------------------------------------------------------------------------
(* Priorities.                                                             *)

USE PrioAssumption, RunAssumption
USE DEF PrioAssumption, RunAssumption, GoOn, RealTime, Policies

\* What the conversions of vsched.c return.
LEMMA Conversions ==
    ASSUME NEW p \in Policies, NEW v \in Int
    PROVE  Real(p, v) \in Int /\ Virtual(p, v) \in Int
BY DEF Real, Virtual

\* A real-time policy keeps its priorities from 0 up, whatever the minimum:
\* what is set as a virtual priority is read back as the same.
LEMMA RoundTrip ==
    ASSUME NEW p \in RealTime, NEW v \in Int
    PROVE  Virtual(p, Real(p, v)) = v
BY DEF Real, Virtual

\* Whatever sched_setscheduler takes has a priority that is a number.
LEMMA ValidSched ==
    ASSUME NEW p \in Policies, NEW n, Valid([policy |-> p, prio |-> n])
    PROVE  [policy |-> p, prio |-> n] \in {s \in Scheds : Valid(s)}
<1>1. n \in Nat
  BY DEF Valid
<1>2. [policy |-> p, prio |-> n] \in Scheds
  BY <1>1 DEF Scheds
<1>3. QED
  BY <1>2

\* Type invariant with what a run is asked to do.
LEMMA Types ==
    ASSUME AtprioTypeOK
    PROVE  /\ \A a \in Runs : job[a] \in JobType /\ job[a].n \in Int /\ job[a].self \in BOOLEAN
                              /\ job[a].delta \in BOOLEAN /\ job[a].program \in Programs
                              /\ base[a].policy \in Policies /\ base[a].prio \in Nat
                              /\ Target(a) \in Runs \cup {Shell}
           /\ \A t \in Runs \cup {Shell} :
                  /\ sched[t] \in Scheds /\ Valid(sched[t])
                  /\ sched[t].policy \in Policies /\ sched[t].prio \in Nat
<1>1. \A a \in Runs : job[a] \in JobType /\ base[a] \in Scheds
  BY DEF AtprioTypeOK
<1>2. \A t \in Runs \cup {Shell} : sched[t] \in Scheds /\ Valid(sched[t])
  BY DEF AtprioTypeOK
<1>3. \A a \in Runs : Target(a) \in Runs \cup {Shell}
  BY DEF Target
<1>4. \A j \in JobType : j.n \in Int /\ j.self \in BOOLEAN /\ j.delta \in BOOLEAN
                         /\ j.program \in Programs
  BY DEF JobType
<1>5. \A s \in Scheds : s.policy \in Policies /\ s.prio \in Nat
  BY DEF Scheds
<1>6. QED
  BY <1>1, <1>2, <1>3, <1>4, <1>5

-----------------------------------------------------------------------------
(* The steps.                                                              *)

\* A new process has the scheduling of its shell, and nobody else is affected.
LEMMA StartStep == ASSUME Single, NEW a \in Runs, Start(a) PROVE Single'
<1> USE DEF Single, Start, history, locals
<1>1. AtprioTypeOK'
  BY Types DEF AtprioTypeOK
<1>2. \A b \in Runs \ {a} :
        /\ sched'[Target(b)] = sched[Target(b)] /\ sched'[b] = sched[b]
        /\ call'[b] = call[b] /\ base'[b] = base[b] /\ vprio'[b] = vprio[b]
  BY DEF AtprioTypeOK, Target
<1>3. sched'[Target(a)] = base'[a]
  BY DEF AtprioTypeOK, Target
<1>4. AsFound'
  <2> SUFFICES ASSUME NEW b \in Runs \ touched
               PROVE  /\ call'[b] \in {"policy", "getscheduler", "getparam", "set"} =>
                            sched'[Target(b)] = base'[b]
                      /\ call'[b] \in {"policy", "getscheduler", "getparam"} =>
                            job[b].program # "atprio.1"
                      /\ call'[b] \in {"getscheduler", "getparam", "set"} =>
                            policy[b] = WantedPolicy(b)'
                      /\ call'[b] \in {"getscheduler", "getparam"} => job[b].delta
                      /\ call'[b] = "getparam" => looked[b] = base'[b].policy
                      /\ call'[b] = "set" => vprio'[b] = WantedVPrio(b)'
                      /\ call'[b] # "start" /\ ~job[b].delta => vprio'[b] = job[b].n
                      /\ call'[b] \in {"start", "set"} /\ job[b].program = "atprio.1" =>
                            policy[b] = "SCHED_FIFO"
    BY DEF AsFound, Target
  <2>1. CASE b = a
    <3>1. call'[a] = IF job[a].program = "atprio.1" THEN "set" ELSE "policy"
      BY DEF AtprioTypeOK
    <3>2. vprio'[a] = job[a].n
      BY DEF AtprioTypeOK
    <3>3. job[a].program = "atprio.1" => ~job[a].delta /\ policy[a] = "SCHED_FIFO"
      BY <2>1, Types DEF AtprioTypeOK, AsFound
    <3>4. QED
      BY <1>3, <2>1, <3>1, <3>2, <3>3 DEF WantedPolicy, WantedVPrio
  <2>2. CASE b # a
    <3>1. WantedPolicy(b)' = WantedPolicy(b) /\ WantedVPrio(b)' = WantedVPrio(b)
      BY <1>2, <2>2 DEF WantedPolicy, WantedVPrio
    <3>2. QED
      BY <1>2, <2>2, <3>1 DEF AsFound
  <2>3. QED
    BY <2>1, <2>2
<1>5. Undisturbed'
  <2>1. \A b \in Runs \ {a} : Wanted(b)' = Wanted(b)
    BY <1>2 DEF Wanted, WantedPolicy, WantedVPrio
  <2>2. call'[a] \notin {"exec", "command"}
    BY DEF AtprioTypeOK
  <2>3. QED
    BY <1>2, <2>1, <2>2 DEF Undisturbed
<1>6. QED
  BY <1>1, <1>4, <1>5

\* What stays as it is for the other runs when one asks for its policy or its
\* priority.
LEMMA QueryStep ==
    ASSUME Single, NEW a \in Runs, GetPolicy(a) \/ vsched_setprio(a) \/ vsched_getprio(a)
    PROVE  Single'
<1> USE DEF Single, GetPolicy, vsched_setprio, vsched_getprio, history
<1>1. UNCHANGED <<sched, job, changed, history>>
      /\ call' = [call EXCEPT ![a] = call'[a]] /\ call[a] \in {"policy", "getscheduler", "getparam"}
      /\ \A b \in Runs \ {a} : policy'[b] = policy[b] /\ looked'[b] = looked[b]
                               /\ vprio'[b] = vprio[b]
  BY DEF AtprioTypeOK
<1>2. AtprioTypeOK'
  <2>1. Virtual(looked[a], sched[Target(a)].prio) + job[a].n \in Int
    BY Types, Conversions DEF AtprioTypeOK
  <2>2. policy' \in [Runs -> Policies] /\ looked' \in [Runs -> Policies]
    BY Types DEF AtprioTypeOK
  <2>3. vprio' \in [Runs -> Int]
    BY <2>1 DEF AtprioTypeOK
  <2>4. call' \in [Runs -> {"policy", "start", "getscheduler", "getparam", "set",
                          "exec", "command", "exit0", "exit2", "exit3"}]
    BY DEF AtprioTypeOK
  <2>5. QED
    BY <1>1, <2>2, <2>3, <2>4 DEF AtprioTypeOK
<1>3. AsFound'
  <2> SUFFICES ASSUME NEW b \in Runs \ touched
               PROVE  /\ call'[b] \in {"policy", "getscheduler", "getparam", "set"} =>
                            sched[Target(b)] = base[b]
                      /\ call'[b] \in {"policy", "getscheduler", "getparam"} =>
                            job[b].program # "atprio.1"
                      /\ call'[b] \in {"getscheduler", "getparam", "set"} =>
                            policy'[b] = WantedPolicy(b)
                      /\ call'[b] \in {"getscheduler", "getparam"} => job[b].delta
                      /\ call'[b] = "getparam" => looked'[b] = base[b].policy
                      /\ call'[b] = "set" => vprio'[b] = WantedVPrio(b)
                      /\ call'[b] # "start" /\ ~job[b].delta => vprio'[b] = job[b].n
                      /\ call'[b] \in {"start", "set"} /\ job[b].program = "atprio.1" =>
                            policy'[b] = "SCHED_FIFO"
    BY <1>1 DEF AsFound, Target, WantedPolicy, WantedVPrio
  <2>1. CASE b # a
    BY <1>1, <2>1 DEF AtprioTypeOK, AsFound
  <2>2. CASE b = a
    <3>1. sched[Target(a)] = base[a] /\ Target(a) \in Runs \cup {Shell}
      BY <1>1, <2>2, Types DEF AsFound
    <3>2. CASE GetPolicy(a) \/ vsched_setprio(a)
      <4>1. /\ policy'[a] = base[a].policy /\ vprio'[a] = vprio[a]
            /\ call[a] = "policy" /\ call'[a] \in {"exit2", "getscheduler", "set"}
            /\ call'[a] = "getscheduler" => job[a].delta
            /\ call'[a] = "set" => ~job[a].delta
        BY <3>1, <3>2, Types DEF AtprioTypeOK
      <4>2. job[a].program # "atprio.1" /\ (~job[a].delta => vprio[a] = job[a].n)
        BY <2>2, <4>1 DEF AsFound
      <4>3. QED
        BY <2>2, <3>1, <4>1, <4>2 DEF WantedPolicy, WantedVPrio
    <3>3. CASE vsched_getprio(a)
      <4>1. /\ policy'[a] = WantedPolicy(a) /\ job[a].delta /\ job[a].program # "atprio.1"
        BY <2>2, <3>3 DEF AtprioTypeOK, AsFound
      <4>2. CASE call[a] = "getscheduler"
        <5>1. call'[a] = "getparam" /\ looked'[a] = base[a].policy /\ UNCHANGED vprio
          BY <3>1, <3>3, <4>2 DEF AtprioTypeOK
        <5>2. QED
          BY <2>2, <3>1, <4>1, <5>1
      <4>3. CASE call[a] = "getparam"
        <5>1. call'[a] = "set" /\ vprio'[a] = Virtual(looked[a], base[a].prio) + job[a].n
          BY <3>1, <3>3, <4>3 DEF AtprioTypeOK
        <5>2. looked[a] = base[a].policy
          BY <2>2, <4>3 DEF AsFound
        <5>3. vprio'[a] = WantedVPrio(a)
          BY <4>1, <5>1, <5>2 DEF WantedVPrio, VPrio
        <5>4. QED
          BY <2>2, <3>1, <4>1, <5>1, <5>3
      <4>4. QED
        BY <3>3, <4>2, <4>3
    <3>4. QED
      BY <3>2, <3>3
  <2>3. QED
    BY <2>1, <2>2
<1>4. Undisturbed'
  <2>1. call'[a] \notin {"exec", "command"}
    BY DEF AtprioTypeOK
  <2>2. QED
    BY <1>1, <2>1 DEF AtprioTypeOK, Undisturbed, Wanted, WantedPolicy, WantedVPrio
<1>5. QED
  BY <1>2, <1>3, <1>4

\* What the call leaves in the target that a run has, and whom it disturbs.
LEMMA SetStep == ASSUME Single, NEW a \in Runs, Set(a) PROVE Single'
<1> USE DEF Single, Set, locals
<1> DEFINE s == [policy |-> policy[a], prio |-> Real(policy[a], vprio[a])]
           others == {b \in Runs \ {a} : call[b] # "start" /\ Target(b) = Target(a)}
<1>1. UNCHANGED <<job, policy, looked, vprio, changed, began, base>>
      /\ call[a] = "set" /\ (\A b \in Runs \ {a} : call'[b] = call[b])
      /\ Target(a) \in Runs \cup {Shell}
  BY Types DEF AtprioTypeOK
<1>2. CASE GoOn(a, "exit2") /\ UNCHANGED <<sched, touched>>
  <2>1. AtprioTypeOK'
    BY <1>1, <1>2 DEF AtprioTypeOK
  <2>2. call'[a] = "exit2"
    BY <1>2 DEF AtprioTypeOK
  <2>3. AsFound'
    BY <1>1, <1>2, <2>2 DEF AsFound, Target, WantedPolicy, WantedVPrio
  <2>4. Undisturbed'
    BY <1>1, <1>2, <2>2 DEF Undisturbed, Wanted, WantedPolicy, WantedVPrio
  <2>5. QED
    BY <2>1, <2>3, <2>4
<1>3. CASE /\ vsched_setscheduler(Target(a), policy[a], vprio[a])
           /\ Touch(Target(a), a)
           /\ GoOn(a, IF HasCommand(a) THEN "exec" ELSE "exit0")
  <2>1. Valid(s) /\ sched' = [sched EXCEPT ![Target(a)] = s] /\ touched' = touched \cup others
    BY <1>3 DEF vsched_setscheduler, SetScheduler, Touch
  <2>2. call'[a] = IF HasCommand(a) THEN "exec" ELSE "exit0"
    BY <1>3 DEF AtprioTypeOK
  <2>3. AtprioTypeOK'
    <3>1. s \in {x \in Scheds : Valid(x)}
      BY <2>1, ValidSched DEF AtprioTypeOK
    <3>2. sched' \in [Runs \cup {Shell} -> {x \in Scheds : Valid(x)}]
      BY <1>1, <2>1, <3>1 DEF AtprioTypeOK
    <3>3. touched' \in SUBSET Runs
      BY <2>1 DEF AtprioTypeOK
    <3>4. QED
      BY <1>1, <1>3, <3>2, <3>3 DEF AtprioTypeOK
  <2>4. \A b \in Runs \ {a} :
            b \notin touched' /\ call[b] # "start" => sched'[Target(b)] = sched[Target(b)]
    BY <2>1, Types DEF AtprioTypeOK
  <2>5. AsFound'
    <3>1. \A b \in Runs : Target(b)' = Target(b) /\ WantedPolicy(b)' = WantedPolicy(b)
                          /\ WantedVPrio(b)' = WantedVPrio(b)
      BY <1>1 DEF Target, WantedPolicy, WantedVPrio
    <3>2. QED
      BY <1>1, <2>1, <2>2, <2>4, <3>1 DEF AsFound
  <2>6. Undisturbed'
    <3>1. \A b \in Runs : Wanted(b)' = Wanted(b)
      BY <1>1 DEF Wanted, WantedPolicy, WantedVPrio
    <3>2. \A b \in others : ~job[b].self
      BY <1>1 DEF Target
    <3>3. \A b \in Runs \ {a} : sched'[b] = sched[b]
      BY <1>1, <2>1 DEF AtprioTypeOK, Target
    <3>4. CASE HasCommand(a)
      <4>1. job[a].self /\ a \notin touched
        BY <3>4 DEF HasCommand, Undisturbed
      <4>2. policy[a] = WantedPolicy(a) /\ vprio[a] = WantedVPrio(a)
        BY <1>1, <4>1 DEF AsFound
      <4>3. sched'[a] = s
        BY <2>1, <4>1 DEF AtprioTypeOK, Target
      <4>4. s = Wanted(a)
        BY <4>2 DEF Wanted
      <4>5. QED
        BY <1>1, <2>1, <3>1, <3>2, <3>3, <4>1, <4>3, <4>4 DEF Undisturbed
    <3>5. CASE ~HasCommand(a)
      BY <1>1, <2>1, <2>2, <3>1, <3>2, <3>3, <3>5 DEF Undisturbed
    <3>6. QED
      BY <3>4, <3>5
  <2>7. QED
    BY <2>3, <2>5, <2>6
<1>4. QED
  BY <1>2, <1>3

\* Running the command changes no scheduling.
LEMMA ExecStep == ASSUME Single, NEW a \in Runs, Exec(a) PROVE Single'
<1> USE DEF Single, Exec, locals, history
<1>1. UNCHANGED <<sched, job, policy, looked, vprio, base, touched>> /\ call[a] = "exec"
      /\ call'[a] \in {"command", "exit3"} /\ \A b \in Runs \ {a} : call'[b] = call[b]
  BY DEF AtprioTypeOK
<1>2. AtprioTypeOK'
  BY DEF AtprioTypeOK
<1>3. AsFound'
  BY <1>1 DEF AsFound, Target, WantedPolicy, WantedVPrio
<1>4. Undisturbed'
  BY <1>1 DEF Undisturbed, Wanted, WantedPolicy, WantedVPrio
<1>5. QED
  BY <1>2, <1>3, <1>4

\* Another program disturbs those whose target is the shell.
LEMMA RescheduleStep == ASSUME Single, Reschedule PROVE Single'
<1> USE DEF Single, Reschedule, locals
<1>1. PICK s \in Settings : sched' = [sched EXCEPT ![Shell] = s]
  BY DEF SetScheduler
<1>2. UNCHANGED <<job, call, policy, looked, vprio, base, began>>
      /\ touched' = touched \cup {b \in Runs : call[b] # "start" /\ Target(b) = Shell}
      /\ changed' = TRUE
  OBVIOUS
<1>3. AtprioTypeOK'
  <2>1. sched' \in [Runs \cup {Shell} -> {x \in Scheds : Valid(x)}]
    BY <1>1 DEF AtprioTypeOK
  <2>2. QED
    BY <1>2, <2>1 DEF AtprioTypeOK
<1>4. \A b \in Runs : sched'[b] = sched[b]
                      /\ (Target(b) # Shell => sched'[Target(b)] = sched[Target(b)])
  BY <1>1, Types DEF AtprioTypeOK
<1>5. AsFound'
  <2>1. \A b \in Runs : Target(b)' = Target(b) /\ WantedPolicy(b)' = WantedPolicy(b)
                        /\ WantedVPrio(b)' = WantedVPrio(b)
    BY <1>2 DEF Target, WantedPolicy, WantedVPrio
  <2>2. QED
    BY <1>2, <1>4, <2>1 DEF AsFound
<1>6. Undisturbed'
  BY <1>2, <1>4 DEF Undisturbed, Wanted, WantedPolicy, WantedVPrio, Target
<1>7. QED
  BY <1>3, <1>5, <1>6

-----------------------------------------------------------------------------
(* Sums of deltas.  Total is a recursion over a set; what it computes is     *)
(* shown by induction over finite sets.                                      *)

\* Total adds up the deltas of a set in the order in which Pick takes them.
Pick(s) == CHOOSE a \in s : TRUE
Below(g, s) == IF s = {} THEN 0 ELSE job[Pick(s)].n + g[s \ {Pick(s)}]
Sums(g, S) == g = [s \in SUBSET S |-> Below(g, s)]

LEMMA TotalDef == \A S : Total(S) = (CHOOSE g : Sums(g, S))[S]
BY DEF Total, MapThenSumSet, MapThenFoldSet, Sums, Below, Pick

LEMMA Picked == \A s : s # {} => Pick(s) \in s
BY DEF Pick

\* Induction over finite sets: sets that lack a property have a smallest one.
LEMMA SmallestSet ==
    ASSUME NEW S, NEW T, T \subseteq FiniteSubsetsOf(S), T # {}
    PROVE \E s \in T : \A t \in T : ~(t \subseteq s /\ t # s)
<1>1. PICK s \in T : \A t \in T : <<t, s>> \notin StrictSubsetOrdering(S)
  BY FS_StrictSubsetOrderingWellFounded, WFMin
<1>2. QED
  BY <1>1 DEF StrictSubsetOrdering, FiniteSubsetsOf

\* There is only one way to add up.
LEMMA SumsUnique ==
    ASSUME NEW S, IsFiniteSet(S), NEW g, NEW h, Sums(g, S), Sums(h, S),
           NEW s \in SUBSET S
    PROVE  g[s] = h[s]
<1> DEFINE T == {t \in FiniteSubsetsOf(S) : g[t] # h[t]}
<1>1. SUFFICES ASSUME T # {} PROVE FALSE
  BY FS_FiniteSubsetsOfFinite
<1>2. PICK t \in T : \A u \in T : ~(u \subseteq t /\ u # t)
  <2> HIDE DEF T
  <2>1. T \subseteq FiniteSubsetsOf(S)
    BY DEF T
  <2>2. QED
    BY <1>1, <2>1, SmallestSet
<1>3. t \in SUBSET S /\ g[t] # h[t]
  BY DEF FiniteSubsetsOf
<1>4. g[t] = Below(g, t) /\ h[t] = Below(h, t)
  BY <1>3 DEF Sums
<1>5. t # {}
  BY <1>3, <1>4 DEF Below
<1>6. t \ {Pick(t)} \in SUBSET S /\ t \ {Pick(t)} # t
  BY <1>3, <1>5, Picked
<1>7. g[t \ {Pick(t)}] = h[t \ {Pick(t)}]
  BY <1>2, <1>6, FS_FiniteSubsetsOfFinite
<1>8. QED
  BY <1>3, <1>4, <1>5, <1>7 DEF Below

\* What Total computes, a delta at a time.
LEMMA TotalStep ==
    ASSUME NEW S, IsFiniteSet(S)
    PROVE  Total(S) = IF S = {} THEN 0
                      ELSE job[Pick(S)].n + Total(S \ {Pick(S)})
<1> DEFINE Step(s) == IF s = {} THEN 0
                      ELSE job[Pick(s)].n + Total(s \ {Pick(s)})
           T == {s \in FiniteSubsetsOf(S) : Total(s) # Step(s)}
<1>1. SUFFICES ASSUME T # {} PROVE FALSE
  BY FS_FiniteSubsetsOfFinite
<1>2. PICK R \in T : \A u \in T : ~(u \subseteq R /\ u # R)
  <2> HIDE DEF T
  <2>1. T \subseteq FiniteSubsetsOf(S)
    BY DEF T
  <2>2. QED
    BY <1>1, <2>1, SmallestSet
<1>3. R \in SUBSET S /\ IsFiniteSet(R) /\ Total(R) # Step(R)
  BY DEF FiniteSubsetsOf
<1>4. \A s \in SUBSET R : s # R => Total(s) = Step(s)
  BY <1>2, <1>3, FS_FiniteSubsetsOfFinite
<1> DEFINE h == [s \in SUBSET R |-> IF s = R THEN Step(R) ELSE Total(s)]
<1>5. Sums(h, R)
  <2> SUFFICES ASSUME NEW s \in SUBSET R PROVE h[s] = Below(h, s)
    BY DEF Sums
  <2>1. h[s] = Step(s)
    BY <1>4
  <2>2. s # {} => h[s \ {Pick(s)}] = Total(s \ {Pick(s)})
    <3> SUFFICES ASSUME s # {} PROVE s \ {Pick(s)} \in SUBSET R /\ s \ {Pick(s)} # R
      OBVIOUS
    <3> QED
      BY Picked
  <2>3. QED
    BY <2>1, <2>2 DEF Below
<1> HIDE DEF h
<1>6. Sums(CHOOSE g : Sums(g, R), R)
  BY <1>5
<1>7. Total(R) = h[R]
  BY <1>3, <1>5, <1>6, SumsUnique, TotalDef
<1>8. QED
  BY <1>3, <1>7 DEF h

\* Nothing adds up to 0.
LEMMA TotalEmpty == Total({}) = 0
BY TotalStep, FS_EmptySet

\* Adding a run to a set adds its delta, in whatever order they are taken.
LEMMA TotalAdds ==
    ASSUME AtprioTypeOK, NEW S \in SUBSET Runs, IsFiniteSet(S)
    PROVE  /\ Total(S) \in Int
           /\ \A a \in Runs \ S : Total(S \cup {a}) = Total(S) + job[a].n
<1> DEFINE Good(s) == /\ Total(s) \in Int
                      /\ \A a \in Runs \ s :
                             Total(s \cup {a}) = Total(s) + job[a].n
           T == {s \in FiniteSubsetsOf(Runs) : ~Good(s)}
<1>1. SUFFICES ASSUME T # {} PROVE FALSE
  BY DEF FiniteSubsetsOf
<1>2. PICK R \in T : \A u \in T : ~(u \subseteq R /\ u # R)
  <2> HIDE DEF T
  <2>1. T \subseteq FiniteSubsetsOf(Runs)
    BY DEF T
  <2>2. QED
    BY <1>1, <2>1, SmallestSet
<1>3. R \in SUBSET Runs /\ IsFiniteSet(R)
  BY DEF FiniteSubsetsOf
<1>4. \A s \in SUBSET R : s # R => Good(s)
  BY <1>2, <1>3, FS_Subset DEF FiniteSubsetsOf
<1>5. \A a \in Runs : job[a].n \in Int
  BY RunAssumption DEF AtprioTypeOK, JobType
<1>8. ~Good(R)
  OBVIOUS
<1> HIDE DEF T
<1>6. Total(R) \in Int
  <2>1. CASE R = {}
    BY <2>1, TotalEmpty
  <2>2. CASE R # {}
    <3>1. Pick(R) \in R /\ R \ {Pick(R)} # R
      BY <2>2, Picked
    <3>2. Total(R \ {Pick(R)}) \in Int
      BY <1>4, <3>1
    <3>3. Total(R) = job[Pick(R)].n + Total(R \ {Pick(R)})
      BY <1>3, <2>2, TotalStep
    <3>4. QED
      BY <1>3, <1>5, <3>1, <3>2, <3>3
  <2>3. QED
    BY <2>1, <2>2
<1>7. ASSUME NEW a \in Runs \ R
      PROVE  Total(R \cup {a}) = Total(R) + job[a].n
  <2> DEFINE U == R \cup {a}
             b == Pick(U)
  <2>0. IsFiniteSet(U)
    BY <1>3, FS_AddElement
  <2>1. U # {} /\ b \in U
    BY Picked
  <2> HIDE DEF b
  <2>2. Total(U) = job[b].n + Total(U \ {b})
    BY <2>0, <2>1, TotalStep DEF b
  <2>3. CASE b = a
    <3>1. U \ {b} = R
      BY <2>3
    <3>2. job[a].n \in Int
      BY <1>5
    <3> HIDE DEF U
    <3>3. Total(U) = job[a].n + Total(R)
      BY <2>2, <2>3, <3>1
    <3>4. QED
      BY <1>6, <3>2, <3>3 DEF U
  <2>4. CASE b # a
    <3> DEFINE V == R \ {b}
    <3>1. b \in R /\ V \in SUBSET R /\ V # R /\ a \in Runs \ V /\ b \in Runs \ V
      BY <1>3, <2>1, <2>4
    <3>2. U \ {b} = V \cup {a} /\ R = V \cup {b}
      BY <2>4, <3>1
    <3> HIDE DEF V
    <3>3. /\ Total(V) \in Int /\ Total(V \cup {a}) = Total(V) + job[a].n
          /\ Total(V \cup {b}) = Total(V) + job[b].n
      BY <1>4, <3>1
    <3>4. job[a].n \in Int /\ job[b].n \in Int
      BY <1>5, <3>1
    <3> HIDE DEF U
    <3>5. Total(U) = job[b].n + (Total(V) + job[a].n)
      BY <2>2, <3>2, <3>3
    <3>6. Total(R) = Total(V) + job[b].n
      BY <3>2, <3>3
    <3>7. QED
      BY <3>3, <3>4, <3>5, <3>6 DEF U
  <2>5. QED
    BY <2>3, <2>4
<1>9. QED
  BY <1>6, <1>7, <1>8

\* The deltas are fixed when the runs start.
LEMMA TotalKept ==
    ASSUME job' = job, NEW S PROVE Total(S)' = Total(S)
BY DEF Total, MapThenSumSet, MapThenFoldSet

-----------------------------------------------------------------------------
(* Adjustments that overlap.                                               *)

\* The part of the invariant that is about the shell and all its adjusters.
Balanced == NothingInvented /\ Accounted

\* A step that ends no adjustment and leaves the shell alone.
LEMMA BalancedKept ==
    ASSUME Single, Balanced, job' = job, began' = began, Done' = Done,
           changed' = changed, sched'[Shell] = sched[Shell],
           OnlyAdjusted => \A a \in Adjusters : Reading(a)'
    PROVE  Balanced'
<1>1. \A S : Total(S)' = Total(S)
  BY TotalKept
<1>2. Adjusters' = Adjusters /\ (OnlyAdjusted' <=> OnlyAdjusted)
  BY DEF Adjusters, OnlyAdjusted
<1>3. NothingInvented'
  BY <1>1, <1>2 DEF Balanced, NothingInvented
<1>4. Accounted'
  BY <1>2 DEF Balanced, Accounted
<1>5. QED
  BY <1>3, <1>4 DEF Balanced

\* Who adjusts the shell is atprio.3 without a command.
LEMMA AdjusterIsAtprio3 ==
    ASSUME AtprioTypeOK, NEW a \in Adjusters
    PROVE  /\ a \in Runs /\ Target(a) = Shell /\ ~HasCommand(a)
           /\ job[a].program = "atprio.3" /\ job[a].delta
BY DEF Adjusters, Target, HasCommand, AtprioTypeOK, JobType, Programs

\* No step but a successful vsched_setscheduler on the shell touches the sums.
LEMMA QueryBalanced ==
    ASSUME Single, Balanced, NEW a \in Runs,
           Start(a) \/ GetPolicy(a) \/ vsched_setprio(a) \/ vsched_getprio(a)
    PROVE  Balanced'
<1>1. /\ job' = job /\ began' = began /\ changed' = changed
      /\ sched'[Shell] = sched[Shell]
      /\ \A b \in Runs \ {a} : /\ call'[b] = call[b] /\ policy'[b] = policy[b]
                               /\ looked'[b] = looked[b] /\ vprio'[b] = vprio[b]
  BY DEF Single, AtprioTypeOK, Start, GetPolicy, vsched_setprio, vsched_getprio,
         history
<1>2. call[a] # "exit0" /\ call'[a] # "exit0"
  BY DEF Single, AtprioTypeOK, Start, GetPolicy, vsched_setprio, vsched_getprio
<1>3. Done' = Done
  BY <1>1, <1>2 DEF Done, Adjusters
<1>4. ASSUME OnlyAdjusted, NEW b \in Adjusters
      PROVE  Reading(b)'
  <2>1. /\ b \in Runs /\ Target(b) = Shell /\ job[b].program = "atprio.3"
        /\ job[b].delta
    BY <1>4, AdjusterIsAtprio3 DEF Single
  <2>2. Reading(b)
    BY <1>4 DEF Balanced, Accounted
  <2>3. CASE b # a
    BY <1>1, <1>3, <2>1, <2>2, <2>3, TotalKept DEF Reading, Real
  <2>4. PICK S \in SUBSET Done : /\ sched[Shell].policy = began.policy
                                 /\ sched[Shell].prio = began.prio + Total(S)
    BY <1>4 DEF Balanced, NothingInvented
  <2>5. CASE b = a /\ (Start(a) \/ GetPolicy(a) \/ vsched_setprio(a))
    BY <1>1, <2>1, <2>4, <2>5 DEF Reading, Single, AtprioTypeOK, Start, GetPolicy,
                                  vsched_setprio
  <2>6. CASE b = a /\ call[a] = "getscheduler" /\ vsched_getprio(a)
    BY <1>1, <2>1, <2>2, <2>4, <2>6 DEF Reading, Single, AtprioTypeOK, vsched_getprio
  <2>7. CASE b = a /\ call[a] = "getparam" /\ vsched_getprio(a)
    <3>1. /\ began.policy \in RealTime /\ policy[a] = began.policy
          /\ looked[a] = began.policy
      BY <2>2, <2>7 DEF Reading
    <3>2. /\ call'[a] = "set" /\ policy' = policy /\ looked' = looked
          /\ vprio'[a] = Virtual(looked[a], sched[Shell].prio) + job[a].n
      BY <2>1, <2>7 DEF Single, AtprioTypeOK, vsched_getprio
    <3>3. /\ sched[Shell].prio \in Nat /\ job[a].n \in Int
          /\ PrioMin[began.policy] \in Nat
      BY <3>1, Types DEF Single
    <3>4. Real(policy'[a], vprio'[a]) = sched[Shell].prio + job[a].n
      BY <3>1, <3>2, <3>3 DEF Real, Virtual
    <3>5. Real(policy'[a], vprio'[a]) = began.prio + Total(S) + job[a].n
      BY <2>4, <3>4
    <3>6. QED
      BY <1>1, <1>3, <2>7, <3>1, <3>2, <3>5, TotalKept DEF Reading
  <2>8. QED
    BY <2>3, <2>5, <2>6, <2>7 DEF vsched_getprio
<1>5. QED
  BY <1>1, <1>3, <1>4, BalancedKept

\* A call on the run itself, a refused one or an exec.
LEMMA OwnBalanced ==
    ASSUME Single, Balanced, NEW a \in Runs,
           \/ Exec(a)
           \/ Set(a) /\ (job[a].self \/ call'[a] = "exit2")
    PROVE  Balanced'
<1>1. /\ job' = job /\ began' = began /\ changed' = changed
      /\ policy' = policy /\ looked' = looked /\ vprio' = vprio
      /\ \A b \in Runs \ {a} : call'[b] = call[b]
      /\ call[a] \in {"set", "exec"}
      /\ call'[a] \notin {"getscheduler", "getparam", "set"}
  BY DEF Single, AtprioTypeOK, Set, Exec, locals, history
<1>2. sched'[Shell] = sched[Shell]
  BY DEF Single, AtprioTypeOK, Set, Exec, Target, history, SetScheduler,
         vsched_setscheduler
<1>3. a \in Adjusters => call[a] # "exit0" /\ call'[a] # "exit0"
  BY DEF Single, AtprioTypeOK, Set, Exec, Undisturbed, Adjusters
<1>4. Done' = Done
  BY <1>1, <1>3 DEF Done, Adjusters
<1>5. ASSUME OnlyAdjusted, NEW b \in Adjusters
      PROVE  Reading(b)'
  <2>1. Reading(b) /\ b \in Runs
    BY <1>5 DEF Balanced, Accounted, Adjusters
  <2>2. QED
    BY <1>1, <1>4, <2>1, TotalKept DEF Reading, Real
<1>6. QED
  BY <1>1, <1>2, <1>4, <1>5, BalancedKept

\* The shell gets a priority: what the run had read, and its own delta.
LEMMA AdjustBalanced ==
    ASSUME Single, Balanced, NEW a \in Runs, Set(a), ~job[a].self,
           call'[a] # "exit2"
    PROVE  Balanced'
<1>1. /\ job' = job /\ began' = began /\ changed' = changed
      /\ policy' = policy /\ looked' = looked /\ vprio' = vprio
      /\ \A b \in Runs \ {a} : call'[b] = call[b]
      /\ call[a] = "set" /\ call'[a] = "exit0"
      /\ vsched_setscheduler(Shell, policy[a], vprio[a])
  BY DEF Single, AtprioTypeOK, Set, Target, HasCommand, locals
<1>2. /\ Adjusters' = Adjusters /\ (OnlyAdjusted' <=> OnlyAdjusted)
      /\ \A S : Total(S)' = Total(S)
  BY <1>1, TotalKept DEF Adjusters, OnlyAdjusted
<1>3. Done' = IF a \in Adjusters THEN Done \cup {a} ELSE Done
  BY <1>1, <1>2 DEF Done, Adjusters
<1>4. IsFiniteSet(Done) /\ IsFiniteSet(Done') /\ a \notin Done
  <2>1. IsFiniteSet(Done)
    BY DEF Balanced, Accounted
  <2>2. a \notin Done
    BY <1>1 DEF Done
  <2>3. QED
    BY <1>3, <2>1, <2>2, FS_AddElement
<1>5. CASE ~OnlyAdjusted
  BY <1>2, <1>4, <1>5 DEF Balanced, NothingInvented, Accounted
<1>6. CASE OnlyAdjusted
  <2>1. a \in Adjusters /\ Done' = Done \cup {a}
    BY <1>3, <1>6 DEF OnlyAdjusted, Adjusters
  <2>2. \A b \in Adjusters : b \in Runs /\ Reading(b)
    BY <1>6 DEF Balanced, Accounted, Adjusters
  <2>3. PICK S \in SUBSET Done :
             Real(policy[a], vprio[a]) = began.prio + Total(S) + job[a].n
    BY <1>1, <2>1, <2>2 DEF Reading
  <2>4. S \in SUBSET Runs /\ IsFiniteSet(S) /\ a \in Runs \ S
    BY <1>4, FS_Subset DEF Done, Adjusters
  <2>5. Total(S) \in Int /\ Total(S \cup {a}) = Total(S) + job[a].n
    BY <2>4, TotalAdds DEF Single
  <2>6. began.prio \in Nat /\ job[a].n \in Int
    BY Types DEF Single, AtprioTypeOK, Scheds
  <2>7. /\ sched'[Shell].policy = policy[a]
        /\ sched'[Shell].prio = Real(policy[a], vprio[a])
    BY <1>1 DEF vsched_setscheduler, SetScheduler, Single, AtprioTypeOK
  <2>8. policy[a] = began.policy
    BY <1>1, <2>1, <2>2 DEF Reading
  <2>9. sched'[Shell].prio = began.prio + Total(S \cup {a})
    BY <2>3, <2>5, <2>6, <2>7
  <2>10. NothingInvented'
    <3>1. S \cup {a} \in SUBSET Done' /\ S \cup {a} # {}
      BY <2>1
    <3>2. QED
      BY <1>1, <1>2, <2>7, <2>8, <2>9, <3>1 DEF NothingInvented
  <2>11. ASSUME NEW b \in Adjusters PROVE Reading(b)'
    <3>1. CASE b = a
      BY <1>1, <3>1 DEF Reading
    <3>2. CASE b # a
      BY <1>1, <1>2, <2>1, <2>2, <3>2 DEF Reading, Real
    <3>3. QED
      BY <3>1, <3>2
  <2>12. Accounted'
    BY <1>2, <1>4, <2>11 DEF Accounted
  <2>13. QED
    BY <2>10, <2>12 DEF Balanced
<1>7. QED
  BY <1>5, <1>6

-----------------------------------------------------------------------------
(* The theorems.                                                           *)

\* No run has started and nobody has been disturbed.
LEMMA InitSingle == AtprioInit => Single
<1> SUFFICES ASSUME AtprioInit PROVE Single
  OBVIOUS
<1> USE DEF AtprioInit
<1>1. AtprioTypeOK
  <2>1. PICK s \in Settings : /\ sched = [p \in Runs \cup {Shell} |-> s]
                              /\ began = s /\ base = [a \in Runs |-> s]
    OBVIOUS
  <2>2. s \in Scheds /\ Valid(s)
    OBVIOUS
  <2>3. /\ sched \in [Runs \cup {Shell} -> {x \in Scheds : Valid(x)}]
        /\ base \in [Runs -> Scheds] /\ began \in Settings
    BY <2>1, <2>2
  <2>4. /\ policy \in [Runs -> Policies] /\ looked \in [Runs -> Policies]
        /\ vprio \in [Runs -> Int]
    OBVIOUS
  <2>5. call \in [Runs -> {"start"}]
    OBVIOUS
  <2>6. QED
    BY <2>3, <2>4, <2>5 DEF AtprioTypeOK
<1>2. AsFound /\ Undisturbed
  BY DEF AsFound, Undisturbed
<1>3. QED
  BY <1>1, <1>2 DEF Single

\* Every step preserves the invariant.
LEMMA SingleStep == Single /\ [AtprioNext]_atprioVars => Single'
<1> SUFFICES ASSUME Single, [AtprioNext]_atprioVars PROVE Single'
  OBVIOUS
<1>1. ASSUME NEW a \in Runs, main(a) PROVE Single'
  BY <1>1, StartStep, QueryStep, SetStep, ExecStep DEF main
<1>2. CASE UNCHANGED atprioVars
  <2>1. AtprioTypeOK'
    BY <1>2 DEF atprioVars, locals, history, Single, AtprioTypeOK
  <2>2. AsFound' /\ Undisturbed'
    BY <1>2
       DEF atprioVars, locals, history, Single, AsFound, Undisturbed, Target, Wanted,
           WantedPolicy, WantedVPrio
  <2>3. QED
    BY <2>1, <2>2 DEF Single
<1>3. QED
  BY <1>1, <1>2, RescheduleStep DEF AtprioNext, Terminated

\* At the start nothing has been adjusted.
LEMMA AtprioInitInv == AtprioInit => AtprioInv
<1> SUFFICES ASSUME AtprioInit PROVE AtprioInv
  OBVIOUS
<1>1. Single
  BY InitSingle
<1>2. Done = {} /\ \A a \in Runs : call[a] = "start"
  BY DEF AtprioInit, Done, Adjusters
<1>3. sched[Shell] = began /\ began.prio \in Nat
  BY Types, <1>1 DEF AtprioInit, Single, AtprioTypeOK
<1>4. NothingInvented
  BY <1>2, <1>3, TotalEmpty DEF NothingInvented
<1>5. Accounted
  BY <1>2, FS_EmptySet DEF Accounted, Reading, Adjusters
<1>6. QED
  BY <1>1, <1>4, <1>5 DEF AtprioInv

\* Every step preserves the invariant.
LEMMA AtprioInvStep == AtprioInv /\ [AtprioNext]_atprioVars => AtprioInv'
<1> SUFFICES ASSUME AtprioInv, [AtprioNext]_atprioVars PROVE AtprioInv'
  OBVIOUS
<1>1. Single /\ Balanced /\ Single'
  BY SingleStep DEF AtprioInv, Balanced
<1>2. ASSUME NEW a \in Runs, main(a) PROVE Balanced'
  BY <1>1, <1>2, QueryBalanced, OwnBalanced, AdjustBalanced DEF main
<1>3. CASE Reschedule
  <2>1. Done' = Done /\ ~OnlyAdjusted' /\ IsFiniteSet(Done)
    BY <1>1, <1>3 DEF Reschedule, Done, Adjusters, OnlyAdjusted, Balanced,
                      Accounted
  <2>2. NothingInvented'
    BY <2>1 DEF NothingInvented
  <2>3. Accounted'
    BY <2>1 DEF Accounted
  <2>4. QED
    BY <1>1, <2>2, <2>3 DEF AtprioInv
<1>4. CASE UNCHANGED atprioVars
  <2>1. /\ sched' = sched /\ job' = job /\ call' = call /\ policy' = policy
        /\ looked' = looked /\ vprio' = vprio /\ changed' = changed
        /\ began' = began
    BY <1>4 DEF atprioVars, locals, history
  <2>2. Done' = Done
    BY <2>1 DEF Done, Adjusters
  <2>3. OnlyAdjusted => \A a \in Adjusters : Reading(a)'
    BY <1>1, <2>1, <2>2, TotalKept DEF Balanced, Accounted, Reading, Real
  <2>4. Balanced'
    BY <1>1, <2>1, <2>2, <2>3, BalancedKept
  <2>5. QED
    BY <1>1, <2>4 DEF AtprioInv, Balanced
<1>5. QED
  BY <1>1, <1>2, <1>3, <1>4 DEF AtprioNext, Terminated, AtprioInv, Balanced

\* The invariant holds throughout, for any number of runs.
THEOREM AtprioInvariance == AtprioSpec => []AtprioInv
BY AtprioInitInv, AtprioInvStep, PTL DEF AtprioSpec

\* Every variable keeps its type: the scheduling of every process is always one
\* that the system takes.
THEOREM AtprioTypeCorrect == AtprioSpec => []AtprioTypeOK
<1>1. AtprioInv => AtprioTypeOK
  BY DEF AtprioInv, Single
<1>2. QED
  BY AtprioInvariance, <1>1, PTL

\* Adjustments of the shell that overlap may be lost, but its priority is always
\* the sum of some of those that came to their end, one of them at least.
THEOREM SomeAdjustments == AtprioSpec => []NothingInvented
<1>1. AtprioInv => NothingInvented
  BY DEF AtprioInv
<1>2. QED
  BY AtprioInvariance, <1>1, PTL

\* A command runs at the priority that was asked for.
THEOREM CommandsAsAsked == AtprioSpec => []CommandPriority
<1>1. AtprioInv => CommandPriority
  BY DEF AtprioInv, Single, Undisturbed, CommandPriority
<1>2. QED
  BY AtprioInvariance, <1>1, PTL

\* A run whose target nobody else has changed since it started sets exactly what
\* it was asked to, by absolute value or by delta.
THEOREM ExactAdjustment == AtprioSpec => AdjustsExactly
<1> DEFINE Exact == \A a \in Runs \ touched :
               call[a] = "set" /\ call'[a] # "set" /\ call'[a] # "exit2"
                   => sched'[Target(a)] = Wanted(a)
<1>1. AtprioInv /\ AtprioNext => Exact
  <2> SUFFICES ASSUME AtprioInv, AtprioNext, NEW a \in Runs \ touched,
                      call[a] = "set", call'[a] # "set", call'[a] # "exit2"
               PROVE  sched'[Target(a)] = Wanted(a)
    OBVIOUS
  <2>1. Set(a)
    BY DEF AtprioInv, Single, AtprioTypeOK, AtprioNext, main, Start, GetPolicy, vsched_setprio,
           vsched_getprio, Set, Exec, Reschedule, Terminated, atprioVars
  <2>2. vsched_setscheduler(Target(a), policy[a], vprio[a])
    BY <2>1 DEF AtprioInv, Single, AtprioTypeOK, Set
  <2>3. policy[a] = WantedPolicy(a) /\ vprio[a] = WantedVPrio(a)
    BY DEF AtprioInv, Single, AsFound
  <2>4. QED
    BY <2>2, <2>3, Types
       DEF AtprioInv, Single, AtprioTypeOK, vsched_setscheduler, SetScheduler, Wanted
<1>2. AtprioInv /\ [AtprioNext]_atprioVars => [Exact]_atprioVars
  BY <1>1
<1>3. QED
  BY AtprioInvariance, <1>2, PTL DEF AtprioSpec, AdjustsExactly

-----------------------------------------------------------------------------
(* Timers.                                                                 *)

HIDE DEF PrioAssumption, RunAssumption, GoOn, RealTime, Policies

USE SecondAssumption, RequestsAssumption, JitterAssumption
USE DEF SecondAssumption, RequestsAssumption, JitterAssumption, Goto, Over

-----------------------------------------------------------------------------
(* Arithmetic.                                                             *)

\* Quotient and remainder.
LEMMA Division ==
    ASSUME NEW a \in Nat, NEW b \in Nat \ {0}
    PROVE  /\ a \div b \in Nat /\ a % b \in 0 .. b - 1
           /\ a = b * (a \div b) + (a % b)
<1>1. a \div b \in Int /\ a \div b >= 0
  OBVIOUS
<1>2. a % b \in 0 .. b - 1
  OBVIOUS
<1>3. a = b * (a \div b) + (a % b)
  OBVIOUS
<1>4. QED
  BY <1>1, <1>2, <1>3

\* They are the only numbers of the kind.
LEMMA Quotient ==
    ASSUME NEW b \in Nat \ {0}, NEW q \in Nat, NEW r \in 0 .. b - 1
    PROVE  (b * q + r) \div b = q /\ (b * q + r) % b = r
<1> DEFINE a == b * q + r
<1>1. a \in Nat
  OBVIOUS
<1>2. a = b * (a \div b) + (a % b) /\ a \div b \in Nat /\ a % b \in 0 .. b - 1
  BY <1>1, Division
<1> DEFINE d == a \div b   m == a % b
<1>3. b * q + r = b * d + m /\ d \in Nat /\ m \in 0 .. b - 1
  BY <1>2
<1> HIDE DEF d, m, a
<1>4. ~(q >= d + 1)
  <2> SUFFICES ASSUME q >= d + 1 PROVE FALSE
    OBVIOUS
  <2>1. PICK k \in Nat : q = d + 1 + k
    BY <1>3
  <2>2. b * q = b * d + b + b * k /\ b * k >= 0
    BY <1>3, <2>1
  <2>3. QED
    BY <1>3, <2>2
<1>5. ~(d >= q + 1)
  <2> SUFFICES ASSUME d >= q + 1 PROVE FALSE
    OBVIOUS
  <2>1. PICK k \in Nat : d = q + 1 + k
    BY <1>3
  <2>2. b * d = b * q + b + b * k /\ b * k >= 0
    BY <1>3, <2>1
  <2>3. QED
    BY <1>3, <2>2
<1>6. d = q /\ m = r
  BY <1>3, <1>4, <1>5
<1>7. QED
  BY <1>6 DEF d, m, a

\* The interval of jitter.p4.c is not negative.
LEMMA NsecsNat == nsecs \in Nat
<1> DEFINE n == Second \div Hz
<1>1. n \in Nat
  BY Division
<1>2. n % Hz \in Nat /\ n = Hz * (n \div Hz) + (n % Hz) /\ n \div Hz \in Nat
  BY <1>1, Division
<1>3. QED
  BY <1>1, <1>2 DEF nsecs

-----------------------------------------------------------------------------
(* periodic_timer.c and periodic_timer.p4.c.                               *)

\* What concerns jitter.p4.c only holds for as long as another program runs.
LEMMA PeriodicKeeps ==
    ASSUME IInv, program # "jitter", program' = program, UNCHANGED jitterVars
    PROVE  JitterTypeOK' /\ Started' /\ Ticking'
BY DEF IInv, TypeOK, JitterTypeOK, Normalised, jitterVars, Started, Ticking

\* An interval in its parts.
LEMMA IntervalParts ==
    ASSUME IInv
    PROVE  /\ it = [sec |-> it.sec, frac |-> it.frac]
           /\ it.sec \in Nat /\ it.frac \in Int /\ Length(it) = it.sec * Second + it.frac
<1>1. it \in [sec : Nat, frac : Int]
  BY DEF IInv, TypeOK
<1>2. QED
  BY <1>1 DEF Length

\* The options and their normalisation keep the interval that was asked for.
LEMMA OptionsStep ==
    ASSUME IInv, program # "jitter", program' = program, UNCHANGED jitterVars, Options
    PROVE  IInv'
<1> USE DEF Options
<1>1. ASSUME NEW n \in Requests, pc' = "normalise", requested' = n,
             it' = [sec |-> 0, frac |-> n], UNCHANGED <<armed, pending>>
      PROVE  IInv'
  <2>1. it' \in [sec : Nat, frac : Int]
    BY <1>1
  <2>2. TypeOK'
    BY <1>1, <2>1, PeriodicKeeps DEF IInv, TypeOK
  <2>3. it'.sec = 0 /\ Length(it') = requested'
    BY <1>1 DEF Length
  <2>4. Normalised'
    BY <1>1, <2>3 DEF IInv, Normalised, jitterVars
  <2>5. PeriodAsAsked'
    BY <1>1 DEF PeriodAsAsked
  <2>6. QED
    BY <2>2, <2>4, <2>5, PeriodicKeeps DEF IInv
<1>2. CASE pc' \in {"sigaction", "failed"} /\ UNCHANGED <<it, requested, armed, pending>>
  <2>1. TypeOK'
    BY <1>2, PeriodicKeeps DEF IInv, TypeOK
  <2>2. Normalised' /\ PeriodAsAsked'
    BY <1>2 DEF IInv, Normalised, PeriodAsAsked, jitterVars, Options
  <2>3. QED
    BY <2>1, <2>2, PeriodicKeeps DEF IInv
<1>3. QED
  BY <1>1, <1>2

\* Normalising a fraction of more than a second leaves some of it.
LEMMA NormaliseStep ==
    ASSUME IInv, program # "jitter", program' = program, UNCHANGED jitterVars, Normalise
    PROVE  IInv'
<1> USE DEF Normalise
<1> DEFINE s == it.sec   f == it.frac
<1>1. s \in Nat /\ f \in Int /\ Length(it) = s * Second + f
  BY IntervalParts
<1>2. pc' \in {"normalise", "options"} /\ UNCHANGED requested
  OBVIOUS
<1>3. CASE f > Second
  <2>1. it'.sec = s + 1 /\ it'.frac = f - Second /\ it' \in [sec : Nat, frac : Int]
    BY <1>1, <1>3
  <2>2. Length(it') = Length(it)
    <3> HIDE DEF s, f
    <3>1. (s + 1) * Second + (f - Second) = s * Second + f
      BY <1>1
    <3>2. QED
      BY <1>1, <2>1, <3>1 DEF Length
  <2>3. f - Second > 0
    BY <1>1, <1>3
  <2>4. TypeOK'
    BY <1>2, <2>1, PeriodicKeeps DEF IInv, TypeOK
  <2>5. PeriodAsAsked'
    BY <1>2 DEF PeriodAsAsked
  <2>6. pc' = "normalise"
    BY <1>3
  <2>7. Normalised'
    BY <1>2, <2>1, <2>2, <2>3, <2>6 DEF IInv, Normalised, jitterVars
  <2>8. QED
    BY <2>4, <2>5, <2>7, PeriodicKeeps DEF IInv
<1>4. CASE ~(f > Second)
  <2>1. UNCHANGED it /\ it.frac <= Second
    BY <1>1, <1>4
  <2>2. TypeOK'
    BY <1>2, <2>1, PeriodicKeeps DEF IInv, TypeOK
  <2>3. PeriodAsAsked' /\ Normalised'
    BY <1>2, <2>1 DEF IInv, PeriodAsAsked, Normalised, jitterVars
  <2>4. QED
    BY <2>2, <2>3, PeriodicKeeps DEF IInv
<1>5. QED
  BY <1>3, <1>4

\* What the timer refuses is negative or has a whole second for its fraction,
\* and so came from a whole number of them; what it takes did not.
LEMMA InstallStep ==
    ASSUME IInv, program # "jitter", program' = program, UNCHANGED jitterVars, Install
    PROVE  IInv'
<1> USE DEF Install, SetTime, timerVars
<1> DEFINE s == it.sec   f == it.frac
<1>1. s \in Nat /\ f \in Int /\ requested = s * Second + f /\ (s > 0 => f > 0)
  BY IntervalParts DEF IInv, Normalised
<1>2. UNCHANGED <<it, requested, pending>> /\ armed' \in BOOLEAN
      /\ pc \in {"sigaction", "timer_create", "settime"}
      /\ pc' \in {"sigaction", "timer_create", "settime", "suspended", "failed", "refused"}
  BY DEF IInv, TypeOK
<1>3. TypeOK'
  BY <1>2, PeriodicKeeps DEF IInv, TypeOK
<1>4. Normalised'
  BY <1>2 DEF IInv, Normalised, jitterVars
<1>5. PeriodAsAsked'
  <2>1. CASE pc = "settime" /\ f \in 0 .. Second - 1
    <3>1. pc' = "suspended" /\ armed' = (requested # 0)
      BY <2>1 DEF IInv, Normalised
    <3> HIDE DEF s, f
    <3>2. s * Second \in Nat
      BY <1>1
    <3>3. requested \in Nat
      BY <1>1, <2>1, <3>2
    <3>4. ~Refused(requested)
      <4>1. requested % Second = f
        BY <1>1, <2>1, Quotient
      <4>2. f = 0 => requested = 0
        BY <1>1, <2>1, <3>2
      <4>3. QED
        BY <3>3, <4>1, <4>2 DEF Refused
    <3>5. QED
      BY <1>2, <3>1, <3>4 DEF IInv, Normalised, PeriodAsAsked
  <2>2. CASE pc = "settime" /\ f \notin 0 .. Second - 1
    <3>1. pc' = "refused"
      BY <2>2
    <3>2. f <= Second
      BY <2>2 DEF IInv, Normalised
    <3> HIDE DEF s, f
    <3>3. CASE f < 0
      <4>1. s = 0
        BY <1>1, <3>3
      <4>2. requested < 0
        BY <1>1, <3>3, <4>1
      <4>3. Refused(requested)
        BY <4>2 DEF Refused
      <4>4. QED
        BY <1>2, <3>1, <4>3 DEF PeriodAsAsked
    <3>4. CASE f = Second
      <4>1. requested = Second * (s + 1) + 0 /\ s + 1 \in Nat
        BY <1>1, <3>4
      <4>2. requested % Second = 0
        BY <4>1, Quotient
      <4>3. requested > 0
        <5>1. s * Second >= 0
          BY <1>1
        <5>2. QED
          BY <1>1, <3>4, <5>1
      <4>4. Refused(requested)
        BY <4>2, <4>3 DEF Refused
      <4>5. QED
        BY <1>2, <3>1, <4>4 DEF PeriodAsAsked
    <3>5. QED
      BY <1>1, <2>2, <3>2, <3>3, <3>4
  <2>3. CASE pc # "settime"
    BY <2>3 DEF PeriodAsAsked
  <2>4. QED
    BY <2>1, <2>2, <2>3
<1>6. QED
  BY <1>3, <1>4, <1>5, PeriodicKeeps DEF IInv

\* Signals and their handler change nothing of the interval.
LEMMA SignalStep ==
    ASSUME IInv, program # "jitter", program' = program, UNCHANGED jitterVars,
           timer_intr \/ (Expire /\ UNCHANGED requested)
    PROVE  IInv'
<1> USE DEF IInv, timer_intr, Expire, timerVars
<1>1. TypeOK'
  BY PeriodicKeeps DEF TypeOK
<1>2. PeriodAsAsked'
  BY DEF PeriodAsAsked
<1>3. Normalised'
  BY DEF Normalised, jitterVars
<1>4. QED
  BY <1>1, <1>2, <1>3, PeriodicKeeps

-----------------------------------------------------------------------------
(* jitter.p4.c.                                                            *)

\* What concerns the two others only holds for as long as it runs.
LEMMA JitterKeeps ==
    ASSUME program = "jitter", program' = program, Started'
    PROVE  PeriodAsAsked' /\ Normalised'
BY DEF PeriodAsAsked, Normalised, Started

\* The interval that jitter.p4.c sets.
LEMMA JitterInterval ==
    ASSUME IInv, program = "jitter", start_time # -1
    PROVE  /\ it.sec = 0 /\ Length(it) \in Nat
           /\ start_time \in Nat /\ now \in Nat /\ start_time <= now
<1>1. it = [sec |-> 0, frac |-> nsecs] /\ start_time <= now
  BY DEF IInv, Started
<1>2. it.sec = 0 /\ it.frac = nsecs
  BY <1>1
<1>3. 0 * Second = 0
  OBVIOUS
<1>4. Length(it) = 0 + nsecs
  BY <1>2, <1>3 DEF Length
<1>5. Length(it) \in Nat
  BY <1>4, NsecsNat
<1>6. start_time \in Nat /\ now \in Nat
  BY DEF IInv, TypeOK, JitterTypeOK
<1>7. QED
  BY <1>1, <1>2, <1>5, <1>6

\* Up to the call that sets the timer.
LEMMA SetUpStep ==
    ASSUME IInv, program = "jitter", program' = program, UNCHANGED requested,
           JitterMain, pc # "jitter_settime"
    PROVE  IInv'
<1>1. /\ UNCHANGED <<armed, pending, now, left, nsig, this, prev, ta, jbuf>>
      /\ pc \in {"mlockall", "sigaction_INT", "gettime", "create"}
      /\ pc' \in {"sigaction_INT", "gettime", "create", "jitter_settime", "failed"}
      /\ pc' = "create" => pc = "gettime"
      /\ pc = "create" <=> pc' = "jitter_settime" \/ (pc' = "failed" /\ pc = "create")
      /\ IF pc = "gettime" THEN start_time' = now /\ it' = [sec |-> 0, frac |-> nsecs]
                                /\ pc' \in {"create", "failed"}
                           ELSE UNCHANGED <<start_time, it>>
  BY DEF JitterMain, timerVars, jitterVars
<1>2. TypeOK'
  <2>1. [sec |-> 0, frac |-> nsecs] \in [sec : Nat, frac : Int]
    <3> DEFINE n == nsecs
    <3>1. n \in Int
      BY NsecsNat
    <3> HIDE DEF n
    <3>2. [sec |-> 0, frac |-> n] \in [sec : Nat, frac : Int]
      BY <3>1
    <3>3. QED
      BY <3>2 DEF n
  <2>2. it' \in [sec : Nat, frac : Int]
    BY <1>1, <2>1 DEF IInv, TypeOK
  <2>3. JitterTypeOK'
    BY <1>1 DEF IInv, TypeOK, JitterTypeOK
  <2>4. QED
    BY <1>1, <2>2, <2>3 DEF IInv, TypeOK
<1>3. ~armed
  BY <1>1 DEF IInv, Started
<1>4. Started'
  <2>1. CASE pc = "gettime"
    <3>1. start_time' # -1 /\ start_time' <= now'
      BY <1>1, <2>1 DEF IInv, TypeOK, JitterTypeOK
    <3>2. QED
      BY <1>1, <1>3, <2>1, <3>1 DEF IInv, Started
  <2>2. CASE pc # "gettime" /\ start_time = -1
    BY <1>1, <1>3, <2>2 DEF IInv, Started
  <2>3. CASE pc # "gettime" /\ start_time # -1
    <3>1. pc = "create" /\ it = [sec |-> 0, frac |-> nsecs] /\ start_time <= now
      BY <1>1, <2>3 DEF IInv, Started
    <3>2. \A i \in 0 .. TimebufMax - 1 : ta'[i] <= now'
      BY <1>1 DEF IInv, Started
    <3>3. pc' \in {"jitter_settime", "failed"}
      BY <1>1, <3>1
    <3>4. QED
      BY <1>1, <1>3, <2>3, <3>1, <3>2, <3>3 DEF Started
  <2>4. QED
    BY <2>1, <2>2, <2>3
<1>5. Ticking'
  BY <1>1, <1>3 DEF IInv, Ticking
<1>6. QED
  BY <1>2, <1>4, <1>5, JitterKeeps DEF IInv

\* When the timer is set nothing has been counted and nothing is pending, and
\* the whole interval is left.
LEMMA JitterSetTimeStep ==
    ASSUME IInv, program = "jitter", program' = program, UNCHANGED requested,
           JitterMain, pc = "jitter_settime"
    PROVE  IInv'
<1>1. /\ pc' = "suspended" /\ left' = Length(it)
      /\ armed' = armed \/ armed' = (Length(it) # 0)
      /\ UNCHANGED <<it, pending, now, start_time, nsig, this, prev, ta, jbuf>>
  BY DEF JitterMain, SetTime
<1>2. ~armed /\ start_time # -1
  BY DEF IInv, Started
<1>3. Length(it) \in Nat /\ nsig = 0 /\ ~pending /\ start_time <= now
      /\ now \in Nat /\ start_time \in Nat
  BY <1>2, JitterInterval DEF IInv, Ticking
<1>4. TypeOK'
  BY <1>1, <1>3 DEF IInv, TypeOK, JitterTypeOK
<1>5. Started'
  BY <1>1, <1>2 DEF IInv, Started
<1>6. Ticking'
  <2> DEFINE L == Length(it)
  <2>1. L \in Nat /\ L = Length(it') /\ left' = L
    BY <1>1, <1>3
  <2>2. armed' => L # 0
    BY <1>1, <1>2
  <2> HIDE DEF L
  <2>3. (0 + 1) * L - L <= now - start_time
    BY <1>3, <2>1
  <2>4. armed' => L \in 1 .. L
    BY <2>1, <2>2
  <2>5. QED
    BY <1>1, <1>3, <2>1, <2>3, <2>4 DEF Ticking
<1>7. QED
  BY <1>4, <1>5, <1>6, JitterKeeps DEF IInv

\* The handler of the timer's signal counts the one that was pending.
LEMMA ExpirationStep ==
    ASSUME IInv, program = "jitter", program' = program, UNCHANGED requested,
           timer_expiration
    PROVE  IInv'
<1>1. pc = "suspended" /\ pc' \in {"suspended", "exited"} /\ pending /\ pending' = FALSE
      /\ UNCHANGED <<it, armed, now, start_time, left>> /\ nsig' = nsig + 1
  BY DEF timer_expiration
<1>2. JitterTypeOK'
  <2>1. this \in 0 .. TimebufMax - 1 /\ TimebufMax \in Nat \ {0} /\ now \in Nat
        /\ ta \in [0 .. TimebufMax - 1 -> Nat] /\ jbuf \in Seq(Nat)
        /\ prev \in -1 .. TimebufMax - 1
    BY DEF IInv, TypeOK, JitterTypeOK
  <2>2. (this + 1) % TimebufMax \in 0 .. TimebufMax - 1
    <3>1. this + 1 \in Nat
      BY <2>1
    <3>2. QED
      BY <2>1, <3>1, Division
  <2>3. this' \in 0 .. TimebufMax - 1 /\ prev' \in -1 .. TimebufMax - 1
    <3>1. CASE prev >= 0
      BY <2>1, <2>2, <3>1 DEF timer_expiration
    <3>2. CASE ~(prev >= 0)
      BY <2>1, <3>2 DEF timer_expiration
    <3>3. QED
      BY <3>1, <3>2
  <2>4. ta' \in [0 .. TimebufMax - 1 -> Nat]
    BY <2>1 DEF timer_expiration
  <2>5. jbuf' \in Seq(Nat)
    <3>1. CASE prev >= 0
      <4>1. ta[prev] <= now /\ ta[prev] \in Nat
        BY <2>1, <3>1 DEF IInv, Started
      <4>2. now - ta[prev] \in Nat
        BY <2>1, <4>1
      <4>3. jbuf' = jbuf \/ jbuf' = Append(jbuf, now - ta[prev])
        BY <3>1 DEF timer_expiration
      <4> DEFINE d == now - ta[prev]
      <4> HIDE DEF d
      <4>4. Append(jbuf, d) \in Seq(Nat)
        BY <2>1, <4>2 DEF d
      <4>5. QED
        BY <2>1, <4>3, <4>4 DEF d
    <3>2. CASE ~(prev >= 0)
      BY <2>1, <3>2 DEF timer_expiration
    <3>3. QED
      BY <3>1, <3>2
  <2>6. QED
    BY <1>1, <2>3, <2>4, <2>5 DEF IInv, TypeOK, JitterTypeOK
<1>3. TypeOK'
  BY <1>1, <1>2 DEF IInv, TypeOK
<1>4. Started'
  <2>1. \A i \in 0 .. TimebufMax - 1 : ta'[i] <= now'
    BY <1>1 DEF IInv, TypeOK, JitterTypeOK, Started, timer_expiration
  <2>2. start_time # -1
    BY <1>1 DEF IInv, Started
  <2>3. QED
    BY <1>1, <2>1, <2>2 DEF IInv, Started
<1>5. Ticking'
  <2>1. armed
    BY <1>1 DEF IInv, Ticking
  <2>2. nsig + 2 = nsig' + 1
    BY <1>1 DEF IInv, TypeOK, JitterTypeOK
  <2>3. QED
    BY <1>1, <2>1, <2>2 DEF IInv, Ticking
<1>6. QED
  BY <1>3, <1>4, <1>5, JitterKeeps DEF IInv

\* Control-C prints the report.
LEMMA InterruptStep ==
    ASSUME IInv, program = "jitter", program' = program, UNCHANGED requested, Interrupt
    PROVE  IInv'
<1>1. /\ pc' \in {"killed", "exited"}
      /\ UNCHANGED <<it, armed, pending, now, start_time, left, nsig, this, prev, ta, jbuf>>
      /\ pc' = "killed" => pc \in {"mlockall", "sigaction_INT"}
  BY DEF Interrupt, ctrlc, timerVars, jitterVars
<1>2. TypeOK'
  <2>1. JitterTypeOK'
    BY <1>1 DEF IInv, TypeOK, JitterTypeOK
  <2>2. QED
    BY <1>1, <2>1 DEF IInv, TypeOK
<1>3. Started'
  <2>1. pc' = "killed" => start_time = -1
    BY <1>1 DEF IInv, Started
  <2>2. QED
    BY <1>1, <2>1 DEF IInv, Started
<1>4. Ticking'
  BY <1>1 DEF IInv, Ticking
<1>5. QED
  BY <1>2, <1>3, <1>4, JitterKeeps DEF IInv

\* A unit of time takes one from what is left of the interval, or completes it.
LEMMA ClockStep ==
    ASSUME IInv, program = "jitter", program' = program, UNCHANGED requested, Clock
    PROVE  IInv'
<1>1. /\ now' = now + 1 /\ UNCHANGED <<pc, it, armed, start_time, nsig, this, prev, ta, jbuf>>
      /\ ~Over
      /\ IF armed /\ left = 1 THEN pending' /\ pending' \in BOOLEAN /\ left' = Length(it)
                              ELSE UNCHANGED pending
      /\ armed /\ left # 1 => left' = left - 1
      /\ ~armed => UNCHANGED left
  BY DEF Clock, Expire, timerVars
<1>2. armed => left \in 1 .. Length(it) /\ Length(it) \in Nat /\ start_time \in Nat
                /\ start_time # -1
  BY JitterInterval DEF IInv, Ticking, Started
<1>3. now \in Nat /\ nsig \in Nat /\ left \in Nat /\ start_time \in Nat \cup {-1}
  BY DEF IInv, TypeOK, JitterTypeOK
<1>4. TypeOK'
  <2>1. left' \in Nat /\ now' \in Nat /\ pending' \in BOOLEAN
    BY <1>1, <1>2, <1>3 DEF IInv, TypeOK
  <2>2. QED
    BY <1>1, <2>1 DEF IInv, TypeOK, JitterTypeOK
<1>5. Started'
  <2>1. \A n \in Nat : n <= now => n <= now'
    BY <1>1, <1>3
  <2>2. \A i \in 0 .. TimebufMax - 1 : ta'[i] <= now'
    BY <1>1, <2>1 DEF IInv, TypeOK, JitterTypeOK, Started
  <2>3. start_time # -1 => start_time <= now'
    BY <1>3, <2>1 DEF IInv, Started
  <2>4. QED
    BY <1>1, <2>2, <2>3 DEF IInv, Started
<1>6. Ticking'
  <2>1. CASE ~armed
    BY <1>1, <2>1 DEF IInv, Ticking
  <2>2. CASE armed
    <3> DEFINE L == Length(it)   w == IF pending THEN 2 ELSE 1
               v == IF pending' THEN 2 ELSE 1
    <3>1. (nsig + w) * L - left <= now - start_time /\ left \in 1 .. L /\ L \in Nat
      BY <1>2, <2>2 DEF IInv, Ticking
    <3>2. L = Length(it')
      BY <1>1
    <3>3. w \in {1, 2} /\ v \in {1, 2} /\ (left = 1 => v = 2) /\ (left # 1 => v = w)
      BY <1>1, <2>2
    <3> HIDE DEF L, w, v
    <3>4. ASSUME left = 1 PROVE left' \in 1 .. L /\ (nsig + v) * L - left' <= now + 1 - start_time
      <4>1. left' = L
        BY <1>1, <2>2, <3>4 DEF L
      <4>2. (nsig + 2) * L - L <= (nsig + w) * L
        <5>1. (nsig + 2) * L - L = nsig * L + L
          BY <1>3, <3>1
        <5>2. (nsig + 1) * L = nsig * L + L /\ (nsig + 2) * L = nsig * L + L + L
          BY <1>3, <3>1
        <5>3. QED
          BY <1>3, <3>1, <3>3, <5>1, <5>2
      <4>3. nsig * L \in Nat /\ (nsig + w) * L \in Nat /\ (nsig + 2) * L \in Nat
        BY <1>3, <3>1, <3>3
      <4>4. QED
        BY <1>2, <1>3, <2>2, <3>1, <3>3, <3>4, <4>1, <4>2, <4>3
    <3>5. ASSUME left # 1 PROVE left' \in 1 .. L /\ (nsig + v) * L - left' <= now + 1 - start_time
      <4>1. left' = left - 1 /\ v = w
        BY <1>1, <2>2, <3>3, <3>5
      <4>2. (nsig + w) * L \in Nat
        BY <1>3, <3>1, <3>3
      <4>3. QED
        BY <1>2, <1>3, <2>2, <3>1, <3>5, <4>1, <4>2
    <3>6. left' \in 1 .. L /\ (nsig + v) * L - left' <= now + 1 - start_time
      BY <3>4, <3>5
    <3>7. armed' /\ now' = now + 1 /\ start_time' = start_time /\ nsig' = nsig
      BY <1>1, <2>2
    <3>8. /\ left' \in 1 .. Length(it')
          /\ (nsig' + v) * Length(it') - left' <= now' - start_time'
      <4>1. (nsig' + v) * Length(it') = (nsig + v) * L
        BY <3>2, <3>7
      <4>2. now' - start_time' = now + 1 - start_time
        BY <1>2, <1>3, <2>2, <3>7
      <4>3. left' \in 1 .. Length(it')
        BY <3>2, <3>6
      <4>4. QED
        BY <3>6, <4>1, <4>2, <4>3
    <3>9. QED
      BY <3>7, <3>8 DEF Ticking, v
  <2>3. QED
    BY <2>1, <2>2
<1>7. QED
  BY <1>4, <1>5, <1>6, JitterKeeps DEF IInv

-----------------------------------------------------------------------------
(* The theorems.                                                           *)

\* The programs start with the default interval, or with nothing set up.
LEMMA InitInv == Init => IInv
<1> SUFFICES ASSUME Init PROVE IInv
  OBVIOUS
<1> USE DEF Init, JitterInit, TimerInit, PeriodicStart
<1>1. JitterTypeOK
  BY DEF JitterTypeOK
<1>2. TypeOK
  <2>1. it.sec = 0 /\ it.frac \in Int /\ it = [sec |-> 0, frac |-> it.frac]
    OBVIOUS
  <2>2. it \in [sec : Nat, frac : Int]
    BY <2>1
  <2>3. QED
    BY <1>1, <2>2 DEF TypeOK
<1>3. ~armed /\ ~pending /\ nsig = 0 /\ start_time = -1
  OBVIOUS
<1>4. ~(pc \in {"suspended", "handler", "refused", "exited"})
  OBVIOUS
<1>5. PeriodAsAsked
  BY <1>4 DEF PeriodAsAsked
<1>6. Started /\ Ticking
  BY <1>3, <1>1 DEF Started, Ticking, JitterTypeOK
<1>7. Normalised
  BY <1>3 DEF Normalised, Length
<1>8. QED
  BY <1>2, <1>5, <1>6, <1>7 DEF IInv

\* Every step preserves the invariant.
LEMMA InvStep == IInv /\ [Next]_vars => IInv'
<1> SUFFICES ASSUME IInv, [Next]_vars PROVE IInv'
  OBVIOUS
<1>1. ASSUME Periodic, program' = program PROVE IInv'
  BY <1>1, OptionsStep, NormaliseStep, InstallStep, SignalStep DEF Periodic,
    periodic
<1>2. ASSUME Tick, program' = program PROVE IInv'
  BY <1>2, SignalStep DEF Tick
<1>3. ASSUME JitterRun, program' = program PROVE IInv'
  BY <1>3, SetUpStep, JitterSetTimeStep, ExpirationStep DEF JitterRun, jitter
<1>4. ASSUME Time, program' = program PROVE IInv'
  BY <1>4, ClockStep DEF Time
<1>5. ASSUME ControlC, program' = program PROVE IInv'
  BY <1>5, InterruptStep DEF ControlC
<1>6. CASE UNCHANGED vars
  <2>1. JitterTypeOK'
    BY <1>6 DEF vars, jitterVars, IInv, TypeOK, JitterTypeOK
  <2>2. QED
    BY <1>6, <2>1
       DEF vars, timerVars, jitterVars, IInv, TypeOK, PeriodAsAsked, Normalised,
           Started, Ticking
<1>7. QED
  BY <1>1, <1>2, <1>3, <1>4, <1>5, <1>6 DEF Next, Ended, Asleep

\* The invariant holds throughout, whatever is asked for and however long the
\* program runs.
THEOREM Invariance == Spec => []IInv
BY InitInv, InvStep, PTL DEF Spec

\* Every variable keeps its type: no time stamp, index or count leaves its range.
THEOREM TypeCorrect == Spec => []TypeOK
<1>1. IInv => TypeOK
  BY DEF IInv
<1>2. QED
  BY Invariance, <1>1, PTL

\* periodic_timer: the interval asked for, in the unit of the timer, is the one
\* set, and what is refused is the negative ones and the whole numbers of
\* seconds, no more and no less.
THEOREM PeriodCorrect == Spec => []PeriodAsAsked
<1>1. IInv => PeriodAsAsked
  BY DEF IInv
<1>2. QED
  BY Invariance, <1>1, PTL

\* The intervals counted take no more than the time since the start.
LEMMA CountFits == IInv => SignalsFit
<1> SUFFICES ASSUME IInv, start_time # -1
             PROVE  nsig * Length(it) <= now - start_time
  BY DEF SignalsFit
<1> DEFINE L == Length(it)   w == IF pending THEN 2 ELSE 1
<1>1. program = "jitter"
  BY DEF IInv, Normalised
<1>2. L \in Nat /\ start_time \in Nat /\ now \in Nat /\ start_time <= now /\ nsig \in Nat
  BY <1>1, JitterInterval DEF IInv, TypeOK, JitterTypeOK
<1>3. w \in {1, 2}
  OBVIOUS
<1>4. CASE armed
  <2>1. left \in 1 .. L /\ (nsig + w) * L - left <= now - start_time
    BY <1>1, <1>4 DEF IInv, Ticking
  <2> HIDE DEF L, w
  <2>2. (nsig + 1) * L = nsig * L + L /\ (nsig + 2) * L = nsig * L + L + L
    BY <1>2
  <2>3. nsig * L \in Nat /\ (nsig + w) * L \in Nat /\ nsig * L + L <= (nsig + w) * L
    BY <1>2, <1>3, <2>2
  <2>4. nsig * L <= now - start_time
    BY <1>2, <2>1, <2>3
  <2>5. QED
    BY <2>4 DEF L
<1>5. CASE ~armed
  <2>1. nsig = 0
    BY <1>1, <1>5 DEF IInv, Ticking
  <2> HIDE DEF L
  <2>2. nsig * L = 0
    BY <1>2, <2>1
  <2>3. QED
    BY <1>2, <2>2 DEF L
<1>6. QED
  BY <1>4, <1>5

\* jitter.p4.c counts no signal before its interval has passed.
THEOREM NoSignalEarly == Spec => []SignalsFit
BY Invariance, CountFits, PTL
=============================================================================
