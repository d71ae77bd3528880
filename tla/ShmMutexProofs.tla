--------------------------- MODULE ShmMutexProofs ---------------------------
(***************************************************************************)
(* Theorems about ShmMutexSem (shmmutex_sem.c, mksem.c and rmsem.c), for   *)
(* any number of runs of the three programs.                               *)
(***************************************************************************)
EXTENDS ShmMutexSem, TLAPS

USE NoneAssumption, ProgramsAssumption
USE DEF NoneAssumption, ProgramsAssumption, Procs, Goto, Over, AtWork,
  InLoop, Holds

\* The history changes only when a process is ended at work.
LEMMA NobodyEnded ==
    ASSUME Record, \A q \in Users : AtWork(q) => ~Over(q)'
    PROVE  UNCHANGED endedAtWork
BY DEF Record

\* Every process starts at its first call, with nothing open.
LEMMA InitInv == Init => IInv
<1> SUFFICES ASSUME Init PROVE IInv
  OBVIOUS
<1> USE DEF Init, RegionInit
<1>1. \A p \in Users : pc[p] = "shm_open"
  OBVIOUS
<1>2. TypeOK
  BY DEF TypeOK
<1>3. Fresh /\ Opened /\ Counted
  BY <1>1 DEF Fresh, Opened, Counted
<1>4. Unlinkers /\ Mapped
  BY <1>1 DEF Unlinkers, Mapped
<1>5. SameSemaphoreExclusion /\ BoundMeansUnlocked /\ SigbusOnlyWhenShared
  BY <1>1 DEF SameSemaphoreExclusion, BoundMeansUnlocked, SigbusOnlyWhenShared
<1>6. LockedByHolder /\ ClosedToNewcomers
  BY <1>1 DEF LockedByHolder, ClosedToNewcomers
<1>7. QED
  BY <1>2, <1>3, <1>4, <1>5, <1>6 DEF IInv

\* The calls on the region preserve the invariant.
LEMMA RegionStep ==
    ASSUME IInv, NEW p \in Users, SetUpRegion(p, "sem_open"), UNCHANGED semVars,
           Record
    PROVE  IInv'
<1> USE DEF IInv, semVars, regionVars
<1>0. UNCHANGED endedAtWork
  BY NobodyEnded DEF TypeOK, SetUpRegion, shm_open, ftruncate, shm_unlink
<1>1. TypeOK'
  <2> USE DEF TypeOK
  <2>1. CASE shm_open(p)
    BY <1>0, <2>1 DEF shm_open, RegionFor
  <2>2. CASE ftruncate(p, "shm_unlink")
    BY <1>0, <2>2 DEF ftruncate, Mapped
  <2>3. CASE shm_unlink(p, "sem_open")
    BY <1>0, <2>3 DEF shm_unlink
  <2>4. QED
    BY <2>1, <2>2, <2>3 DEF SetUpRegion
<1>2. CASE shm_open(p)
  <2>1. Fresh' /\ Opened' /\ Counted'
    BY <1>0, <1>2 DEF TypeOK, shm_open, Fresh, Opened, Counted
  <2>2. Unlinkers'
    BY <1>0, <1>2 DEF TypeOK, shm_open, Unlinkers
  <2>3. Mapped'
    BY <1>0, <1>2 DEF TypeOK, shm_open, RegionFor, Mapped
  <2>4. SameSemaphoreExclusion' /\ BoundMeansUnlocked' /\ LockedByHolder'
    BY <1>0, <1>2 DEF TypeOK, shm_open, SameSemaphoreExclusion,
                      BoundMeansUnlocked, LockedByHolder
  <2>5. SigbusOnlyWhenShared'
    BY <1>0, <1>2 DEF TypeOK, shm_open, RegionFor, Mapped, SigbusOnlyWhenShared
  <2>6. ClosedToNewcomers'
    BY <1>2 DEF TypeOK, shm_open, RegionFor, Mapped, ClosedToNewcomers
  <2>7. QED
    BY <1>1, <2>1, <2>2, <2>3, <2>4, <2>5, <2>6
<1>3. CASE ftruncate(p, "shm_unlink") \/ shm_unlink(p, "sem_open")
  <2>1. Fresh' /\ Opened' /\ Counted'
    BY <1>0, <1>3 DEF TypeOK, ftruncate, shm_unlink, Fresh, Opened, Counted
  <2>2. Unlinkers'
    BY <1>0, <1>3 DEF TypeOK, ftruncate, shm_unlink, Unlinkers
  <2>3. Mapped' /\ SigbusOnlyWhenShared'
    BY <1>0, <1>3 DEF TypeOK, ftruncate, shm_unlink, Mapped, SigbusOnlyWhenShared
  <2>4. SameSemaphoreExclusion' /\ BoundMeansUnlocked' /\ LockedByHolder'
    BY <1>0, <1>3 DEF TypeOK, ftruncate, shm_unlink, SameSemaphoreExclusion,
                BoundMeansUnlocked, LockedByHolder
  <2>5. ClosedToNewcomers'
    BY <1>3 DEF TypeOK, ftruncate, shm_unlink, Mapped, ClosedToNewcomers
  <2>6. QED
    BY <1>1, <2>1, <2>2, <2>3, <2>4, <2>5
<1>4. QED
  BY <1>2, <1>3 DEF SetUpRegion

\* Opening a semaphore preserves the invariant: a new one is nobody's yet, and
\* one that has a name is unlocked.
LEMMA SemOpenStep == ASSUME IInv, NEW p \in Users, sem_open(p), Record PROVE IInv'
<1> USE DEF IInv, TypeOK, sem_open, OpenSemaphore, SemaphoreFor, regionVars
<1>0. UNCHANGED endedAtWork
  BY NobodyEnded
<1>1. TypeOK'
  BY <1>0
<1>2. Fresh' /\ Opened'
  BY <1>0 DEF Fresh, Opened
<1>3. Counted'
  BY <1>0 DEF Counted, Fresh
<1>4. Unlinkers'
  BY <1>0 DEF Unlinkers
<1>5. Mapped' /\ SigbusOnlyWhenShared'
  BY <1>0 DEF Mapped, SigbusOnlyWhenShared
<1>6. SameSemaphoreExclusion'
  BY <1>0 DEF SameSemaphoreExclusion
<1>7. BoundMeansUnlocked'
  BY <1>0 DEF BoundMeansUnlocked
<1>8. LockedByHolder'
  <2>1. /\ ~Holds(p) /\ ~Holds(p)'
        /\ \A q \in Users \ {p} : sem'[q] = sem[q]
        /\ \A q \in Users : Holds(q)' <=> Holds(q)
    BY <1>0 DEF Counted
  <2>2. sem'[p] \in Users \cup Makers /\ value'[sem'[p]] = 1
        /\ \A s \in Users \cup Makers : s # sem'[p] => value'[s] = value[s]
    BY DEF BoundMeansUnlocked
  <2>3. \A q \in Users : Holds(q) => sem[q] # sem'[p]
    BY DEF Fresh, Counted, BoundMeansUnlocked
  <2> HIDE DEF Holds
  <2>4. \A q, r \in Users : Holds(q)' /\ Holds(r)' /\ sem'[q] = sem'[r] => q = r
    BY <2>1 DEF LockedByHolder
  <2>5. ASSUME NEW s \in Users \cup Makers, NEW o \in Users, sem'[o] = s
        PROVE  value'[s] = 0 <=> \E q \in Users : sem'[q] = s /\ Holds(q)'
    <3>1. CASE s = sem'[p]
      BY <2>1, <2>2, <2>3, <3>1
    <3>2. CASE s # sem'[p]
      <4>1. sem[o] = s /\ value'[s] = value[s]
        BY <2>1, <2>2, <2>5, <3>2
      <4>2. value[s] = 0 <=> \E q \in Users : sem[q] = s /\ Holds(q)
        BY <4>1 DEF LockedByHolder
      <4>3. QED
        BY <2>1, <4>1, <4>2
    <3>3. QED
      BY <3>1, <3>2
  <2>6. QED
    BY <2>4, <2>5 DEF LockedByHolder
<1>9. ClosedToNewcomers'
  BY DEF Opened, Fresh, ClosedToNewcomers
<1>10. QED
  BY <1>1, <1>2, <1>3, <1>4, <1>5, <1>6, <1>7, <1>8, <1>9

\* So does unlinking it, which takes a name away and nothing else.
LEMMA SemUnlinkStep == ASSUME IInv, NEW p \in Users, sem_unlink(p), Record PROVE IInv'
<1> USE DEF IInv, TypeOK, sem_unlink, regionVars
<1>0. UNCHANGED endedAtWork
  BY NobodyEnded
<1>1. TypeOK'
  BY <1>0
<1>2. Fresh' /\ Opened' /\ Counted'
  BY <1>0 DEF Fresh, Opened, Counted
<1>3. Unlinkers' /\ Mapped' /\ SigbusOnlyWhenShared'
  BY <1>0 DEF Unlinkers, Mapped, SigbusOnlyWhenShared
<1>4. SameSemaphoreExclusion' /\ BoundMeansUnlocked'
  BY <1>0 DEF SameSemaphoreExclusion, BoundMeansUnlocked
<1>5. LockedByHolder'
  BY <1>0 DEF LockedByHolder
<1>6. ClosedToNewcomers'
  BY DEF Opened, ClosedToNewcomers
<1>7. QED
  BY <1>1, <1>2, <1>3, <1>4, <1>5, <1>6

\* A process that gets through sem_wait finds nobody at work under its
\* semaphore, which has no name any more.
LEMMA SemWaitStep == ASSUME IInv, NEW p \in Users, sem_wait(p), Record PROVE IInv'
<1> USE DEF IInv, TypeOK, sem_wait, regionVars
<1>0. UNCHANGED endedAtWork
  BY NobodyEnded
<1>1. sem[p] \in Users \cup Makers /\ value[sem[p]] = 1 /\ sem[p] # semName
  BY DEF Opened, Counted, ClosedToNewcomers
<1>2. TypeOK'
  BY <1>0, <1>1
<1>3. Fresh' /\ Opened' /\ Unlinkers'
  BY <1>0 DEF Fresh, Opened, Unlinkers
<1>4. Counted'
  BY <1>0, <1>1 DEF Counted
<1>5. Mapped' /\ SigbusOnlyWhenShared'
  BY <1>0 DEF Mapped, SigbusOnlyWhenShared
<1>6. SameSemaphoreExclusion'
  BY <1>0, <1>1 DEF SameSemaphoreExclusion, Counted
<1>7. BoundMeansUnlocked'
  BY <1>0, <1>1 DEF BoundMeansUnlocked
<1>8. LockedByHolder'
  BY <1>0, <1>1 DEF LockedByHolder
<1>9. ClosedToNewcomers'
  BY DEF ClosedToNewcomers
<1>10. QED
  BY <1>2, <1>3, <1>4, <1>5, <1>6, <1>7, <1>8, <1>9

\* Its sem_post takes the value from 0 to 1: it was the only one at work.
LEMMA SemPostStep == ASSUME IInv, NEW p \in Users, sem_post(p), Record PROVE IInv'
<1> USE DEF IInv, TypeOK, sem_post, regionVars
<1>0. UNCHANGED endedAtWork
  BY NobodyEnded
<1>1. sem[p] \in Users \cup Makers /\ value[sem[p]] = 0 /\ sem[p] # semName
  BY DEF Opened, Counted, ClosedToNewcomers
<1>2. TypeOK'
  BY <1>0, <1>1
<1>3. Fresh' /\ Opened' /\ Unlinkers'
  BY <1>0 DEF Fresh, Opened, Unlinkers
<1>4. Counted'
  <2>1. \A q \in Users \ {p} : Holds(q) => sem[q] # sem[p]
    BY DEF LockedByHolder
  <2>2. ~Holds(p)' /\ \A q \in Users \ {p} : Holds(q)' <=> Holds(q)
    BY <1>0 DEF Counted
  <2>3. \A s \in Users \cup Makers : value'[s] = IF s = sem[p] THEN 1 ELSE value[s]
    BY <1>1
  <2>4. \A q \in endedAtWork' : pc'[q] \in {"exited", "killed"}
    BY <1>0 DEF Counted
  <2> HIDE DEF Holds
  <2>5. \A q \in Users : Holds(q)' => sem'[q] # None /\ value'[sem'[q]] = 0
    BY <2>1, <2>2, <2>3 DEF Counted
  <2>6. QED
    BY <2>3, <2>4, <2>5 DEF Counted
<1>5. Mapped' /\ SigbusOnlyWhenShared'
  BY <1>0 DEF Mapped, SigbusOnlyWhenShared
<1>6. SameSemaphoreExclusion'
  BY <1>0 DEF SameSemaphoreExclusion
<1>7. BoundMeansUnlocked'
  BY <1>0, <1>1 DEF BoundMeansUnlocked
<1>8. LockedByHolder'
  <2>1. ~Holds(p)' /\ Holds(p) /\ \A q \in Users \ {p} : Holds(q)' <=> Holds(q)
    BY <1>0 DEF Counted
  <2>2. \A s \in Users \cup Makers : value'[s] = IF s = sem[p] THEN 1 ELSE value[s]
    BY <1>1
  <2> HIDE DEF Holds
  <2>3. \A q, r \in Users : Holds(q)' /\ Holds(r)' /\ sem'[q] = sem'[r] => q = r
    BY <2>1 DEF LockedByHolder
  <2>4. ASSUME NEW s \in Users \cup Makers, NEW o \in Users, sem'[o] = s
        PROVE  value'[s] = 0 <=> \E q \in Users : sem'[q] = s /\ Holds(q)'
    <3>1. sem[o] = s /\ (value[s] = 0 <=> \E q \in Users : sem[q] = s /\ Holds(q))
      BY <2>4 DEF LockedByHolder
    <3>2. CASE s = sem[p]
      <4>1. \A q \in Users : sem[q] = s /\ Holds(q) => q = p
        BY <2>1, <3>2 DEF LockedByHolder
      <4>2. QED
        BY <2>1, <2>2, <3>2, <4>1
    <3>3. CASE s # sem[p]
      BY <2>1, <2>2, <3>1, <3>3
    <3>4. QED
      BY <3>2, <3>3
  <2>5. QED
    BY <2>3, <2>4 DEF LockedByHolder
<1>9. ClosedToNewcomers'
  BY DEF ClosedToNewcomers
<1>10. QED
  BY <1>2, <1>3, <1>4, <1>5, <1>6, <1>7, <1>8, <1>9

\* The alarm call, the stores and the alarm itself change no semaphore; a
\* process they end at work leaves its semaphore locked.
LEMMA OtherStep ==
    ASSUME IInv, NEW p \in Users, UNCHANGED <<regionVars, semVars>>, Record,
           \/ StartAlarm(p)
           \/ Access(p, "write", "post") /\ UNCHANGED armed
           \/ timer_expired(p)
    PROVE  IInv'
<1> USE DEF IInv, TypeOK, StartAlarm, Access, timer_expired, regionVars, semVars
<1>1. TypeOK'
  BY DEF Record
<1>2. ASSUME NEW q \in Users PROVE Holds(q)' <=> Holds(q)
  BY DEF Record, Counted
<1>3. Fresh' /\ Opened' /\ ClosedToNewcomers'
  BY DEF Fresh, Opened, Unlinkers, ClosedToNewcomers
<1>4. Counted'
  <2>1. \A q \in endedAtWork' : pc'[q] \in {"exited", "killed"}
    BY DEF Record, Counted
  <2> HIDE DEF Holds
  <2>2. \A q \in Users : Holds(q)' => sem'[q] # None /\ value'[sem'[q]] = 0
    BY <1>2 DEF Counted
  <2>3. QED
    BY <2>1, <2>2 DEF Counted
<1>5. SameSemaphoreExclusion'
  BY DEF SameSemaphoreExclusion
<1>6. Unlinkers'
  BY DEF Unlinkers
<1>7. Mapped'
  BY DEF Mapped, Unlinkers
<1>8. SigbusOnlyWhenShared'
  <2>1. CASE Access(p, "write", "post") /\ UNCHANGED armed
    BY <2>1 DEF Mapped, SigbusOnlyWhenShared
  <2>2. CASE StartAlarm(p) \/ timer_expired(p)
    BY <2>2 DEF SigbusOnlyWhenShared
  <2>3. QED
    BY <2>1, <2>2
<1>9. BoundMeansUnlocked'
  BY DEF BoundMeansUnlocked
<1>10. LockedByHolder'
  <2> HIDE DEF Holds
  <2>1. QED
    BY <1>2 DEF LockedByHolder
<1>11. QED
  BY <1>1, <1>3, <1>4, <1>5, <1>6, <1>7, <1>8, <1>9, <1>10

\* mksem binds the name to an unlocked semaphore or does not touch it.
LEMMA MksemStep == ASSUME IInv, NEW p \in Makers, mksem(p), Record PROVE IInv'
<1> USE DEF IInv, TypeOK, mksem, OpenSemaphore, SemaphoreFor, regionVars
<1>0. UNCHANGED endedAtWork
  BY NobodyEnded
<1>1. TypeOK'
  BY <1>0
<1>2. Fresh' /\ Opened'
  BY <1>0 DEF Fresh, Opened
<1>3. Counted'
  BY <1>0 DEF Counted, Fresh, Opened
<1>4. Unlinkers'
  BY <1>0 DEF Unlinkers
<1>5. Mapped' /\ SigbusOnlyWhenShared'
  BY <1>0 DEF Mapped, SigbusOnlyWhenShared
<1>6. SameSemaphoreExclusion' /\ BoundMeansUnlocked'
  BY <1>0 DEF SameSemaphoreExclusion, BoundMeansUnlocked
<1>7. LockedByHolder'
  BY <1>0 DEF LockedByHolder, Fresh
<1>8. ClosedToNewcomers'
  BY DEF Opened, Fresh, ClosedToNewcomers
<1>9. QED
  BY <1>1, <1>2, <1>3, <1>4, <1>5, <1>6, <1>7, <1>8

\* rmsem takes the name away.
LEMMA RmsemStep == ASSUME IInv, NEW p \in Removers, rmsem(p), Record PROVE IInv'
<1> USE DEF IInv, TypeOK, rmsem, regionVars
<1>0. UNCHANGED endedAtWork
  BY NobodyEnded
<1>1. TypeOK'
  BY <1>0
<1>2. Fresh' /\ Opened' /\ Counted'
  BY <1>0 DEF Fresh, Opened, Counted
<1>3. Unlinkers' /\ Mapped' /\ SigbusOnlyWhenShared'
  BY <1>0 DEF Unlinkers, Mapped, SigbusOnlyWhenShared
<1>4. SameSemaphoreExclusion' /\ BoundMeansUnlocked'
  BY <1>0 DEF SameSemaphoreExclusion, BoundMeansUnlocked
<1>5. LockedByHolder'
  BY <1>0 DEF LockedByHolder
<1>6. ClosedToNewcomers'
  BY DEF Opened, ClosedToNewcomers
<1>7. QED
  BY <1>1, <1>2, <1>3, <1>4, <1>5, <1>6

\* Every step preserves the invariant.
LEMMA InvStep == IInv /\ [Next]_vars => IInv'
<1> SUFFICES ASSUME IInv, [Next]_vars PROVE IInv'
  OBVIOUS
<1>1. ASSUME NEW p \in Users, main(p), Record PROVE IInv'
  BY <1>1, RegionStep, SemOpenStep, SemUnlinkStep, SemWaitStep, SemPostStep,
    OtherStep
     DEF main, StartAlarm
<1>2. ASSUME NEW p \in Users, Expire(p), Record PROVE IInv'
  BY <1>2, OtherStep DEF Expire, timer_expired
<1>3. CASE UNCHANGED vars
  BY <1>3
     DEF vars, sharedVars, regionVars, semVars, IInv, TypeOK, Fresh, Opened,
         Counted, Unlinkers, Mapped, SameSemaphoreExclusion, BoundMeansUnlocked,
         LockedByHolder, ClosedToNewcomers, SigbusOnlyWhenShared
<1>4. QED
  BY <1>1, <1>2, <1>3, MksemStep, RmsemStep DEF Next, Terminated

-----------------------------------------------------------------------------

\* The invariant holds throughout, for any number of runs.
THEOREM Invariance == Spec => []IInv
BY InitInv, InvStep, PTL DEF Spec

\* Every variable keeps its type.
THEOREM TypeCorrect == Spec => []TypeOK
<1>1. IInv => TypeOK
  BY DEF IInv
<1>2. QED
  BY <1>1, Invariance, PTL

\* shmmutex_sem.c's "acquire mutual exclusion": processes that share a
\* semaphore never store data at the same time.
THEOREM MutualExclusion == Spec => []SameSemaphoreExclusion
<1>1. IInv => SameSemaphoreExclusion
  BY DEF IInv
<1>2. QED
  BY <1>1, Invariance, PTL

\* No run of shmmutex_sem or mksem ever opens a semaphore that is locked.
THEOREM OnlyUnlockedHaveNames == Spec => []BoundMeansUnlocked
<1>1. IInv => BoundMeansUnlocked
  BY DEF IInv
<1>2. QED
  BY <1>1, Invariance, PTL

\* A semaphore that somebody has is locked exactly when one process is at work
\* under it or was ended there, and of those there is never a second one.
THEOREM NoStrayLock == Spec => []LockedByHolder
<1>1. IInv => LockedByHolder
  BY DEF IInv
<1>2. QED
  BY <1>1, Invariance, PTL

\* Nothing but another run on the same region makes an access fail.
THEOREM NoSigbusAlone == Spec => []SigbusOnlyWhenShared
<1>1. IInv => SigbusOnlyWhenShared
  BY DEF IInv
<1>2. QED
  BY <1>1, Invariance, PTL

\* When every process is over, the names are gone ("So it goes away on exit").
THEOREM NothingLeftBehind == Spec => []NamesGoAway
<1>1. IInv => NamesGoAway
  <2>1. SUFFICES ASSUME IInv, \A p \in Procs : Over(p)
                 PROVE  shmName = None /\ (semName # None => semName \in Makers)
    BY DEF NamesGoAway
  <2>2. \A p \in Users : pc[p] \notin {"ftruncate", "shm_unlink", "sem_unlink"}
    BY <2>1
  <2>3. QED
    BY <2>1, <2>2 DEF IInv, TypeOK, Unlinkers
<1>2. QED
  BY <1>1, Invariance, PTL

-----------------------------------------------------------------------------
(* Refinement: the semaphores are the locks of Mutex.                      *)

\* Steps that leave alone who is at work, the values of the semaphores that
\* somebody has, and who is over are no steps of Mutex.
LEMMA Unseen ==
    ASSUME \A q \in Users : /\ AtWork(q)' <=> AtWork(q)
                            /\ Over(q)' <=> Over(q)
                            /\ AtWork(q) => sem'[q] = sem[q],
           \A s \in Users \cup Makers :
              (value'[s] = 0 /\ \E q \in Users : sem'[q] = s)
                 <=> (value[s] = 0 /\ \E q \in Users : sem[q] = s)
    PROVE  UNCHANGED M!mutexVars
<1>1. Under' = Under
  BY DEF Under
<1>2. Locked' = Locked
  BY DEF Locked
<1>3. Gone' = Gone
  BY DEF Gone
<1>4. QED
  BY <1>1, <1>2, <1>3 DEF M!mutexVars

\* Getting through sem_wait is entering.
LEMMA WaitEnters ==
    ASSUME IInv, NEW p \in Users, sem_wait(p)
    PROVE  M!Enter(p, sem[p]) /\ sem[p] \in Users \cup Makers
<1> USE DEF IInv, TypeOK, sem_wait
<1>1. sem[p] \in Users \cup Makers /\ value[sem[p]] = 1
  BY DEF Opened, Counted
<1>2. \A s \in Users \cup Makers :
         value'[s] = 0 <=> value[s] = 0 \/ s = sem[p]
  BY <1>1
<1>3. Under[p] = None /\ Under' = [Under EXCEPT ![p] = sem[p]]
  BY DEF Under
<1>4. sem[p] \notin Locked /\ Locked' = Locked \cup {sem[p]}
  BY <1>1, <1>2 DEF Locked
<1>5. p \notin Gone /\ Gone' = Gone
  BY DEF Gone
<1>6. QED
  BY <1>1, <1>3, <1>4, <1>5 DEF M!Enter

\* sem_post is leaving.
LEMMA PostLeaves ==
    ASSUME IInv, NEW p \in Users, sem_post(p)
    PROVE  M!Leave(p)
<1> USE DEF IInv, TypeOK, sem_post
<1>1. sem[p] \in Users \cup Makers /\ value[sem[p]] = 0
  BY DEF Opened, Counted
<1>2. \A s \in Users \cup Makers :
         value'[s] = 0 <=> value[s] = 0 /\ s # sem[p]
  BY <1>1
<1>3. Under[p] = sem[p] /\ Under' = [Under EXCEPT ![p] = None]
  BY DEF Under
<1>4. Locked' = Locked \ {sem[p]}
  BY <1>2 DEF Locked
<1>5. Gone' = Gone
  BY DEF Gone
<1>6. QED
  BY <1>1, <1>3, <1>4, <1>5 DEF M!Leave

\* The alarm and a SIGBUS end a process, and leave its semaphore as it is.
LEMMA EndEnds ==
    ASSUME IInv, NEW p \in Users, UNCHANGED semVars, ~Over(p),
           pc' = [pc EXCEPT ![p] = "exited"] \/ pc' = [pc EXCEPT ![p] = "killed"]
    PROVE  M!End(p)
<1> USE DEF IInv, TypeOK, semVars
<1>1. Under' = [Under EXCEPT ![p] = None]
  BY DEF Under
<1>2. Locked' = Locked
  BY DEF Locked
<1>3. p \notin Gone /\ Gone' = Gone \cup {p}
  BY DEF Gone
<1>4. QED
  BY <1>1, <1>2, <1>3 DEF M!End

\* Every other call of a process is none of Mutex's business.
LEMMA MainRefines ==
    ASSUME IInv, IInv', NEW p \in Users, main(p)
    PROVE  [M!Next]_(M!mutexVars)
<1>1. CASE SetUpRegion(p, "sem_open") /\ UNCHANGED semVars
  BY <1>1, Unseen
     DEF SetUpRegion, shm_open, ftruncate, shm_unlink, semVars, IInv, TypeOK
<1>2. CASE sem_open(p)
  <2> USE DEF IInv, TypeOK, sem_open, OpenSemaphore, SemaphoreFor
  <2>1. \A q \in Users : /\ AtWork(q)' <=> AtWork(q)
                         /\ Over(q)' <=> Over(q)
                         /\ AtWork(q) => sem'[q] = sem[q]
    BY <1>2
  <2>2. sem[p] = None \/ value[sem[p]] # 0
    BY <1>2 DEF Opened
  <2>3. value'[sem'[p]] = 1
    BY <1>2 DEF BoundMeansUnlocked
  <2>4. ASSUME NEW s \in Users \cup Makers
        PROVE  (value'[s] = 0 /\ \E q \in Users : sem'[q] = s)
                 <=> (value[s] = 0 /\ \E q \in Users : sem[q] = s)
    BY <1>2, <2>2, <2>3, <2>4 DEF Fresh
  <2>5. QED
    BY <2>1, <2>4, Unseen
<1>3. CASE sem_unlink(p)
  BY <1>3, Unseen DEF sem_unlink, IInv, TypeOK
<1>4. CASE StartAlarm(p) /\ UNCHANGED semVars
  BY <1>4, Unseen DEF StartAlarm, semVars, IInv, TypeOK
<1>5. CASE sem_wait(p)
  BY <1>5, WaitEnters DEF M!Next
<1>6. CASE Access(p, "write", "post") /\ UNCHANGED <<armed, regionVars, semVars>>
  <2>1. CASE region[p] \in page
    BY <1>6, <2>1, Unseen DEF Access, semVars, IInv, TypeOK
  <2>2. CASE region[p] \notin page
    BY <1>6, <2>2, EndEnds DEF Access, M!Next
  <2>3. QED
    BY <2>1, <2>2
<1>7. CASE sem_post(p)
  BY <1>7, PostLeaves DEF M!Next
<1>8. QED
  BY <1>1, <1>2, <1>3, <1>4, <1>5, <1>6, <1>7 DEF main

\* mksem makes a semaphore that nobody has, or none.
LEMMA MksemRefines ==
    ASSUME IInv, IInv', NEW p \in Makers, mksem(p)
    PROVE  UNCHANGED M!mutexVars
<1> USE DEF IInv, TypeOK, mksem, OpenSemaphore, SemaphoreFor
<1>1. \A q \in Users : pc'[q] = pc[q] /\ sem'[q] = sem[q]
  OBVIOUS
<1>2. ASSUME NEW s \in Users \cup Makers, NEW q \in Users, sem[q] = s
      PROVE  value'[s] = value[s]
  BY <1>2 DEF Fresh
<1>3. QED
  BY <1>1, <1>2, Unseen

\* Every step of the programs is a step of Mutex or none.
LEMMA StepRefines ==
    IInv /\ IInv' /\ [Next]_vars => [M!Next]_(M!mutexVars)
<1> SUFFICES ASSUME IInv, IInv', [Next]_vars PROVE [M!Next]_(M!mutexVars)
  OBVIOUS
<1>1. ASSUME NEW p \in Users, Expire(p) PROVE M!Next
  BY <1>1, EndEnds DEF Expire, timer_expired, M!Next
<1>2. ASSUME NEW p \in Removers, rmsem(p) PROVE UNCHANGED M!mutexVars
  BY <1>2, Unseen DEF rmsem, IInv, TypeOK
<1>3. CASE UNCHANGED vars
  BY <1>3 DEF vars, sharedVars, semVars, M!mutexVars, Under, Locked, Gone
<1>4. QED
  BY <1>1, <1>2, <1>3, MainRefines, MksemRefines DEF Next, Terminated

\* shmmutex_sem.c implements Mutex.
THEOREM Refinement == Spec => ImplementsMutex
<1>1. Init => M!Init
  BY DEF Init, RegionInit, M!Init, Under, Locked, Gone
<1>2. QED
  BY <1>1, StepRefines, Invariance, PTL DEF Spec, ImplementsMutex, M!Spec

\* What Mutex promises holds of whatever implements it.
LEMMA MutexInvariant == ImplementsMutex => []M!Excludes
<1> DEFINE Inv == /\ Under \in [Users -> Users \cup Makers \cup {None}]
                  /\ M!Excludes
<1>1. M!Init => Inv
  BY DEF M!Init, M!Excludes
<1>2. Inv /\ [M!Next]_(M!mutexVars) => Inv'
  <2> SUFFICES ASSUME Inv, [M!Next]_(M!mutexVars) PROVE Inv'
    OBVIOUS
  <2>1. ASSUME NEW p \in Users, NEW l \in Users \cup Makers, M!Enter(p, l)
        PROVE  Inv'
    BY <2>1 DEF M!Enter, M!Excludes
  <2>2. ASSUME NEW p \in Users, M!Leave(p) PROVE Inv'
    BY <2>2 DEF M!Leave, M!Excludes
  <2>3. ASSUME NEW p \in Users, M!End(p) PROVE Inv'
    BY <2>3 DEF M!End, M!Excludes
  <2>4. CASE UNCHANGED M!mutexVars
    BY <2>4 DEF M!mutexVars, M!Excludes
  <2>5. QED
    BY <2>1, <2>2, <2>3, <2>4 DEF M!Next
<1>3. QED
  BY <1>1, <1>2, PTL DEF ImplementsMutex, M!Spec

\* shmmutex_sem.c's "acquire mutual exclusion", as Mutex has it.
THEOREM ExcludesAsMutex == Spec => []M!Excludes
BY Refinement, MutexInvariant, PTL
=============================================================================
