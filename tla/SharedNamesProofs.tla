------------------------- MODULE SharedNamesProofs -------------------------
(***************************************************************************)
(* Theorems about SharedNames (shmmutex_semembed.c, shmmutex_flock.c,      *)
(* shm.c and the set-up of msg.c), for any number of processes and any mix *)
(* of the four programs.                                                   *)
(*                                                                         *)
(* What one process may do to the others is stated once, in Discipline;    *)
(* every action is shown to keep to it, and the parts of the invariant     *)
(* follow from it for all the processes that did not move.                 *)
(***************************************************************************)
EXTENDS SharedNames, TLAPS

USE NoneAssumption, MixesAssumption, LeftoverAssumption
USE DEF NoneAssumption, MixesAssumption, LeftoverAssumption, Programs, Goto, Over

\* A step of p leaves the others where they are.
Frame(p) ==
    /\ program' = program
    /\ \A q \in Users \ {p} :
        /\ pc'[q] = pc[q] /\ armed'[q] = armed[q] /\ region'[q] = region[q]
        /\ file'[q] = file[q] /\ child'[q] = child[q]
        /\ childRegion'[q] = childRegion[q] /\ seen'[q] = seen[q]

\* It writes into regions that p has mapped only, and p keeps those.
OwnWrites(p) ==
    /\ \A r \in Users : head'[r] # head[r] => r \in {region'[p], childRegion'[p]}
    /\ region[p] # None => region'[p] = region[p]
    /\ childRegion[p] # None => childRegion'[p] = childRegion[p]

\* p binds the name to a region of its own that is new, and takes it away for
\* good; it gets no region but the one that is bound.
OwnNames(p) ==
    /\ pc'[p] # "shm_open" /\ (HasUnlinked(p) => HasUnlinked(p)')
    /\ \/ shmName' = shmName
       \/ shmName' = None /\ HasUnlinked(p)'
       \/ shmName = None /\ shmName' = p /\ pc[p] = "shm_open"
    /\ region'[p] # region[p] => pc[p] = "shm_open" /\ region'[p] = shmName'
    /\ childRegion'[p] # childRegion[p] =>
            child[p] = "shm_open" /\ childRegion'[p] = shmName /\ pc'[p] = pc[p]
            /\ shmName' = shmName /\ region'[p] = region[p]
    /\ pc[p] = "failed" => pc'[p] = "failed"
    /\ program[p] = "shm" /\ pc'[p] \in {"exited", "failed"} =>
            shmName' = None \/ (pc'[p] = pc[p] /\ shmName' = shmName)

Discipline(p) == Frame(p) /\ OwnWrites(p) /\ OwnNames(p)

\* Nobody is at its first call with a region or a child.
LEMMA FreshKept ==
    ASSUME IInv, TypeOK', NEW p \in Users, Discipline(p)
    PROVE  Fresh'
<1> USE DEF IInv, Fresh, Discipline, Frame, OwnNames
<1> SUFFICES ASSUME NEW q \in Users, pc'[q] = "shm_open", NEW r \in Users
             PROVE  /\ region'[q] = None /\ shmName' # q
                    /\ q # region'[r] /\ q # childRegion'[r]
  OBVIOUS
<1>1. q # p /\ pc[q] = "shm_open" /\ region[q] = None
  OBVIOUS
<1>2. shmName' # q
  BY <1>1
<1>3. q # region'[r] /\ q # childRegion'[r]
  BY <1>1, <1>2
<1>4. QED
  BY <1>1, <1>2, <1>3

\* The name stays with the runs of shm.c while nobody takes it away.
LEMMA NamedKept ==
    ASSUME IInv, TypeOK', NEW p \in Users, Discipline(p)
    PROVE  Named'
<1> USE DEF IInv, Discipline
<1> SUFFICES ASSUME \A q \in Users : ~HasUnlinked(q)',
                    NEW q \in Users, program'[q] = "shm", region'[q] # None
             PROVE  shmName' = region'[q]
  BY DEF Named
<1>1. \A r \in Users : ~HasUnlinked(r)
  BY DEF Frame, OwnNames, HasUnlinked
<1>2. region[q] # None => shmName = region[q]
  BY <1>1 DEF Named, Frame
<1>3. shmName' = shmName \/ shmName = None
  BY DEF OwnNames
<1>4. CASE region'[q] = region[q]
  BY <1>2, <1>3, <1>4 DEF TypeOK, OwnNames
<1>5. CASE region'[q] # region[q]
  BY <1>5 DEF Frame, OwnNames
<1>6. QED
  BY <1>4, <1>5

\* A run that is over has left no name for its region, and nobody binds the
\* name to that region again.
LEMMA CleansUpKept ==
    ASSUME IInv, TypeOK', NEW p \in Users, Discipline(p)
    PROVE  CleansUp'
<1> USE DEF IInv, Discipline, Frame, OwnNames
<1> SUFFICES ASSUME NEW q \in Users, program'[q] = "shm", pc'[q] \in {"exited", "failed"},
                    shmName' # None
             PROVE  shmName' # region'[q]
  BY DEF CleansUp
<1>1. pc'[q] = pc[q] /\ region'[q] = region[q] /\ program[q] = "shm"
  OBVIOUS
<1>2. shmName' = shmName \/ (shmName' = p /\ pc[p] = "shm_open")
  OBVIOUS
<1>3. CASE shmName' = shmName
  BY <1>1, <1>3 DEF CleansUp
<1>4. CASE shmName' = p /\ pc[p] = "shm_open"
  BY <1>1, <1>4 DEF Fresh
<1>5. QED
  BY <1>2, <1>3, <1>4

\* The executed image got the region that was bound, and if that was not its
\* parent's then somebody had taken the name away.
LEMMA OwnRegionKept ==
    ASSUME IInv, TypeOK', NEW p \in Users, Discipline(p)
    PROVE  OwnRegion'
<1> USE DEF IInv, Discipline
<1> SUFFICES ASSUME NEW q \in Users, childRegion'[q] \notin {None, region'[q]}
             PROVE  pc'[q] = "failed" \/ \E r \in Users \ {q} : HasUnlinked(r)'
  BY DEF OwnRegion
<1>1. \A r \in Users : HasUnlinked(r) => HasUnlinked(r)'
  BY DEF Frame, OwnNames, HasUnlinked
<1>2. pc[q] = "failed" => pc'[q] = "failed"
  BY DEF Frame, OwnNames
<1>3. CASE childRegion'[q] = childRegion[q]
  <2>1. region'[q] = region[q]
    BY <1>3 DEF Frame, OwnNames, Forked, TypeOK
  <2>2. pc[q] = "failed" \/ \E r \in Users \ {q} : HasUnlinked(r)
    BY <1>3, <2>1 DEF OwnRegion
  <2>3. QED
    BY <1>1, <1>2, <2>2
<1>4. CASE childRegion'[q] # childRegion[q]
  <2>1. /\ q = p /\ child[q] = "shm_open" /\ childRegion'[q] = shmName
        /\ region'[q] = region[q]
    BY <1>4 DEF Frame, OwnNames
  <2>2. program[q] = "shm" /\ region[q] # None
    BY <2>1 DEF Forked, Opened
  <2>3. PICK r \in Users : HasUnlinked(r)
    BY <1>4, <2>1, <2>2 DEF Named
  <2>4. CASE r = q
    BY <1>2, <2>1, <2>2, <2>3, <2>4 DEF HasUnlinked, Forked, ChildOver
  <2>5. QED
    BY <1>1, <2>3, <2>4
<1>5. QED
  BY <1>3, <1>4

\* A region that no other process has mapped after the step was as little
\* shared before, and nobody but its owner has written into it.
LEMMA AloneBefore ==
    ASSUME IInv, TypeOK', NEW p \in Users, Discipline(p),
           NEW q \in Users \ {p}, Alone(q)'
    PROVE  Alone(q) /\ (region[q] # None => head'[region[q]] = head[region[q]])
<1> USE DEF IInv, Discipline, Frame
<1>1. \A r \in Users \ {q} : ~Maps(r, region[q])'
  BY DEF Alone, Maps
<1>2. Alone(q)
  BY <1>1 DEF Alone, Maps, OwnWrites
<1>3. region[q] # None => head'[region[q]] = head[region[q]]
  BY <1>1 DEF TypeOK, Maps, OwnWrites
<1>4. QED
  BY <1>2, <1>3

\* What the properties that speak of a region nobody else has owe to p itself.
OwnExact(p) ==
    program[p] = "semembed" /\ region[p] # None /\ Alone(p) =>
        /\ pc[p] \in {"write", "post"} => head[region[p]] = 0
        /\ pc[p] \in {"alarm", "wait"} => head[region[p]] = 1

OwnText(p) ==
    /\ program[p] = "shm" /\ pc[p] \in {"await", "look"} /\ child[p] = "exited"
          /\ childRegion[p] = region[p] /\ Alone(p) => head[region[p]] = PostExecData
    /\ pc[p] \in {"cleanup", "exited"} /\ child[p] = "exited"
          /\ childRegion[p] = region[p] /\ Alone(p) => seen[p] = PostExecData

\* For the processes that did not move they hold as before.
LEMMA ContentsKept ==
    ASSUME IInv, TypeOK', NEW p \in Users, Discipline(p), OwnExact(p)', OwnText(p)'
    PROVE  ExactWhenAlone' /\ ChildText' /\ SeesChild'
<1> USE DEF IInv, Discipline, Frame
<1>1. ASSUME NEW q \in Users PROVE OwnExact(q)'
  <2>1. CASE q = p
    BY <2>1
  <2>2. CASE q # p
    <3>1. OwnExact(q)
      BY DEF ExactWhenAlone, OwnExact
    <3>2. Alone(q)' => Alone(q) /\ (region[q] # None => head'[region[q]] = head[region[q]])
      BY <2>2, AloneBefore
    <3>3. QED
      BY <2>2, <3>1, <3>2 DEF OwnExact
  <2>3. QED
    BY <2>1, <2>2
<1>2. ASSUME NEW q \in Users PROVE OwnText(q)'
  <2>1. CASE q = p
    BY <2>1
  <2>2. CASE q # p
    <3>1. OwnText(q)
      BY DEF ChildText, SeesChild, OwnText
    <3>2. Alone(q)' => Alone(q) /\ (region[q] # None => head'[region[q]] = head[region[q]])
      BY <2>2, AloneBefore
    <3>3. program[q] = "shm" /\ child[q] = "exited" => region[q] # None
      BY DEF Opened
    <3>4. QED
      BY <2>2, <3>1, <3>2, <3>3 DEF OwnText
  <2>3. QED
    BY <2>1, <2>2
<1>3. ExactWhenAlone'
  BY <1>1 DEF OwnExact, ExactWhenAlone
<1>4. ChildText' /\ SeesChild'
  BY <1>2 DEF OwnText, ChildText, SeesChild
<1>5. QED
  BY <1>3, <1>4

\* Opening the region keeps the discipline, whichever program does it.
LEMMA OpenDiscipline ==
    ASSUME IInv, NEW p \in Users, OpenRegion(p), program' = program,
           UNCHANGED <<file, shmVars>>
    PROVE  Discipline(p)
<1> USE DEF IInv, TypeOK, OpenRegion, shm_open, RegionFor, Put, shmVars
<1>1. Frame(p)
  BY DEF Frame
<1>2. OwnWrites(p)
  BY DEF OwnWrites, Fresh, Forked
<1>3. OwnNames(p)
  BY DEF OwnNames, HasUnlinked
<1>4. QED
  BY <1>1, <1>2, <1>3 DEF Discipline

SetUp == {"shm_open", "ftruncate", "shm_unlink"}

\* So does any other step of a program that is not shm.c: it goes on, stores
\* into its own region and has only shm_unlink to take the name away.
LEMMA LocalDiscipline ==
    ASSUME IInv, NEW p \in Users, NEW to, Goto(p, to), program' = program,
           program[p] # "shm", pc[p] # "failed", UNCHANGED <<region, shmVars>>,
           \A q \in Users \ {p} : armed'[q] = armed[q] /\ file'[q] = file[q],
           \A r \in Users : head'[r] # head[r] => r = region[p],
           to # "shm_open", pc[p] \notin SetUp => to \notin SetUp,
           \/ shmName' = shmName
           \/ shmName' = None /\ pc[p] = "shm_unlink" /\ to \notin SetUp
                /\ program[p] \in {"semembed", "flock"}
    PROVE  Discipline(p)
<1> USE DEF IInv, TypeOK, shmVars, SetUp
<1>1. Frame(p)
  BY DEF Frame
<1>2. OwnWrites(p)
  BY DEF OwnWrites
<1>3. HasUnlinked(p) => HasUnlinked(p)'
  BY DEF HasUnlinked
<1>4. shmName' = shmName \/ (shmName' = None /\ HasUnlinked(p)')
  BY DEF HasUnlinked
<1>5. OwnNames(p)
  BY <1>3, <1>4 DEF OwnNames
<1>6. QED
  BY <1>1, <1>2, <1>5 DEF Discipline

-----------------------------------------------------------------------------
(* shmmutex_semembed.c.                                                    *)

\* The semaphore counts as the only process in the region makes it count.
LEMMA SemembedStep ==
    ASSUME IInv, NEW p \in Users, Semembed(p), program' = program
    PROVE  IInv'
<1> USE DEF IInv, Semembed, lockVars, shmVars, regionVars
<1>1. PICK to : Goto(p, to)
  BY DEF semembed, OpenRegion, shm_open, ftruncate, shm_unlink, StartAlarm,
         Access, sem_init, sem_wait, sem_post, OnSemaphore
<1>2. TypeOK'
  <2> USE DEF TypeOK
  <2>1. CASE OpenRegion(p)
    BY <2>1 DEF OpenRegion, shm_open, RegionFor, Put
  <2>2. CASE ftruncate(p, "shm_unlink") /\ UNCHANGED head
    BY <2>2 DEF ftruncate, Opened
  <2>3. CASE (shm_unlink(p, "sem_init") \/ StartAlarm(p)) /\ UNCHANGED head
    BY <2>3 DEF shm_unlink, StartAlarm
  <2>4. CASE Access(p, "write", "post") /\ UNCHANGED <<armed, regionVars, head>>
    BY <2>4 DEF Access
  <2>5. CASE sem_init(p)
    BY <2>5 DEF sem_init, OnSemaphore, Access, Mapped, Put
  <2>6. CASE sem_wait(p)
    BY <2>6 DEF sem_wait, OnSemaphore, Access, Mapped, Put
  <2>7. CASE sem_post(p)
    BY <2>7 DEF sem_post, OnSemaphore, Access, Mapped, Put
  <2>8. QED
    BY <2>1, <2>2, <2>3, <2>4, <2>5, <2>6, <2>7 DEF semembed
<1>3. Discipline(p)
  <2> USE DEF TypeOK, SetUp
  <2>1. CASE OpenRegion(p)
    BY <2>1, OpenDiscipline
  <2>2. CASE ~OpenRegion(p)
    <3>1. UNCHANGED region /\ \A q \in Users \ {p} : armed'[q] = armed[q]
      BY <2>2 DEF semembed, ftruncate, shm_unlink, StartAlarm, Access,
                  sem_init, sem_wait, sem_post, OnSemaphore
    <3>2. \A r \in Users : head'[r] # head[r] => r = region[p]
      BY <2>2 DEF semembed, sem_init, sem_wait, sem_post, OnSemaphore, Put
    <3>3. /\ pc[p] # "failed" /\ to # "shm_open" /\ (pc[p] \notin SetUp => to \notin SetUp)
          /\ \/ shmName' = shmName
             \/ shmName' = None /\ pc[p] = "shm_unlink" /\ to \notin SetUp
      BY <1>1, <2>2 DEF semembed, ftruncate, shm_unlink, StartAlarm, Access,
                  sem_init, sem_wait, sem_post, OnSemaphore
    <3>4. QED
      BY <1>1, <3>1, <3>2, <3>3, LocalDiscipline
  <2>3. QED
    BY <2>1, <2>2
<1>4. Opened' /\ Forked' /\ HeldAtWorkOnly' /\ LeftoverGone'
  <2> USE DEF TypeOK, Discipline, Frame
  <2>1. pc'[p] # "mq_open" /\ (pc'[p] = "ftruncate" => region'[p] # None)
    BY <1>1
       DEF semembed, OpenRegion, RegionFor, shm_open, ftruncate, shm_unlink,
           StartAlarm, Access, sem_init, sem_wait, sem_post, OnSemaphore
  <2>2. Opened'
    BY <1>3, <2>1 DEF Opened
  <2>3. Forked'
    BY <1>3 DEF Forked, ChildOver
  <2>4. HeldAtWorkOnly'
    BY <1>3 DEF Opened, HeldAtWorkOnly
  <2>5. LeftoverGone'
    BY <1>3, <2>1 DEF LeftoverGone
  <2>6. QED
    BY <2>2, <2>3, <2>4, <2>5
<1>5. OwnExact(p)'
  <2> SUFFICES ASSUME region'[p] # None, Alone(p)', pc'[p] \in {"alarm", "wait", "write", "post"}
               PROVE  /\ pc'[p] \in {"write", "post"} => head'[region[p]] = 0
                      /\ pc'[p] \in {"alarm", "wait"} => head'[region[p]] = 1
                      /\ region'[p] = region[p]
    BY DEF OwnExact
  <2>1. region'[p] = region[p]
    BY DEF TypeOK, semembed, OpenRegion, shm_open, ftruncate, shm_unlink,
           StartAlarm, Access, sem_init, sem_wait, sem_post, OnSemaphore
  <2>2. Alone(p)
    BY <1>3, <2>1 DEF TypeOK, Discipline, Frame, Alone, Maps
  <2>3. /\ pc[p] \in {"write", "post"} => head[region[p]] = 0
        /\ pc[p] \in {"alarm", "wait"} => head[region[p]] = 1
    BY <2>1, <2>2 DEF ExactWhenAlone
  <2>4. CASE OpenRegion(p) \/ ftruncate(p, "shm_unlink") \/ shm_unlink(p, "sem_init")
    BY <2>4 DEF TypeOK, OpenRegion, shm_open, ftruncate, shm_unlink
  <2>5. CASE StartAlarm(p) /\ UNCHANGED head
    BY <2>1, <2>3, <2>5 DEF TypeOK, StartAlarm
  <2>6. CASE Access(p, "write", "post") /\ UNCHANGED head
    BY <2>1, <2>3, <2>6 DEF TypeOK, Access
  <2>7. CASE sem_init(p)
    BY <2>1, <2>3, <2>7 DEF TypeOK, sem_init, OnSemaphore, Access, Mapped, Put
  <2>8. CASE sem_wait(p)
    BY <2>1, <2>3, <2>8 DEF TypeOK, sem_wait, OnSemaphore, Access, Mapped, Put
  <2>9. CASE sem_post(p)
    BY <2>1, <2>3, <2>9 DEF TypeOK, sem_post, OnSemaphore, Access, Mapped, Put
  <2>10. QED
    BY <2>4, <2>5, <2>6, <2>7, <2>8, <2>9 DEF semembed
<1>6. OwnText(p)'
  BY DEF OwnText, Forked
<1>7. QED
  BY <1>2, <1>3, <1>4, <1>5, <1>6, FreshKept, NamedKept, CleansUpKept,
    OwnRegionKept, ContentsKept

-----------------------------------------------------------------------------
(* shmmutex_flock.c.                                                       *)

\* The lock is taken when it is free, by a process that has the file open, and
\* given back by the process at work.
LEMMA FlockStep ==
    ASSUME IInv, NEW p \in Users, Flock(p), program' = program
    PROVE  IInv'
<1> USE DEF IInv, Flock, lockVars, shmVars, regionVars
<1>1. PICK to : Goto(p, to)
  BY DEF flock, OpenRegion, shm_open, ftruncate, shm_unlink, StartAlarm, Access,
         open, unlink, Lock, Store, Unlock
<1>2. TypeOK'
  <2> USE DEF TypeOK
  <2>1. CASE OpenRegion(p) /\ UNCHANGED lockVars
    BY <2>1 DEF OpenRegion, shm_open, RegionFor, Put
  <2>2. CASE ftruncate(p, "shm_unlink") /\ UNCHANGED <<head, lockVars>>
    BY <2>2 DEF ftruncate, Opened
  <2>3. CASE (shm_unlink(p, "open") \/ StartAlarm(p)) /\ UNCHANGED <<head, lockVars>>
    BY <2>3 DEF shm_unlink, StartAlarm
  <2>4. CASE open(p) \/ unlink(p)
    BY <2>4 DEF open, unlink, FileFor
  <2>5. CASE Lock(p)
    BY <2>5 DEF Lock
  <2>6. CASE Store(p)
    BY <2>6 DEF Store, Access, Mapped, Put, Release, AAAA
  <2>7. CASE Unlock(p)
    BY <2>7 DEF Unlock, Release
  <2>8. QED
    BY <2>1, <2>2, <2>3, <2>4, <2>5, <2>6, <2>7 DEF flock
<1>3. Discipline(p)
  <2> USE DEF TypeOK, SetUp
  <2>1. CASE OpenRegion(p) /\ UNCHANGED lockVars
    BY <2>1, OpenDiscipline
  <2>2. CASE ~OpenRegion(p)
    <3>1. /\ UNCHANGED region
          /\ \A q \in Users \ {p} : armed'[q] = armed[q] /\ file'[q] = file[q]
      BY <2>2 DEF flock, ftruncate, shm_unlink, StartAlarm, Access,
                  open, unlink, Lock, Store, Unlock
    <3>2. \A r \in Users : head'[r] # head[r] => r = region[p]
      BY <2>2 DEF flock, open, unlink, Lock, Store, Unlock, Put
    <3>3. /\ pc[p] # "failed" /\ to # "shm_open" /\ (pc[p] \notin SetUp => to \notin SetUp)
          /\ \/ shmName' = shmName
             \/ shmName' = None /\ pc[p] = "shm_unlink" /\ to \notin SetUp
      BY <1>1, <2>2 DEF flock, ftruncate, shm_unlink, StartAlarm, Access,
                  open, unlink, Lock, Store, Unlock
    <3>4. QED
      BY <1>1, <3>1, <3>2, <3>3, LocalDiscipline
  <2>3. QED
    BY <2>1, <2>2 DEF flock, open, unlink, Lock, Store, Unlock, OpenRegion,
      shm_open, Access
<1>4. HeldAtWorkOnly'
  <2> USE DEF TypeOK, HeldAtWorkOnly, Opened
  <2>1. CASE /\ \/ OpenRegion(p) \/ ftruncate(p, "shm_unlink")
                \/ shm_unlink(p, "open") \/ StartAlarm(p)
             /\ UNCHANGED lockVars
    BY <2>1 DEF OpenRegion, shm_open, ftruncate, shm_unlink, StartAlarm
  <2>2. CASE open(p) \/ unlink(p)
    BY <2>2 DEF open, unlink
  <2>3. CASE Lock(p)
    BY <2>3 DEF Lock
  <2>4. CASE Store(p)
    BY <2>4 DEF Store, Access, Mapped, Release
  <2>5. CASE Unlock(p)
    BY <2>5 DEF Unlock, Release
  <2>6. QED
    BY <2>1, <2>2, <2>3, <2>4, <2>5 DEF flock
<1>5. Opened' /\ Forked' /\ LeftoverGone'
  <2> USE DEF TypeOK, Discipline, Frame
  <2>1. pc'[p] # "mq_open" /\ (pc'[p] = "ftruncate" => region'[p] # None)
    BY <1>1
       DEF flock, OpenRegion, RegionFor, shm_open, ftruncate, shm_unlink,
           StartAlarm, Access, open, unlink, Lock, Store, Unlock
  <2>2. pc'[p] \in {"unlink", "alarm", "wait", "write", "unlock"} => file'[p] # None
    BY <1>1 DEF flock, OpenRegion, shm_open, ftruncate, shm_unlink, StartAlarm,
                Access, open, unlink, Lock, Store, Unlock, FileFor, Opened
  <2>3. Opened'
    BY <1>3, <2>1, <2>2 DEF Opened
  <2>4. Forked'
    BY <1>3 DEF Forked, ChildOver
  <2>5. LeftoverGone'
    BY <1>3, <2>1 DEF LeftoverGone
  <2>6. QED
    BY <2>3, <2>4, <2>5
<1>6. OwnExact(p)' /\ OwnText(p)'
  BY DEF OwnExact, OwnText, Forked
<1>7. QED
  BY <1>2, <1>3, <1>4, <1>5, <1>6, FreshKept, NamedKept, CleansUpKept,
     OwnRegionKept, ContentsKept

-----------------------------------------------------------------------------
(* The set-up of msg.c, and the alarm of the two lock programs.            *)

\* A run of msg.c that goes on has removed the queue of an earlier one.
LEMMA MsgStep ==
    ASSUME IInv, NEW p \in Users, Msg(p), program' = program
    PROVE  IInv'
<1> USE DEF IInv, Msg, msg, lockVars, shmVars, regionVars
<1>1. PICK to \in {"mq_open", "pipe", "exited", "failed"} : Goto(p, to)
  BY DEF mq_unlink, mq_open, PipeAndFork
<1>2. TypeOK'
  BY DEF TypeOK, mq_unlink, mq_open, PipeAndFork
<1>3. Discipline(p)
  <2>1. pc[p] \in {"mq_unlink", "mq_open", "pipe"}
    BY DEF mq_unlink, mq_open, PipeAndFork
  <2>2. QED
    BY <1>1, <2>1, LocalDiscipline DEF SetUp
<1>4. Opened' /\ Forked'
  BY <1>1, <1>3 DEF TypeOK, Discipline, Frame, Opened, Forked, ChildOver
<1>5. HeldAtWorkOnly'
  BY <1>1 DEF TypeOK, Opened, HeldAtWorkOnly
<1>6. LeftoverGone'
  BY DEF TypeOK, LeftoverGone, mq_unlink, mq_open, PipeAndFork
<1>7. OwnExact(p)' /\ OwnText(p)'
  BY DEF OwnExact, OwnText, Forked
<1>8. QED
  BY <1>2, <1>3, <1>4, <1>5, <1>6, <1>7, FreshKept, NamedKept, CleansUpKept,
     OwnRegionKept, ContentsKept

\* The alarm ends a process and frees its lock.
LEMMA ExpireStep ==
    ASSUME IInv, NEW p \in Users, Expire(p), program' = program
    PROVE  IInv'
<1> USE DEF IInv, Expire, timer_expired, shmVars, regionVars
<1>1. TypeOK'
  BY DEF TypeOK, Release
<1>2. program[p] # "shm"
  BY DEF Opened
<1>3. Discipline(p)
  BY <1>2, LocalDiscipline DEF TypeOK, SetUp
<1>4. Opened' /\ Forked'
  BY <1>2, <1>3 DEF TypeOK, Discipline, Frame, Opened, Forked, ChildOver
<1>5. HeldAtWorkOnly'
  BY DEF TypeOK, Release, HeldAtWorkOnly
<1>6. LeftoverGone'
  BY DEF TypeOK, LeftoverGone
<1>7. OwnExact(p)' /\ OwnText(p)'
  BY <1>2 DEF TypeOK, OwnExact, OwnText, Forked
<1>8. QED
  BY <1>1, <1>3, <1>4, <1>5, <1>6, <1>7, FreshKept, NamedKept, CleansUpKept,
     OwnRegionKept, ContentsKept

-----------------------------------------------------------------------------
(* shm.c.                                                                  *)

\* What the parent and the child of shm.c do, step by step.
LEMMA ParentStep ==
    ASSUME IInv, NEW p \in Users, program[p] = "shm", parent(p), program' = program,
           UNCHANGED <<lockVars, mqOne>>
    PROVE  IInv'
<1> USE DEF IInv, lockVars, shmVars, regionVars
<1>1. PICK to : Goto(p, to)
  BY DEF parent, OpenRegion, shm_open, ftruncate, ParentUses, wait
<1>2. TypeOK'
  <2> USE DEF TypeOK
  <2>1. CASE OpenRegion(p) /\ UNCHANGED shmVars
    BY <2>1 DEF OpenRegion, shm_open, RegionFor, Put
  <2>2. CASE ftruncate(p, "store") /\ UNCHANGED <<head, shmVars>>
    BY <2>2 DEF ftruncate, Opened
  <2>3. CASE pc[p] \in {"store", "look"}
    BY <2>3
       DEF parent, OpenRegion, shm_open, ftruncate, wait, ParentUses, Mapped,
           Put, ParentData, cleanup
  <2>4. CASE pc[p] \in {"fork", "await", "cleanup"}
    BY <2>4 DEF parent, OpenRegion, shm_open, ftruncate, wait, ParentUses,
      cleanup, ChildTo
  <2>5. QED
    BY <2>1, <2>2, <2>3, <2>4 DEF parent, wait, ParentUses
<1>3. Frame(p)
  BY DEF TypeOK, Frame, parent, OpenRegion, shm_open, ftruncate, ParentUses,
         wait, cleanup, ChildTo
<1>4. OwnWrites(p)
  BY DEF TypeOK, OwnWrites, parent, OpenRegion, shm_open, ftruncate, ParentUses,
         wait, cleanup, ChildTo, Put, Fresh
<1>5. OwnNames(p)
  <2>1. CASE OpenRegion(p) /\ UNCHANGED shmVars
    BY <2>1 DEF TypeOK, OwnNames, OpenRegion, shm_open, RegionFor, HasUnlinked
  <2>2. CASE ~OpenRegion(p)
    <3>1. UNCHANGED <<region, childRegion>>
      BY <2>2 DEF parent, ftruncate, ParentUses, wait
    <3>2. pc'[p] # "shm_open" /\ pc[p] \notin {"exited", "failed"}
      BY <2>2 DEF TypeOK, parent, ftruncate, ParentUses, wait
    <3>3. child[p] = "failed" => child'[p] = "failed"
      BY <2>2 DEF TypeOK, parent, ftruncate, ParentUses, wait, Forked, ChildTo
    <3>4. shmName' = shmName \/ (shmName' = None /\ pc'[p] \in {"exited", "failed"})
      BY <2>2 DEF TypeOK, parent, ftruncate, ParentUses, wait, cleanup
    <3>5. pc'[p] \in {"exited", "failed"} => shmName' = None
      BY <2>2 DEF TypeOK, parent, ftruncate, ParentUses, wait, cleanup
    <3>6. QED
      BY <3>1, <3>2, <3>3, <3>4, <3>5 DEF OwnNames, HasUnlinked
  <2>3. QED
    BY <2>1, <2>2 DEF parent, OpenRegion, shm_open, ftruncate, ParentUses, wait
<1>6. Discipline(p)
  BY <1>3, <1>4, <1>5 DEF Discipline
<1>7. Opened' /\ Forked'
  <2> USE DEF TypeOK
  <2>1. (pc'[p] = "ftruncate" => region'[p] # None) /\ (armed'[p] => armed[p])
    BY DEF parent, OpenRegion, RegionFor, shm_open, ftruncate, ParentUses,
      wait, cleanup
  <2>2. region'[p] = None => pc'[p] = "failed" /\ child'[p] = "none"
    BY DEF parent, OpenRegion, RegionFor, shm_open, ftruncate, ParentUses, wait,
           Opened, ChildTo
  <2>3. Opened'
    BY <1>3, <2>1, <2>2 DEF Opened, Frame
  <2>4. pc'[p] \in {"shm_open", "ftruncate", "store", "fork"} => child'[p] = "none"
    BY DEF parent, OpenRegion, shm_open, ftruncate, ParentUses, wait, Forked,
      ChildTo
  <2>5. pc'[p] \in {"look", "cleanup", "exited"} => ChildOver(p)'
    BY DEF parent, OpenRegion, shm_open, ftruncate, ParentUses, wait, Forked,
           ChildOver, ChildTo
  <2>6. childRegion'[p] # None => child'[p] \in {"poststore", "exited", "killed"}
    BY DEF parent, OpenRegion, shm_open, ftruncate, ParentUses, wait, Forked,
      ChildTo
  <2>7. Forked'
    BY <1>3, <2>4, <2>5, <2>6 DEF Forked, Frame, ChildOver
  <2>8. QED
    BY <2>3, <2>7
<1>8. HeldAtWorkOnly'
  BY <1>1 DEF TypeOK, Opened, HeldAtWorkOnly
<1>9. LeftoverGone'
  <2>1. pc'[p] # "mq_open"
    BY DEF TypeOK, parent, OpenRegion, shm_open, ftruncate, ParentUses, wait
  <2>2. QED
    BY <1>3, <2>1 DEF LeftoverGone, Frame
<1>10. OwnExact(p)'
  BY DEF OwnExact
<1>11. OwnText(p)'
  <2> SUFFICES ASSUME child'[p] = "exited", childRegion'[p] = region'[p], Alone(p)',
                      pc'[p] \in {"await", "look", "cleanup", "exited"}
               PROVE  /\ pc'[p] \in {"await", "look"} => head'[region'[p]] = PostExecData
                      /\ pc'[p] \in {"cleanup", "exited"} => seen'[p] = PostExecData
    BY DEF OwnText
  <2>1. pc[p] \in {"await", "look", "cleanup"} /\ UNCHANGED <<region, head, child, childRegion>>
    BY DEF TypeOK, parent, OpenRegion, shm_open, ftruncate, ParentUses, wait,
      ChildTo, Forked
  <2>2. Alone(p)
    BY <1>3, <2>1 DEF Frame, Alone, Maps
  <2>3. /\ pc[p] \in {"await", "look"} => head[region[p]] = PostExecData
        /\ pc[p] = "cleanup" => seen[p] = PostExecData
    BY <2>1, <2>2 DEF ChildText, SeesChild
  <2>4. QED
    BY <2>1, <2>3
       DEF TypeOK, parent, OpenRegion, shm_open, ftruncate, ParentUses, wait,
           PostExecData
<1>12. QED
  BY <1>2, <1>6, <1>7, <1>8, <1>9, <1>10, <1>11, FreshKept, NamedKept,
     CleansUpKept, OwnRegionKept, ContentsKept

\* The child writes into its parent's region before exec, and into the one that
\* it has opened by name after.
LEMMA ChildStep ==
    ASSUME IInv, NEW p \in Users, program[p] = "shm", childSteps(p),
           program' = program, UNCHANGED <<lockVars, mqOne>>
    PROVE  IInv'
<1> USE DEF IInv, lockVars, shmVars, regionVars, childSteps, ChildTo
<1>1. /\ child[p] \in {"store", "exec", "shm_open", "poststore"}
      /\ child'[p] # "none" /\ pc[p] \notin {"shm_open", "ftruncate", "store", "fork"}
      /\ pc[p] \notin {"look", "cleanup", "exited"} /\ region[p] # None
  BY DEF TypeOK, BeforeExec, shm_2, Forked, ChildOver, Opened
<1>2. TypeOK'
  <2> USE DEF TypeOK
  <2>1. CASE BeforeExec(p)
    BY <2>1 DEF BeforeExec, Mapped, Put, cleanup, PreExecData
  <2>2. CASE shm_2(p) /\ UNCHANGED shmName
    BY <2>2 DEF shm_2, Put, PostExecData
  <2>3. QED
    BY <2>1, <2>2
<1>3. Frame(p)
  BY DEF TypeOK, Frame, BeforeExec, shm_2
<1>4. OwnWrites(p)
  BY DEF TypeOK, OwnWrites, BeforeExec, shm_2, Put, Forked
<1>5. OwnNames(p)
  <2>1. HasUnlinked(p) => HasUnlinked(p)'
    BY <1>1 DEF TypeOK, HasUnlinked
  <2>2. shmName' = shmName \/ (shmName' = None /\ HasUnlinked(p)')
    BY DEF TypeOK, HasUnlinked, BeforeExec, cleanup
  <2>3. childRegion'[p] # childRegion[p] =>
            child[p] = "shm_open" /\ childRegion'[p] = shmName /\ shmName' = shmName
    BY DEF TypeOK, BeforeExec, shm_2
  <2>4. pc[p] \in {"exited", "failed"} => shmName' = None \/ shmName' = shmName
    BY <2>2
  <2>5. QED
    BY <1>1, <2>1, <2>2, <2>3, <2>4 DEF OwnNames
<1>6. Discipline(p)
  BY <1>3, <1>4, <1>5 DEF Discipline
<1>7. Opened' /\ Forked'
  <2>1. childRegion'[p] # None => child'[p] \in {"poststore", "exited", "killed"}
    BY DEF TypeOK, BeforeExec, shm_2, Forked
  <2>2. QED
    BY <1>1, <1>3, <2>1 DEF TypeOK, Opened, Forked, Frame, ChildOver
<1>8. HeldAtWorkOnly' /\ LeftoverGone'
  BY DEF HeldAtWorkOnly, LeftoverGone
<1>9. OwnExact(p)'
  BY DEF OwnExact
<1>10. OwnText(p)'
  BY <1>1 DEF TypeOK, OwnText, BeforeExec, shm_2, Put
<1>11. QED
  BY <1>2, <1>6, <1>7, <1>8, <1>9, <1>10, FreshKept, NamedKept, CleansUpKept,
     OwnRegionKept, ContentsKept

\* A signal ends the parent or the child; the handler cleans up.
LEMMA InterruptStep ==
    ASSUME IInv, NEW p \in Users, Interrupt(p), program' = program
    PROVE  IInv'
<1> USE DEF IInv, Interrupt, Signal, lockVars, shmVars, regionVars, ChildTo, cleanup
<1>1. TypeOK'
  BY DEF TypeOK
<1>2. Frame(p) /\ OwnWrites(p)
  BY DEF TypeOK, Frame, OwnWrites
<1>3. OwnNames(p)
  <2>1. (~Over(p) /\ UNCHANGED child) \/ (~ChildOver(p) /\ UNCHANGED pc)
    OBVIOUS
  <2>2. pc'[p] # "shm_open"
    BY <2>1 DEF TypeOK, Forked, ChildOver
  <2>3. HasUnlinked(p) => HasUnlinked(p)'
    BY <2>1 DEF TypeOK, HasUnlinked, ChildOver
  <2>4. shmName' = shmName \/ (shmName' = None /\ HasUnlinked(p)')
    BY DEF TypeOK, HasUnlinked
  <2>5. pc[p] = "failed" => pc'[p] = "failed"
    BY <2>1
  <2>6. pc'[p] \in {"exited", "failed"} =>
            shmName' = None \/ (pc'[p] = pc[p] /\ shmName' = shmName)
    BY DEF TypeOK
  <2>7. QED
    BY <2>2, <2>3, <2>4, <2>5, <2>6 DEF OwnNames
<1>4. Discipline(p)
  BY <1>2, <1>3 DEF Discipline
<1>5. Opened'
  BY <1>2 DEF TypeOK, Frame, Opened, ChildOver
<1>6. Forked'
  BY <1>2 DEF TypeOK, Frame, Forked, ChildOver
<1>7. HeldAtWorkOnly' /\ LeftoverGone'
  BY DEF TypeOK, Opened, HeldAtWorkOnly, LeftoverGone
<1>8. OwnExact(p)' /\ OwnText(p)'
  BY DEF TypeOK, OwnExact, OwnText, ChildOver, Forked
<1>9. QED
  BY <1>1, <1>4, <1>5, <1>6, <1>7, <1>8, FreshKept, NamedKept, CleansUpKept,
     OwnRegionKept, ContentsKept

-----------------------------------------------------------------------------
(* The theorems.                                                           *)

\* Every process starts with nothing open.
LEMMA InitInv == Init => IInv
<1> SUFFICES ASSUME Init PROVE IInv
  OBVIOUS
<1> USE DEF Init, RegionInit, FlockInit, ShmInit, MsgInit
<1>1. \A p \in Users : pc[p] \in {"mq_unlink", "exited", "shm_open"}
                       /\ (program[p] = "shm" => pc[p] = "shm_open")
  BY DEF Start
<1>2. TypeOK
  BY DEF TypeOK, Start
<1>3. Fresh /\ Opened /\ Forked /\ Named /\ ChildText
  BY <1>1 DEF Fresh, Opened, Forked, Named, ChildText
<1>4. ExactWhenAlone /\ HeldAtWorkOnly /\ SeesChild
  BY <1>1 DEF ExactWhenAlone, HeldAtWorkOnly, SeesChild
<1>5. OwnRegion /\ CleansUp /\ LeftoverGone
  BY <1>1 DEF OwnRegion, CleansUp, LeftoverGone
<1>6. QED
  BY <1>2, <1>3, <1>4, <1>5 DEF IInv

\* Every step preserves the invariant.
LEMMA InvStep == IInv /\ [Next]_vars => IInv'
<1> SUFFICES ASSUME IInv, [Next]_vars PROVE IInv'
  OBVIOUS
<1>1. ASSUME NEW p \in Users, Run(p), program' = program PROVE IInv'
  BY <1>1, SemembedStep, FlockStep, ParentStep, ChildStep, MsgStep DEF Run,
    Shm, shm
<1>2. ASSUME NEW p \in Users, Expire(p) \/ Interrupt(p), program' = program PROVE IInv'
  BY <1>2, ExpireStep, InterruptStep
<1>3. CASE UNCHANGED vars
  BY <1>3
     DEF vars, sharedVars, regionVars, lockVars, shmVars, IInv, TypeOK, Fresh,
         Opened, Forked, ChildOver, Named, HasUnlinked, ChildText, Alone, Maps,
         ExactWhenAlone, HeldAtWorkOnly, SeesChild, OwnRegion, CleansUp,
         LeftoverGone
<1>4. QED
  BY <1>1, <1>2, <1>3 DEF Next, Terminated

\* The invariant holds throughout, whatever the processes run together.
THEOREM Invariance == Spec => []IInv
BY InitInv, InvStep, PTL DEF Spec

\* Every variable keeps its type.
THEOREM TypeCorrect == Spec => []TypeOK
<1>1. IInv => TypeOK
  BY DEF IInv
<1>2. QED
  BY Invariance, <1>1, PTL

\* shmmutex_semembed.c: a run that has its region to itself finds the semaphore
\* counting exactly.
THEOREM SemaphoreExactWhenAlone == Spec => []ExactWhenAlone
<1>1. IInv => ExactWhenAlone
  BY DEF IInv
<1>2. QED
  BY Invariance, <1>1, PTL

\* shmmutex_flock.c: the lock of a file is held exactly by the process at work
\* under it, whoever else is ended where.
THEOREM LockHeldAtWorkOnly == Spec => []HeldAtWorkOnly
<1>1. IInv => HeldAtWorkOnly
  BY DEF IInv
<1>2. QED
  BY Invariance, <1>1, PTL

\* Two processes at work under the same file, and so storing data that the lock
\* is to protect.
FileExclusion ==
    \A p, q \in Users :
        /\ pc[p] \in {"write", "unlock"} /\ pc[q] \in {"write", "unlock"}
        /\ file[p] = file[q] /\ file[p] # None
        => p = q

\* shmmutex_flock.c: they are never two, which is the exclusion that the program
\* is about.
THEOREM FileLockExcludes == Spec => []FileExclusion
<1>1. IInv => FileExclusion
  <2> SUFFICES ASSUME IInv, NEW p \in Users, NEW q \in Users,
                      pc[p] \in {"write", "unlock"}, pc[q] \in {"write", "unlock"},
                      file[p] = file[q], file[p] # None
               PROVE  p = q
    BY DEF FileExclusion
  <2>1. file[p] \in Users
    BY DEF IInv, TypeOK
  <2>2. owner[file[p]] = p /\ owner[file[p]] = q
    BY <2>1 DEF IInv, HeldAtWorkOnly
  <2>3. QED
    BY <2>2
<1>2. QED
  BY Invariance, <1>1, PTL

\* shm.c: the parent of a child that has come through sees its last text, when
\* the region is theirs alone.
THEOREM ParentSeesChild == Spec => []SeesChild
<1>1. IInv => SeesChild
  BY DEF IInv
<1>2. QED
  BY Invariance, <1>1, PTL

\* shm.c: the executed image finds its parent's region under the name, unless
\* the parent has been ended or another run has taken the name away.
THEOREM ImageFindsRegion == Spec => []OwnRegion
<1>1. IInv => OwnRegion
  BY DEF IInv
<1>2. QED
  BY Invariance, <1>1, PTL

\* shm.c: a parent that is over, but for a signal it does not handle, leaves no
\* name for its region.
THEOREM NameRemoved == Spec => []CleansUp
<1>1. IInv => CleansUp
  BY DEF IInv
<1>2. QED
  BY Invariance, <1>1, PTL

\* msg.c: no run comes to create its queue with that of an earlier one in the
\* way.
THEOREM NoLeftover == Spec => []LeftoverGone
<1>1. IInv => LeftoverGone
  BY DEF IInv
<1>2. QED
  BY Invariance, <1>1, PTL

-----------------------------------------------------------------------------
(* Refinement: the lock files are the robust locks of Mutex.               *)

\* A file is locked exactly when somebody is at work under it, who is alone.
LockedByUnder ==
    /\ Locked = {f \in Users : \E p \in Users : Under[p] = f}
    /\ \A p, q \in Users : Under[p] = Under[q] /\ Under[p] # None => p = q

\* So it is wherever the owners are those at work.
LEMMA LockedIs == TypeOK /\ HeldAtWorkOnly => LockedByUnder
<1> SUFFICES ASSUME TypeOK, HeldAtWorkOnly PROVE LockedByUnder
  OBVIOUS
<1> USE DEF TypeOK
<1>1. \A f, p \in Users : owner[f] = p <=> Under[p] = f
  BY DEF HeldAtWorkOnly, Under
<1>2. \A p \in Users : Under[p] \in Users \cup {None}
  BY DEF Under
<1>3. \A f \in Users : owner[f] # None <=> \E p \in Users : Under[p] = f
  <2> TAKE f \in Users
  <2>1. owner[f] \in Users \/ owner[f] = None
    OBVIOUS
  <2>2. owner[f] \in Users <=> \E p \in Users : owner[f] = p
    OBVIOUS
  <2>3. QED
    BY <1>1, <2>1, <2>2
<1>4. Locked = {f \in Users : \E p \in Users : Under[p] = f}
  BY <1>3 DEF Locked
<1>5. QED
  BY <1>1, <1>2, <1>4 DEF LockedByUnder

\* A step of p, by what becomes of p: it is where it was, it is over, it is
\* under no lock, or it has got under one that was free.
LEMMA LocalRefines ==
    ASSUME IInv, IInv', NEW p \in Users,
           \A q \in Users \ {p} : pc'[q] = pc[q] /\ file'[q] = file[q],
           \/ (Over(p)' <=> Over(p)) /\ Under'[p] = Under[p]
           \/ ~Over(p) /\ Over(p)'
           \/ ~Over(p) /\ ~Over(p)' /\ Under'[p] = None
           \/ /\ ~Over(p) /\ ~Over(p)'
              /\ Under[p] = None /\ Under'[p] \in Users \ Locked
    PROVE  [M!Next]_(M!mutexVars)
<1>1. TypeOK /\ TypeOK' /\ LockedByUnder /\ LockedByUnder'
  <2>1. (TypeOK /\ HeldAtWorkOnly => LockedByUnder)'
    BY LockedIs, PTL
  <2>2. QED
    BY <2>1, LockedIs DEF IInv
<1>2. /\ Under' = [Under EXCEPT ![p] = Under'[p]]
      /\ Under \in [Users -> Users \cup {None}]
      /\ Under'[p] \in Users \cup {None}
  <2>1. Under \in [Users -> Users \cup {None}]
    BY <1>1 DEF TypeOK, Under
  <2>2. Under' \in [Users -> Users \cup {None}]
    BY <1>1 DEF TypeOK, Under
  <2>3. \A q \in Users \ {p} : Under'[q] = Under[q]
    BY DEF Under
  <2>4. QED
    BY <2>1, <2>2, <2>3
<1>3. \A q \in Users : q \in Gone <=> Over(q)
  BY DEF Gone
<1>4. \A q \in Users \ {p} : q \in Gone' <=> q \in Gone
  BY DEF Gone
<1>5. Gone' = IF Over(p)' THEN Gone \cup {p} ELSE Gone \ {p}
  BY <1>4 DEF Gone
<1>6. \A q \in Users \ {p} : Under'[q] = Under[q]
  BY <1>2
<1>7. Over(p)' => Under'[p] = None
  BY <1>1 DEF TypeOK, Under
<1>8. CASE (Over(p)' <=> Over(p)) /\ Under'[p] = Under[p]
  <2>1. Under' = Under
    BY <1>2, <1>8
  <2>2. Gone' = Gone
    BY <1>3, <1>5, <1>8
  <2>3. QED
    BY <1>1, <2>1, <2>2 DEF M!mutexVars, LockedByUnder
<1>9. CASE ~Over(p) /\ Over(p)'
  <2>1. Locked' = Locked \ {Under[p]}
    BY <1>1, <1>6, <1>7, <1>9 DEF LockedByUnder
  <2>2. p \notin Gone /\ Gone' = Gone \cup {p}
    BY <1>3, <1>5, <1>9
  <2>3. M!End(p)
    BY <1>2, <1>7, <1>9, <2>1, <2>2 DEF M!End
  <2>4. QED
    BY <2>3 DEF M!Next
<1>10. CASE ~Over(p) /\ ~Over(p)' /\ Under'[p] = None
  <2>1. Gone' = Gone
    BY <1>3, <1>5, <1>10
  <2>2. CASE Under[p] = None
    BY <1>8, <1>10, <2>2
  <2>3. CASE Under[p] # None
    <3>1. Locked' = Locked \ {Under[p]}
      BY <1>1, <1>6, <1>10 DEF LockedByUnder
    <3>2. M!Leave(p)
      BY <1>2, <1>10, <2>1, <2>3, <3>1 DEF M!Leave
    <3>3. QED
      BY <3>2 DEF M!Next
  <2>4. QED
    BY <2>2, <2>3
<1>11. CASE /\ ~Over(p) /\ ~Over(p)'
            /\ Under[p] = None /\ Under'[p] \in Users \ Locked
  <2> DEFINE l == Under'[p]
  <2>1. p \notin Gone /\ Gone' = Gone
    BY <1>3, <1>5, <1>11
  <2>2. Locked' = Locked \cup {l}
    BY <1>1, <1>6, <1>11 DEF LockedByUnder
  <2>3. M!Enter(p, l)
    BY <1>2, <1>11, <2>1, <2>2 DEF M!Enter
  <2>4. QED
    BY <1>11, <2>3 DEF M!Next
<1>12. QED
  BY <1>8, <1>9, <1>10, <1>11

\* A program that takes no file locks only comes to its end, if it does.
LEMMA OthersRefine ==
    ASSUME IInv, IInv', NEW p \in Users, program[p] # "flock", file' = file,
           program' = program,
           \A q \in Users \ {p} : pc'[q] = pc[q],
           Over(p) => pc'[p] = pc[p]
    PROVE  [M!Next]_(M!mutexVars)
<1>1. Under[p] = None /\ Under'[p] = None
  BY DEF IInv, TypeOK, Opened, Under
<1>2. Over(p) => Over(p)'
  OBVIOUS
<1>3. QED
  BY <1>1, <1>2, LocalRefines

\* shmmutex_flock.c, call by call.
LEMMA FlockRefines ==
    ASSUME IInv, IInv', NEW p \in Users, Flock(p), program' = program
    PROVE  [M!Next]_(M!mutexVars)
<1> USE DEF IInv, TypeOK, Flock, lockVars
<1>1. CASE /\ \/ OpenRegion(p) \/ ftruncate(p, "shm_unlink")
              \/ shm_unlink(p, "open") \/ StartAlarm(p)
           /\ UNCHANGED lockVars
  <2>1. /\ \A q \in Users \ {p} : pc'[q] = pc[q] /\ file'[q] = file[q]
        /\ ~Over(p) /\ ~Over(p)' /\ Under'[p] = None
    BY <1>1
       DEF OpenRegion, shm_open, ftruncate, shm_unlink, StartAlarm, Under
  <2>2. QED
    BY <2>1, LocalRefines
<1>2. CASE open(p) \/ unlink(p)
  <2>1. /\ \A q \in Users \ {p} : pc'[q] = pc[q] /\ file'[q] = file[q]
        /\ ~Over(p) /\ ~Over(p)' /\ Under'[p] = None
    BY <1>2 DEF open, unlink, Under
  <2>2. QED
    BY <2>1, LocalRefines
<1>3. CASE Lock(p)
  <2>1. \A q \in Users \ {p} : pc'[q] = pc[q] /\ file'[q] = file[q]
    BY <1>3 DEF Lock
  <2>2. ~Over(p) /\ Under[p] = None
    BY <1>3 DEF Lock, Under
  <2>3. CASE Goto(p, "write") /\ owner[file[p]] = None
    <3>1. file[p] \in Users
      BY <1>3 DEF Lock, Opened
    <3>2. Under'[p] = file[p] /\ file[p] \notin Locked /\ ~Over(p)'
      BY <1>3, <2>3, <3>1 DEF Lock, Under, Locked
    <3>3. QED
      BY <2>1, <2>2, <3>1, <3>2, LocalRefines
  <2>4. CASE Goto(p, "failed")
    BY <2>1, <2>2, <2>4, LocalRefines
  <2>5. QED
    BY <1>3, <2>3, <2>4 DEF Lock
<1>4. CASE Store(p)
  <2>1. \A q \in Users \ {p} : pc'[q] = pc[q] /\ file'[q] = file[q]
    BY <1>4 DEF Store, Access
  <2>2. CASE region[p] \in page
    <3>1. (Over(p)' <=> Over(p)) /\ Under'[p] = Under[p]
      BY <1>4, <2>2 DEF Store, Access, Under
    <3>2. QED
      BY <2>1, <3>1, LocalRefines
  <2>3. CASE region[p] \notin page
    <3>1. ~Over(p) /\ Over(p)'
      BY <1>4, <2>3 DEF Store, Access
    <3>2. QED
      BY <2>1, <3>1, LocalRefines
  <2>4. QED
    BY <2>2, <2>3
<1>5. CASE Unlock(p)
  <2>1. /\ \A q \in Users \ {p} : pc'[q] = pc[q] /\ file'[q] = file[q]
        /\ ~Over(p) /\ Under'[p] = None
    BY <1>5 DEF Unlock, Under
  <2>2. QED
    BY <2>1, LocalRefines
<1>6. QED
  BY <1>1, <1>2, <1>3, <1>4, <1>5 DEF flock

\* Every step of the programs is a step of Mutex or none.
LEMMA StepRefines ==
    IInv /\ IInv' /\ [Next]_vars => [M!Next]_(M!mutexVars)
<1> SUFFICES ASSUME IInv, IInv', [Next]_vars PROVE [M!Next]_(M!mutexVars)
  OBVIOUS
<1>1. ASSUME NEW p \in Users, Semembed(p), program' = program
      PROVE  [M!Next]_(M!mutexVars)
  <2>1. ~Over(p) /\ \A q \in Users \ {p} : pc'[q] = pc[q]
    BY <1>1 DEF IInv, TypeOK, Semembed, semembed, OpenRegion, shm_open, ftruncate,
                shm_unlink, StartAlarm, Access, sem_init, sem_wait, sem_post,
                OnSemaphore
  <2>2. QED
    BY <1>1, <2>1, OthersRefine DEF Semembed, lockVars
<1>2. ASSUME NEW p \in Users, Msg(p), program' = program
      PROVE  [M!Next]_(M!mutexVars)
  <2>1. ~Over(p) /\ \A q \in Users \ {p} : pc'[q] = pc[q]
    BY <1>2 DEF IInv, TypeOK, Msg, msg, mq_unlink, mq_open, PipeAndFork
  <2>2. QED
    BY <1>2, <2>1, OthersRefine DEF Msg, lockVars
<1>3. ASSUME NEW p \in Users, Shm(p) \/ Interrupt(p), program' = program
      PROVE  [M!Next]_(M!mutexVars)
  <2>1. /\ Over(p) => pc'[p] = pc[p]
        /\ \A q \in Users \ {p} : pc'[q] = pc[q]
    <3>1. CASE Shm(p) /\ parent(p)
      BY <3>1 DEF IInv, TypeOK, parent, OpenRegion, shm_open, ftruncate,
                  ParentUses, wait
    <3>2. CASE Shm(p) /\ childSteps(p)
      BY <3>2 DEF childSteps
    <3>3. CASE Interrupt(p)
      BY <3>3 DEF IInv, TypeOK, Interrupt, Signal
    <3>4. QED
      BY <1>3, <3>1, <3>2, <3>3 DEF Shm, shm
  <2>2. QED
    BY <1>3, <2>1, OthersRefine DEF Shm, Interrupt, lockVars
<1>4. ASSUME NEW p \in Users, Expire(p), program' = program
      PROVE  [M!Next]_(M!mutexVars)
  BY <1>4, LocalRefines DEF IInv, TypeOK, Expire, timer_expired
<1>5. CASE UNCHANGED vars
  BY <1>5 DEF vars, sharedVars, lockVars, M!mutexVars, Under, Locked, Gone
<1>6. QED
  BY <1>1, <1>2, <1>3, <1>4, <1>5, FlockRefines DEF Next, Run, Terminated

\* shmmutex_flock.c implements Mutex, whatever runs beside it.
THEOREM Refinement == Spec => ImplementsMutex
<1>1. Init => M!Init
  BY DEF Init, FlockInit, M!Init, Under, Locked, Gone
<1>2. QED
  BY <1>1, StepRefines, Invariance, PTL DEF Spec, ImplementsMutex, M!Spec
=============================================================================
