---------------------------- MODULE ShmMutexSem ----------------------------
(***************************************************************************)
(* shmmutex_sem.c: a loop that stores data in a shared region under a      *)
(* named semaphore, /my_sem, together with the programs that make and      *)
(* remove named semaphores, mksem.c and rmsem.c.                           *)
(***************************************************************************)
EXTENDS SharedRegion

CONSTANTS Makers,    \* runs of mksem /my_sem
          Removers   \* runs of rmsem /my_sem

ASSUME ProgramsAssumption ==
    /\ None \notin Makers \cup Removers
    /\ Users \cap (Makers \cup Removers) = {} /\ Makers \cap Removers = {}

Procs == Users \cup Makers \cup Removers

VARIABLES semName,   \* semaphore the name /my_sem is bound to
          sem,       \* semaphore each process has open
          value      \* of each semaphore

semVars == <<semName, sem, value>>

\* History: the runs that were ended between their sem_wait and their sem_post.
VARIABLE endedAtWork

vars == <<sharedVars, semVars, endedAtWork>>

TypeOK ==
    /\ pc \in [Procs -> {"shm_open", "ftruncate", "shm_unlink", "sem_open",
                         "sem_unlink", "alarm", "wait", "write", "post",
                         "mksem", "rmsem", "exited", "failed", "killed"}]
    /\ armed \in [Users -> BOOLEAN]
    /\ shmName \in Users \cup {None}
    /\ region \in [Users -> Users \cup {None}]
    /\ page \in SUBSET Users
    /\ semName \in Users \cup Makers \cup {None}
    /\ sem \in [Users -> Users \cup Makers \cup {None}]
    /\ value \in [Users \cup Makers -> Nat]
    /\ endedAtWork \in SUBSET Users

Init == /\ RegionInit
        /\ pc = [p \in Procs |-> IF p \in Users THEN "shm_open"
                                 ELSE IF p \in Makers THEN "mksem" ELSE "rmsem"]
        /\ semName = None
        /\ sem = [p \in Users |-> None]
        /\ value = [s \in Users \cup Makers |-> 0]
        /\ endedAtWork = {}

SemaphoreFor(p) == IF semName = None THEN p ELSE semName

\* sem_open with O_CREAT: the initial value 1 counts for a new semaphore only.
OpenSemaphore(p) ==
    /\ semName' = SemaphoreFor(p)
    /\ value' = IF semName = None THEN [value EXCEPT ![p] = 1] ELSE value

sem_open(p) ==
    /\ pc[p] = "sem_open" /\ Goto(p, "sem_unlink")
    /\ OpenSemaphore(p)
    /\ sem' = [sem EXCEPT ![p] = SemaphoreFor(p)]
    /\ UNCHANGED <<armed, regionVars>>

\* Mutant: the name stays.
sem_unlink_Skip(p) == /\ pc[p] = "sem_unlink" /\ Goto(p, "alarm")
                      /\ UNCHANGED <<armed, regionVars, semVars>>

sem_unlink(p) ==
    /\ pc[p] = "sem_unlink" /\ Goto(p, "alarm")
    /\ semName' = None
    /\ UNCHANGED <<armed, regionVars, sem, value>>

\* Mutant: it does not wait.
sem_wait_NoWait(p) ==
    /\ pc[p] = "wait" /\ Goto(p, "write")
    /\ value' = [value EXCEPT ![sem[p]] = @ - 1]
    /\ UNCHANGED <<armed, regionVars, semName, sem>>

sem_wait(p) ==
    /\ pc[p] = "wait" /\ value[sem[p]] > 0 /\ Goto(p, "write")
    /\ value' = [value EXCEPT ![sem[p]] = @ - 1]
    /\ UNCHANGED <<armed, regionVars, semName, sem>>

sem_post(p) ==
    /\ pc[p] = "post" /\ Goto(p, "wait")
    /\ value' = [value EXCEPT ![sem[p]] = @ + 1]
    /\ UNCHANGED <<armed, regionVars, semName, sem>>

main(p) ==
    \/ SetUpRegion(p, "sem_open") /\ UNCHANGED semVars
    \/ sem_open(p)
    \/ sem_unlink(p)
    \/ StartAlarm(p) /\ UNCHANGED semVars
    \/ sem_wait(p)
    \/ Access(p, "write", "post") /\ UNCHANGED <<armed, regionVars, semVars>>
    \/ sem_post(p)

Expire(p) == timer_expired(p) /\ UNCHANGED semVars

\* mksem.c makes the semaphore, or finds it made, and leaves it lying around.
mksem(p) ==
    /\ pc[p] = "mksem"
    /\ \/ Goto(p, "exited") /\ OpenSemaphore(p)
       \/ Goto(p, "failed") /\ UNCHANGED <<semName, value>>
    /\ UNCHANGED <<armed, regionVars, sem>>

rmsem(p) ==
    /\ pc[p] = "rmsem"
    /\ IF semName = None THEN Goto(p, "failed") ELSE Goto(p, "exited")
    /\ semName' = None
    /\ UNCHANGED <<armed, regionVars, sem, value>>

Terminated == (\A p \in Procs : Over(p)) /\ UNCHANGED vars

AtWork(p) == pc[p] \in {"write", "post"}
InLoop(p) == pc[p] \in {"alarm", "wait", "write", "post"}

\* At work, or ended there.
Holds(p) == AtWork(p) \/ p \in endedAtWork

\* The history, which no step of a program looks at.
Record == endedAtWork' = endedAtWork \cup {p \in Users : AtWork(p) /\ Over(p)'}

Next == /\ \/ \E p \in Users : main(p) \/ Expire(p)
           \/ \E p \in Makers : mksem(p)
           \/ \E p \in Removers : rmsem(p)
           \/ Terminated
        /\ Record

\* Every process runs, and its alarm goes off.
Spec == /\ Init /\ [][Next]_vars
        /\ \A p \in Users : WF_vars(main(p) /\ Record) /\ WF_vars(Expire(p) /\ Record)
        /\ \A p \in Makers : WF_vars(mksem(p) /\ Record)
        /\ \A p \in Removers : WF_vars(rmsem(p) /\ Record)

-----------------------------------------------------------------------------
(* Properties.                                                             *)

\* "Repeatedly acquire mutual exclusion": processes that share a semaphore
\* never store data at the same time.
SameSemaphoreExclusion ==
    \A p, q \in Users : pc[p] \in {"write", "post"} /\ pc[q] \in {"write", "post"}
                          /\ sem[p] = sem[q] => p = q

\* The name is only ever bound to an unlocked semaphore: a run of the program
\* or of mksem never gets hold of one that an earlier run has left locked.
BoundMeansUnlocked == semName # None => value[semName] = 1

\* A semaphore that somebody has is locked exactly when one process is at work
\* under it or was ended there, by its alarm or a SIGBUS.  No second one ever
\* gets past its sem_wait: it is not unlocked for the sake of the dead.
LockedByHolder ==
    /\ \A p, q \in Users : Holds(p) /\ Holds(q) /\ sem[p] = sem[q] => p = q
    /\ \A s \in Users \cup Makers :
          (\E p \in Users : sem[p] = s) =>
              (value[s] = 0 <=> \E p \in Users : sem[p] = s /\ Holds(p))

\* Region and semaphore have a name each, and their set-ups may overlap in any
\* order; but once a run is past it, nobody who comes later gets its region
\* (and empties it) or its semaphore.
ClosedToNewcomers ==
    \A p \in Users :
        /\ pc[p] \notin {"shm_open", "ftruncate", "shm_unlink"} => shmName # region[p]
        /\ InLoop(p) => semName # sem[p]

\* "So it goes away on exit": when the last process is over both names are
\* gone, unless mksem has left a semaphore for others.
NamesGoAway ==
    (\A p \in Procs : Over(p)) =>
        shmName = None /\ (semName # None => semName \in Makers)

\* "Make region PAGESIZE big": an access is met with a SIGBUS only when another
\* run has opened, and so emptied, the same region.
SigbusOnlyWhenShared ==
    \A p \in Users : pc[p] = "killed" =>
        \E q \in Users \ {p} : region[q] = region[p]

\* Every run comes to an end, even one that waits for a semaphore whose holder
\* has died.
AllEnd == <>(\A p \in Procs : Over(p))

-----------------------------------------------------------------------------
(* The inductive invariant behind the safety properties.                   *)

\* A process that has yet to open its semaphore has not created one.
Fresh ==
    \A p \in Procs :
        pc[p] \in {"shm_open", "ftruncate", "shm_unlink", "sem_open", "mksem"} =>
            semName # p /\ \A q \in Users : sem[q] # p

\* Who has a semaphore.
Opened ==
    \A p \in Users :
        /\ InLoop(p) \/ pc[p] = "sem_unlink" => sem[p] # None
        /\ pc[p] \in {"shm_open", "ftruncate", "shm_unlink", "sem_open"} =>
                sem[p] = None

\* The semaphore counts: 0 while somebody is at work under it, and from then on
\* if it is ended there; never above 1.
Counted ==
    /\ \A s \in Users \cup Makers : value[s] \in {0, 1}
    /\ \A p \in Users : Holds(p) => sem[p] # None /\ value[sem[p]] = 0
    /\ \A p \in endedAtWork : pc[p] \in {"exited", "killed"}

\* A bound name has somebody who will unlink it, and whom no alarm ends first.
Unlinkers ==
    /\ shmName # None => \E p \in Users : pc[p] \in {"ftruncate", "shm_unlink"}
    /\ semName \in Users => \E p \in Users : pc[p] = "sem_unlink"
    /\ \A p \in Users : armed[p] => InLoop(p) \/ Over(p)

\* Who has a region, and that one emptied behind a process's back is shared.
Mapped ==
    \A p \in Users :
        IF pc[p] = "shm_open"
        THEN region[p] = None /\ shmName # p /\ \A q \in Users : region[q] # p
        ELSE /\ region[p] # None
             /\ pc[p] # "ftruncate" /\ region[p] \notin page =>
                    \E q \in Users \ {p} : region[q] = region[p]

IInv == /\ TypeOK /\ Fresh /\ Opened /\ Counted /\ Unlinkers /\ Mapped
        /\ SameSemaphoreExclusion /\ BoundMeansUnlocked /\ LockedByHolder
        /\ ClosedToNewcomers /\ SigbusOnlyWhenShared

-----------------------------------------------------------------------------
(* Refinement.                                                             *)

Under == [p \in Users |-> IF AtWork(p) THEN sem[p] ELSE None]
Locked == {s \in Users \cup Makers : value[s] = 0 /\ \E p \in Users : sem[p] = s}
Gone == {p \in Users : Over(p)}

M == INSTANCE Mutex WITH Locks <- Users \cup Makers, Robust <- FALSE,
                         under <- Under, locked <- Locked, gone <- Gone

\* "Repeatedly acquire mutual exclusion": each semaphore, however many of them
\* the runs come to open, is a lock that one process at a time is under and
\* that stays locked for good when its process is ended there.
ImplementsMutex == M!Spec
=============================================================================
